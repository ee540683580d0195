----------------------- MODULE ProjectorRuntimeProofs -----------------------
(***************************************************************************)
(* Proofs about the projection protocol, for any number of replicas and    *)
(* projectors, any sources and any number of faults.                       *)
(*                                                                         *)
(* The workers matter only for what they hand to the store: an input of    *)
(* the feed.  What the store then decides rests on three facts: the cursor *)
(* of the active generation is the last input applied, the inputs applied  *)
(* are in order within one epoch, and every failure on record is applied   *)
(* by now, or stops the partition, or is what its repair waits for.        *)
(*                                                                         *)
(* Two more invariants build on this one.  That no update is lost rests on *)
(* what a worker has staged: it is what its handler would stage now, or    *)
(* the record has moved on from the revision it names.  That only what is  *)
(* applied is acknowledged rests, for the ordered log, on how far a worker *)
(* may be ahead of the group, and on nothing having been passed over.      *)
(***************************************************************************)
EXTENDS ProjectorRuntime, TLAPS, WellFoundedInduction

Messages == {"none"} \cup {x.message : x \in Inputs}
Cursors == [epoch : Nat, position : Nat]
FailureRecords == [generation : Nat, cursor : Cursors, message : Messages]
Partitions == [generation : Generations, head : Nat, compacted : Nat,
               stopped : FailureRecords, pending : FailureRecords]

\* The types of the tables that matter here.
StoreTypes ==
    /\ partition \in [Projectors -> Partitions]
    /\ cursors \in [Projectors -> [Generations -> Cursors]]
    /\ identities \in [Projectors -> SUBSET Inputs]
    /\ failures \in [Projectors -> SUBSET FailureRecords]
    /\ applied \in [Projectors -> Seq(Inputs)]
    /\ \A t \in Projectors : \A f \in failures[t] : f.cursor.epoch > 0

Active(t) == cursors[t][partition[t].generation]

\* The active generation stands behind the last input applied.
CursorIsLast ==
    \A t \in Projectors :
        /\ applied[t] = <<>> => Active(t) = NoCursor
        /\ applied[t] # <<>> => Active(t) = applied[t][Len(applied[t])].cursor

\* x comes after everything t has applied, and under another id.
Later(t, x) ==
    \A a \in 1..Len(applied[t]) :
        /\ x.cursor.epoch = applied[t][a].cursor.epoch
        /\ x.cursor.position > applied[t][a].cursor.position
        /\ x.message # applied[t][a].message

AppliedInOrder ==
    \A t \in Projectors : \A a, b \in 1..Len(applied[t]) :
        /\ applied[t][a].cursor.epoch = applied[t][b].cursor.epoch
        /\ a < b => /\ applied[t][a].cursor.position < applied[t][b].cursor.position
                    /\ applied[t][a].message # applied[t][b].message

AppliedIsKnown ==
    \A t \in Projectors : \A a \in 1..Len(applied[t]) : applied[t][a] \in identities[t]

\* A failure has been made up for, or stops the partition, or is waited for.
FailureStands ==
    \A t \in Projectors : \A f \in failures[t] :
        \/ \E a \in 1..Len(applied[t]) : SameInput(applied[t][a], f)
        \/ SameInput(partition[t].stopped, f)
        \/ SameInput(partition[t].pending, f)

\* A partition that stops waits for nothing any more.
StopEndsRetry ==
    \A t \in Projectors : NoFailure \in {partition[t].stopped, partition[t].pending}

StoreInv ==
    /\ StoreTypes
    /\ StopEndsRetry
    /\ CursorIsLast
    /\ AppliedInOrder
    /\ AppliedIsKnown
    /\ FailureStands
    /\ FailureIsNotCrossed

\* A worker at work on a message has one of the feed, and a projector of it.
WorkerFields(m) ==
    [at : {"Stopped", "Recv", "State", "Disposition", "Handle", "Commit", "Fail", "Settle"},
     message : Nat, stage : Nat, generation : Nat, mutation : {m},
     verdict : {"Ok", "Retryable", "Retain"}, ahead : Nat]

WorkerOK(r) ==
    /\ r \in WorkerFields(r.mutation)
    /\ r.at \notin {"Stopped", "Recv", "Settle"} =>
           r.message \in Feed /\ r.stage \in 1..Len(Chain(r.message))

WorkersOK ==
    /\ \E s \in Sources : feed = s.feed
    /\ worker = [w \in Workers |-> worker[w]]
    /\ \A w \in Workers : WorkerOK(worker[w])

Inv == WorkersOK /\ StoreInv

\* An input a worker may hand to the store.
Trusted(i) == i.projector \in Projectors /\ Identity(i) \in Inputs

-----------------------------------------------------------------------------
(* Inputs.                                                                 *)

\* An input of a source has a cursor that is not the absent one.
LEMMA InputOK ==
    ASSUME NEW x \in Inputs
    PROVE  /\ x.cursor \in Cursors /\ x.cursor.epoch > 0 /\ x.message \in Messages
           /\ x = [cursor |-> x.cursor, message |-> x.message]
           /\ x.cursor # NoCursor
<1>1. PICK s \in Sources : \E n \in 1..Len(s.feed) :
          x = [cursor |-> [epoch |-> s.feed[n].epoch, position |-> s.feed[n].position],
               message |-> s.feed[n].message]
    BY DEF Inputs
<1>2. PICK n \in 1..Len(s.feed) :
          x = [cursor |-> [epoch |-> s.feed[n].epoch, position |-> s.feed[n].position],
               message |-> s.feed[n].message]
    BY <1>1
<1>3. s.feed[n].epoch \in Nat \ {0} /\ s.feed[n].position \in Nat
    BY <1>2, RuntimeAssumption DEF RuntimeAssumption
<1>4. /\ x.cursor = [epoch |-> s.feed[n].epoch, position |-> s.feed[n].position]
      /\ x.cursor.epoch = s.feed[n].epoch
      /\ x = [cursor |-> x.cursor, message |-> x.message]
    BY <1>2
<1>5. x.cursor \in Cursors /\ x.cursor.epoch > 0
    BY <1>3, <1>4 DEF Cursors
<1>6. x.cursor # NoCursor
    BY <1>5 DEF NoCursor
<1>7. x.message \in Messages
    BY DEF Messages
<1> QED
    BY SMTT(60), <1>4, <1>5, <1>6, <1>7

\* What a trusted input carries.
LEMMA TrustedOK ==
    ASSUME NEW i, Trusted(i)
    PROVE  /\ i.projector \in Projectors /\ Identity(i) \in Inputs
           /\ Identity(i).cursor = i.cursor /\ Identity(i).message = i.message
           /\ i.cursor \in Cursors /\ i.cursor.epoch > 0 /\ i.cursor # NoCursor
           /\ i.message \in Messages
<1>1. Identity(i).cursor = i.cursor /\ Identity(i).message = i.message
    BY DEF Identity
<1> QED
    BY <1>1, InputOK DEF Trusted

\* An input that is new to the active generation comes after all that was applied.
LEMMA NewIsLater ==
    ASSUME StoreInv, NEW i, Trusted(i), IdentityVerdict(i) = "Ok",
           i.generation = partition[i.projector].generation, classify_input(i) = "New"
    PROVE  Later(i.projector, Identity(i))
<1> DEFINE t == i.projector
           last == cursors[t][i.generation]
<1>1. t \in Projectors /\ applied[t] \in Seq(Inputs) /\ i.cursor \in Cursors
    BY TrustedOK DEF StoreInv, StoreTypes
<1>2. SUFFICES ASSUME NEW a \in 1..Len(applied[t])
               PROVE  /\ i.cursor.epoch = applied[t][a].cursor.epoch
                      /\ i.cursor.position > applied[t][a].cursor.position
                      /\ i.message # applied[t][a].message
    BY Zenon, TrustedOK DEF Later
<1>3. Len(applied[t]) \in 1..Len(applied[t]) /\ applied[t] # <<>>
    BY <1>1, <1>2
<1>4. last = applied[t][Len(applied[t])].cursor
    BY <1>1, <1>3 DEF StoreInv, CursorIsLast, Active
<1>5. applied[t][Len(applied[t])] \in Inputs /\ applied[t][a] \in Inputs
    BY <1>1, <1>2, <1>3
<1>6. last # NoCursor /\ last \in Cursors /\ applied[t][a].cursor \in Cursors
    BY ZenonT(60), <1>4, <1>5, InputOK
<1>7. /\ last.epoch = i.cursor.epoch
      /\ ~(i.cursor.position < last.position) /\ i.cursor.position # last.position
    BY Zenon, <1>6 DEF classify_input
<1>8. /\ last.position \in Nat /\ i.cursor.position \in Nat
      /\ applied[t][a].cursor.position \in Nat
    BY ZenonT(60), <1>1, <1>6 DEF Cursors
<1>9. /\ applied[t][a].cursor.epoch = last.epoch
      /\ applied[t][a].cursor.position <= last.position
  <2>1. CASE a = Len(applied[t])
      BY SMTT(60), <1>4, <1>8, <2>1
  <2>2. CASE a # Len(applied[t])
    <3>1. a < Len(applied[t])
        BY <1>1, <1>2, <2>2
    <3>2. /\ applied[t][a].cursor.epoch = applied[t][Len(applied[t])].cursor.epoch
          /\ applied[t][a].cursor.position < applied[t][Len(applied[t])].cursor.position
        BY ZenonT(60), <1>1, <1>3, <3>1 DEF StoreInv, AppliedInOrder
    <3>3. last.position = applied[t][Len(applied[t])].cursor.position
        BY Zenon, <1>4
    <3> HIDE DEF t, last
    <3>4. applied[t][a].cursor.position <= last.position
        BY SMTT(60), <1>8, <3>2, <3>3
    <3> QED
        BY Zenon, <1>4, <3>2, <3>4
  <2> QED
      BY Zenon, <2>1, <2>2
<1>10. i.cursor.position > applied[t][a].cursor.position
  <2> HIDE DEF t, last
  <2> QED
      BY SMTT(60), <1>7, <1>8, <1>9
<1>11. i.message # applied[t][a].message
  <2>1. applied[t][a] \in identities[t]
      BY <1>1 DEF StoreInv, AppliedIsKnown
  <2>2. i.message = applied[t][a].message => i.cursor = applied[t][a].cursor
      BY <2>1 DEF IdentityVerdict
  <2> QED
      BY SMTT(60), <1>8, <1>10, <2>2
<1> QED
    BY Zenon, <1>7, <1>9, <1>10, <1>11

-----------------------------------------------------------------------------
(* The transactions of the store.                                          *)

\* What a commit and a failure have been checked for when they write.
Admitted(i) ==
    /\ IdentityVerdict(i) = "Ok"
    /\ i.generation = partition[i.projector].generation
    /\ partition[i.projector].stopped = NoFailure
    /\ classify_input(i) = "New"
    /\ AllowedByRetry(i)

\* A commit that applies has found its input admissible.
LEMMA CommitAdmitted ==
    ASSUME NEW i, NEW m, CommitVerdict(i, m) = "Applied"
    PROVE  Admitted(i)
<1>1. IdentityVerdict(i) \in {"Ok", "InputCorruption", "MessageIdReuse"}
    BY DEF IdentityVerdict
<1>2. /\ ensure_active_input(i) \in {"Ok", "GenerationFenced", "PartitionStopped"}
      /\ ensure_active_input(i) = "Ok" => /\ i.generation = partition[i.projector].generation
                                          /\ partition[i.projector].stopped = NoFailure
    BY DEF ensure_active_input
<1>3. classify_input(i) \in {"Duplicate", "CorruptStorage", "New", "IncomparableInput", "Stale"}
    BY DEF classify_input
<1>4. Disposition(i) # "Applied"
    BY <1>1, <1>2, <1>3 DEF Disposition
<1>5. Disposition(i) = "New"
    BY <1>4 DEF CommitVerdict
<1> QED
    BY <1>1, <1>2, <1>3, <1>5 DEF Disposition, Admitted

\* So has a failure that is recorded.
LEMMA FailureAdmitted ==
    ASSUME NEW i, FailureVerdict(i) = "Records"
    PROVE  Admitted(i)
<1>1. IdentityVerdict(i) \in {"Ok", "InputCorruption", "MessageIdReuse"}
    BY DEF IdentityVerdict
<1>2. classify_input(i) \in {"Duplicate", "CorruptStorage", "New", "IncomparableInput", "Stale"}
    BY DEF classify_input
<1> QED
    BY <1>1, <1>2 DEF FailureVerdict, Admitted

\* Where the change log ends and how far it is compacted are numbers.
LEMMA PositionsOK ==
    ASSUME StoreTypes, NEW t \in Projectors
    PROVE  NextPosition(t) \in Nat /\ Watermark(t) \in Nat
<1>1. partition[t].head \in Nat /\ partition[t].compacted \in Nat
    BY DEF StoreTypes, Partitions
<1>2. Retention \in Nat
    BY StoreAssumption DEF StoreAssumption
<1> QED
    BY <1>1, <1>2 DEF NextPosition, Watermark

\* The values that stand for nothing have their types.
LEMMA NoFailureOK == NoFailure \in FailureRecords /\ NoCursor \in Cursors
BY DEF NoFailure, NoCursor, FailureRecords, Cursors, Messages

\* The row of a partition that takes or fails an input, by its fields.
LEMMA PartitionMoves ==
    ASSUME StoreTypes, NEW t \in Projectors, NEW f \in FailureRecords,
           partition' = [partition EXCEPT ![t] =
                           [@ EXCEPT !.head = NextPosition(t), !.compacted = Watermark(t),
                                     !.pending = NoFailure, !.stopped = f]]
    PROVE  /\ partition' \in [Projectors -> Partitions]
           /\ partition'[t].generation = partition[t].generation
           /\ partition'[t].pending = NoFailure /\ partition'[t].stopped = f
           /\ \A u \in Projectors \ {t} : partition'[u] = partition[u]
<1>1. partition[t] \in Partitions
    BY DEF StoreTypes
<1>2. NextPosition(t) \in Nat /\ Watermark(t) \in Nat /\ NoFailure \in FailureRecords
    BY PositionsOK, NoFailureOK
<1> DEFINE p == [partition[t] EXCEPT !.head = NextPosition(t), !.compacted = Watermark(t),
                                     !.pending = NoFailure, !.stopped = f]
<1>3. /\ p \in Partitions /\ p.generation = partition[t].generation
      /\ p.pending = NoFailure /\ p.stopped = f
    BY Zenon, <1>1, <1>2 DEF Partitions
<1>4. partition' = [partition EXCEPT ![t] = p]
    OBVIOUS
<1> HIDE DEF p
<1> QED
    BY <1>3, <1>4 DEF StoreTypes

\* A taken input goes to the end.
LEMMA AppliedGrows ==
    ASSUME StoreTypes, NEW i, Trusted(i), NEW m, Applies(i, m)
    PROVE  LET t == i.projector
               n == Len(applied[t])
           IN  /\ applied' \in [Projectors -> Seq(Inputs)]
               /\ Len(applied'[t]) = n + 1 /\ applied'[t][n + 1] = Identity(i)
               /\ \A a \in 1..n : applied'[t][a] = applied[t][a]
               /\ \A u \in Projectors \ {t} : applied'[u] = applied[u]
<1> DEFINE t == i.projector
<1>1. t \in Projectors /\ Identity(i) \in Inputs /\ applied \in [Projectors -> Seq(Inputs)]
    BY TrustedOK DEF StoreTypes
<1>2. applied' = [applied EXCEPT ![t] = Append(@, Identity(i))]
    BY DEF Applies
<1> QED
    BY <1>1, <1>2

\* Applying an admissible input keeps the invariant of the store.
LEMMA AppliesKeeps ==
    ASSUME StoreInv, NEW i, Trusted(i), Admitted(i), NEW m, Applies(i, m)
    PROVE  StoreInv'
<1> DEFINE t == i.projector
           n == Len(applied[t])
           x == Identity(i)
<1>1. /\ t \in Projectors /\ x \in Inputs /\ x.cursor = i.cursor /\ x.message = i.message
      /\ i.cursor \in Cursors /\ i.cursor.epoch > 0
    BY TrustedOK
<1>2. Later(t, x)
    BY NewIsLater DEF Admitted
<1>3. n \in Nat /\ applied[t] \in Seq(Inputs)
    BY <1>1 DEF StoreInv, StoreTypes
<1>4. /\ applied' \in [Projectors -> Seq(Inputs)]
      /\ Len(applied'[t]) = n + 1 /\ applied'[t][n + 1] = x
      /\ \A a \in 1..n : applied'[t][a] = applied[t][a]
      /\ \A u \in Projectors \ {t} : applied'[u] = applied[u]
    BY AppliedGrows DEF StoreInv
<1>5. /\ partition' \in [Projectors -> Partitions]
      /\ partition'[t].generation = partition[t].generation
      /\ partition'[t].pending = NoFailure /\ partition'[t].stopped = NoFailure
      /\ \A u \in Projectors \ {t} : partition'[u] = partition[u]
  <2>1. partition[t].stopped = NoFailure /\ partition[t] \in Partitions
      BY <1>1 DEF Admitted, StoreInv, StoreTypes
  <2>2. [partition[t] EXCEPT !.head = NextPosition(t), !.compacted = Watermark(t),
                             !.pending = NoFailure]
        = [partition[t] EXCEPT !.head = NextPosition(t), !.compacted = Watermark(t),
                               !.pending = NoFailure, !.stopped = NoFailure]
      BY Zenon, <2>1 DEF Partitions
  <2>3. partition' = [partition EXCEPT ![t] =
                        [@ EXCEPT !.head = NextPosition(t), !.compacted = Watermark(t),
                                  !.pending = NoFailure]]
      BY DEF Applies
  <2>4. partition' = [partition EXCEPT ![t] =
                        [@ EXCEPT !.head = NextPosition(t), !.compacted = Watermark(t),
                                  !.pending = NoFailure, !.stopped = NoFailure]]
      BY Zenon, <2>2, <2>3
  <2> QED
      BY ZenonT(60), <1>1, <2>4, PartitionMoves, NoFailureOK DEF StoreInv
<1>6. /\ cursors' \in [Projectors -> [Generations -> Cursors]]
      /\ cursors'[t][partition[t].generation] = i.cursor
      /\ \A u \in Projectors \ {t} : cursors'[u] = cursors[u]
  <2>1. partition[t].generation \in Generations /\ i.generation = partition[t].generation
      BY <1>1 DEF StoreInv, StoreTypes, Partitions, Admitted
  <2>2. cursors' = [cursors EXCEPT ![t][i.generation] = i.cursor]
      BY DEF Applies
  <2> QED
      BY Zenon, <1>1, <2>1, <2>2 DEF StoreInv, StoreTypes
<1>7. /\ identities' \in [Projectors -> SUBSET Inputs]
      /\ x \in identities'[t] /\ \A u \in Projectors : identities[u] \subseteq identities'[u]
      /\ UNCHANGED failures
    BY Zenon, <1>1 DEF Applies, StoreInv, StoreTypes
<1> HIDE DEF t, n, x
<1>8. StoreTypes'
    BY Zenon, <1>4, <1>5, <1>6, <1>7 DEF StoreInv, StoreTypes
<1>9. CursorIsLast'
  <2>1. ASSUME NEW u \in Projectors
        PROVE  /\ applied'[u] = <<>> => Active(u)' = NoCursor
               /\ applied'[u] # <<>> => Active(u)' = applied'[u][Len(applied'[u])].cursor
    <3>1. CASE u = t
      <4>1. Active(u)' = x.cursor
          BY <1>1, <1>5, <1>6, <3>1 DEF Active
      <4>2. Len(applied'[u]) = n + 1 /\ applied'[u] # <<>>
          BY <1>3, <1>4, <3>1
      <4> QED
          BY <1>4, <3>1, <4>1, <4>2
    <3>2. CASE u # t
        BY ZenonT(60), <1>4, <1>5, <1>6, <3>2 DEF StoreInv, CursorIsLast, Active
    <3> QED
        BY <3>1, <3>2
  <2> QED
      BY <2>1 DEF CursorIsLast
<1>10. AppliedInOrder'
  <2>1. ASSUME NEW u \in Projectors, NEW a \in 1..Len(applied'[u]), NEW b \in 1..Len(applied'[u])
        PROVE  /\ applied'[u][a].cursor.epoch = applied'[u][b].cursor.epoch
               /\ a < b => /\ applied'[u][a].cursor.position < applied'[u][b].cursor.position
                           /\ applied'[u][a].message # applied'[u][b].message
    <3>1. CASE u # t
        BY SMTT(60), <1>4, <3>1 DEF StoreInv, AppliedInOrder
    <3>2. CASE u = t
      <4>1. CASE a \in 1..n /\ b \in 1..n
        <5>1. /\ applied[t][a].cursor.epoch = applied[t][b].cursor.epoch
              /\ a < b => /\ applied[t][a].cursor.position < applied[t][b].cursor.position
                          /\ applied[t][a].message # applied[t][b].message
          <6>1. a \in 1..Len(applied[t]) /\ b \in 1..Len(applied[t])
              BY <4>1 DEF n
          <6>2. AppliedInOrder
              BY DEF StoreInv
          <6> QED
              BY SMTT(60), <1>1, <6>1, <6>2 DEF AppliedInOrder
        <5>2. applied'[t][a] = applied[t][a] /\ applied'[t][b] = applied[t][b]
            BY <1>4, <4>1
        <5> QED
            BY Zenon, <3>2, <5>1, <5>2
      <4>2. CASE a \in 1..n /\ b = n + 1
        <5>1. applied'[t][a] = applied[t][a] /\ applied'[t][b] = x
            BY Zenon, <1>4, <4>2
        <5>2. /\ x.cursor.epoch = applied[t][a].cursor.epoch
              /\ x.cursor.position > applied[t][a].cursor.position
              /\ x.message # applied[t][a].message
            BY Zenon, <1>2, <4>2 DEF Later, n
        <5>3. applied[t][a].cursor.position < x.cursor.position
            BY <5>2
        <5> QED
            BY Zenon, <3>2, <5>1, <5>2, <5>3
      <4>3. CASE a = n + 1 /\ b \in 1..n
        <5>1. applied'[t][b] = applied[t][b] /\ applied'[t][a] = x
            BY Zenon, <1>4, <4>3
        <5>2. x.cursor.epoch = applied[t][b].cursor.epoch
            BY Zenon, <1>2, <4>3 DEF Later, n
        <5>3. ~(a < b)
            BY <1>3, <4>3
        <5> QED
            BY Zenon, <3>2, <5>1, <5>2, <5>3
      <4>4. CASE a = n + 1 /\ b = n + 1
          BY <1>3, <4>4
      <4> QED
          BY SMTT(60), <1>3, <1>4, <3>2, <4>1, <4>2, <4>3, <4>4
    <3> QED
        BY Zenon, <3>1, <3>2
  <2> QED
      BY <2>1 DEF AppliedInOrder
<1>11. AppliedIsKnown'
  <2>1. ASSUME NEW u \in Projectors, NEW a \in 1..Len(applied'[u])
        PROVE  applied'[u][a] \in identities'[u]
    <3>1. CASE u = t /\ a = n + 1
        BY <1>4, <1>7, <3>1
    <3>2. CASE u # t
        BY <1>4, <1>7, <3>2 DEF StoreInv, AppliedIsKnown
    <3>3. CASE u = t /\ a \in 1..n
        BY <1>1, <1>4, <1>7, <3>3 DEF StoreInv, AppliedIsKnown, n
    <3> QED
        BY <1>3, <1>4, <3>1, <3>2, <3>3
  <2> QED
      BY <2>1 DEF AppliedIsKnown
<1>12. ASSUME NEW f \in failures[t]
       PROVE  \E a \in 1..(n + 1) : SameInput(applied'[t][a], f)
  <2>1. CASE \E a \in 1..n : SameInput(applied[t][a], f)
      BY <1>3, <1>4, <2>1
  <2>2. CASE SameInput(partition[t].stopped, f)
    <3>1. f.cursor = NoCursor /\ f.cursor.epoch > 0
        BY SMTT(60), <1>1, <2>2 DEF Admitted, SameInput, NoFailure, StoreInv, StoreTypes, t
    <3> QED
        BY <3>1 DEF NoCursor
  <2>3. CASE SameInput(partition[t].pending, f) /\ ~SameInput(partition[t].stopped, f)
    <3>1. partition[t].pending # NoFailure
        BY <2>3 DEF Admitted, t
    <3>2. SameInput(partition[t].pending, i)
        BY <3>1 DEF Admitted, AllowedByRetry, t
    <3>3. SameInput(x, f)
        BY <1>1, <2>3, <3>2 DEF SameInput
    <3>4. n + 1 \in 1..(n + 1)
        BY <1>3
    <3>5. applied'[t][n + 1] = x
        BY <1>4
    <3> QED
        BY Zenon, <3>3, <3>4, <3>5
  <2> QED
      BY <1>1, <2>1, <2>2, <2>3 DEF StoreInv, FailureStands, n
<1>13. FailureStands'
  <2>1. ASSUME NEW u \in Projectors \ {t}, NEW f \in failures[u]
        PROVE  \/ \E a \in 1..Len(applied'[u]) : SameInput(applied'[u][a], f)
               \/ SameInput(partition'[u].stopped, f)
               \/ SameInput(partition'[u].pending, f)
      BY Zenon, <1>4, <1>5 DEF StoreInv, FailureStands
  <2>2. ASSUME NEW f \in failures[t]
        PROVE  \E a \in 1..Len(applied'[t]) : SameInput(applied'[t][a], f)
      BY <1>4, <1>12
  <2> QED
      BY SMTT(60), <1>7, <2>1, <2>2 DEF FailureStands, SameInput
<1>14. FailureIsNotCrossed'
  <2>1. ASSUME NEW u \in Projectors, NEW f \in failures[u], NEW b \in 1..Len(applied'[u]),
               f.cursor.epoch = applied'[u][b].cursor.epoch,
               f.cursor.position < applied'[u][b].cursor.position
        PROVE  \E a \in 1..(b - 1) : SameInput(applied'[u][a], f)
    <3>1. CASE u # t
        BY ZenonT(60), <1>4, <2>1, <3>1 DEF StoreInv, FailureIsNotCrossed
    <3>2. CASE u = t /\ b \in 1..n
      <4>1. PICK a \in 1..(b - 1) : SameInput(applied[t][a], f)
          BY ZenonT(60), <1>1, <1>4, <2>1, <3>2 DEF StoreInv, FailureIsNotCrossed, n
      <4>2. a \in 1..n
          BY SMTT(60), <1>3, <3>2, <4>1
      <4> QED
          BY Zenon, <1>4, <3>2, <4>1, <4>2
    <3>3. CASE u = t /\ b = n + 1
      <4>1. PICK a \in 1..(n + 1) : SameInput(applied'[t][a], f)
          BY <1>12, <3>3
      <4>2. a # n + 1
        <5>1. ASSUME a = n + 1 PROVE FALSE
          <6>1. f.cursor = x.cursor
              BY <1>4, <4>1, <5>1 DEF SameInput
          <6>2. x.cursor.position \in Nat
              BY <1>1 DEF Cursors
          <6> QED
              BY <1>4, <2>1, <3>3, <6>1, <6>2
        <5> QED
            BY <5>1
      <4>3. a \in 1..(b - 1)
          BY <1>3, <3>3, <4>1, <4>2
      <4> QED
          BY <3>3, <4>1, <4>3
    <3> QED
        BY <1>3, <1>4, <3>1, <3>2, <3>3
  <2> QED
      BY SMTT(60), <1>7, <2>1 DEF FailureIsNotCrossed, SameInput
<1>15. StopEndsRetry'
    BY <1>5 DEF StoreInv, StopEndsRetry
<1> QED
    BY <1>8, <1>9, <1>10, <1>11, <1>13, <1>14, <1>15 DEF StoreInv

\* A failure is put on record: it stops the partition, behind all that was applied.
LEMMA StopsKeeps ==
    ASSUME StoreInv, NEW i, Trusted(i), Admitted(i), Stops(i)
    PROVE  StoreInv'
<1> DEFINE t == i.projector
           x == Identity(i)
<1>1. /\ t \in Projectors /\ x \in Inputs /\ x.cursor = i.cursor /\ x.message = i.message
      /\ i.cursor \in Cursors /\ i.cursor.epoch > 0 /\ i.message \in Messages
    BY TrustedOK
<1>2. Later(t, x)
    BY Zenon, NewIsLater DEF Admitted
<1>3. /\ Failure(i) \in FailureRecords /\ Failure(i).cursor = i.cursor
      /\ Failure(i).message = i.message
  <2>1. i.generation \in Nat
      BY SMTT(60), <1>1 DEF Admitted, StoreInv, StoreTypes, Partitions, Generations
  <2> QED
      BY <1>1, <2>1 DEF Failure, FailureRecords
<1>4. /\ partition' \in [Projectors -> Partitions]
      /\ partition'[t].generation = partition[t].generation
      /\ partition'[t].pending = NoFailure /\ partition'[t].stopped = Failure(i)
      /\ \A u \in Projectors \ {t} : partition'[u] = partition[u]
    BY ZenonT(60), <1>1, <1>3, PartitionMoves DEF StoreInv, Stops
<1>5. /\ identities' \in [Projectors -> SUBSET Inputs]
      /\ \A u \in Projectors : identities[u] \subseteq identities'[u]
      /\ failures' \in [Projectors -> SUBSET FailureRecords]
      /\ failures'[t] = failures[t] \cup {Failure(i)}
      /\ \A u \in Projectors \ {t} : failures'[u] = failures[u]
      /\ UNCHANGED <<cursors, applied>>
    BY SMTT(60), <1>1, <1>3 DEF Stops, StoreInv, StoreTypes
<1> HIDE DEF t, x
<1>6. StoreTypes'
  <2>1. \A u \in Projectors : \A f \in failures'[u] : f.cursor.epoch > 0
      BY Zenon, <1>1, <1>3, <1>5 DEF StoreInv, StoreTypes
  <2> QED
      BY Zenon, <1>4, <1>5, <2>1 DEF StoreInv, StoreTypes
<1>7. StopEndsRetry'
    BY <1>4 DEF StoreInv, StopEndsRetry
<1>8. CursorIsLast'
  <2>1. \A u \in Projectors : partition'[u].generation = partition[u].generation
      BY <1>4
  <2> QED
      BY Zenon, <1>5, <2>1 DEF StoreInv, CursorIsLast, Active
<1>9. AppliedInOrder' /\ AppliedIsKnown'
  <2>1. AppliedInOrder'
      BY SMTT(60), <1>5 DEF StoreInv, AppliedInOrder
  <2>2. AppliedIsKnown'
      BY Zenon, <1>5 DEF StoreInv, AppliedIsKnown
  <2> QED
      BY Zenon, <2>1, <2>2
<1>10. FailureStands'
  <2>1. ASSUME NEW u \in Projectors, NEW f \in failures'[u]
        PROVE  \/ \E a \in 1..Len(applied[u]) : SameInput(applied[u][a], f)
               \/ SameInput(partition'[u].stopped, f)
               \/ SameInput(partition'[u].pending, f)
    <3>1. CASE u # t
        BY Zenon, <1>4, <1>5, <3>1 DEF StoreInv, FailureStands
    <3>2. CASE u = t /\ f = Failure(i)
        BY Zenon, <1>4, <3>2 DEF SameInput
    <3>3. CASE u = t /\ f \in failures[t]
      <4>1. ~SameInput(partition[t].stopped, f)
        <5>1. f.cursor.epoch > 0
            BY Zenon, <1>1, <3>3 DEF StoreInv, StoreTypes
        <5>2. f.cursor # NoCursor
            BY <5>1 DEF NoCursor
        <5> QED
            BY <5>2 DEF Admitted, SameInput, NoFailure, t
      <4>2. CASE \E a \in 1..Len(applied[t]) : SameInput(applied[t][a], f)
          BY <3>3, <4>2
      <4>3. CASE SameInput(partition[t].pending, f)
        <5>1. partition[t].pending # NoFailure
            BY SMTT(60), <4>1, <4>3 DEF Admitted, t
        <5>2. SameInput(partition[t].pending, i)
            BY Zenon, <5>1 DEF Admitted, AllowedByRetry, t
        <5>3. SameInput(Failure(i), f)
            BY <1>3, <4>3, <5>2 DEF SameInput
        <5> QED
            BY Zenon, <1>4, <3>3, <5>3
      <4> QED
          BY SMTT(60), <1>1, <3>3, <4>1, <4>2, <4>3 DEF StoreInv, FailureStands
    <3> QED
        BY Zenon, <1>5, <3>1, <3>2, <3>3
  <2> QED
      BY ZenonT(60), <1>5, <2>1 DEF FailureStands, SameInput
<1>11. FailureIsNotCrossed'
  <2>1. ASSUME NEW u \in Projectors, NEW f \in failures'[u], NEW b \in 1..Len(applied[u]),
               f.cursor.epoch = applied[u][b].cursor.epoch,
               f.cursor.position < applied[u][b].cursor.position
        PROVE  \E a \in 1..(b - 1) : SameInput(applied[u][a], f)
    <3>1. CASE f \in failures[u]
        BY Zenon, <2>1, <3>1 DEF StoreInv, FailureIsNotCrossed
    <3>2. CASE u = t /\ f = Failure(i)
      <4>1. f.cursor.position > applied[u][b].cursor.position
          BY Zenon, <1>1, <1>2, <1>3, <3>2 DEF Later
      <4>2. f.cursor.position \in Nat /\ applied[u][b].cursor.position \in Nat
        <5>1. applied[u][b] \in Inputs
            BY SMTT(60) DEF StoreInv, StoreTypes
        <5> QED
            BY SMTT(60), <1>1, <1>3, <3>2, <5>1, InputOK DEF Cursors
      <4> QED
          BY SMTT(60), <2>1, <4>1, <4>2
    <3> QED
        BY Zenon, <1>5, <3>1, <3>2
  <2> QED
      BY SMTT(60), <1>5, <2>1 DEF FailureIsNotCrossed, SameInput
<1> QED
    BY <1>6, <1>7, <1>8, <1>9, <1>10, <1>11 DEF StoreInv

\* A repair: the new generation has the cursor of the old one, and what stopped the
\* partition is waited for.
LEMMA RepairMoves ==
    ASSUME StoreTypes, NEW t \in Projectors, repair_projection(t)
    PROVE  /\ partition' \in [Projectors -> Partitions]
           /\ partition'[t].pending = partition[t].stopped /\ partition'[t].stopped = NoFailure
           /\ cursors' \in [Projectors -> [Generations -> Cursors]]
           /\ Active(t)' = Active(t)
           /\ \A u \in Projectors \ {t} : partition'[u] = partition[u] /\ cursors'[u] = cursors[u]
<1> DEFINE old == partition[t].generation
           p == [partition[t] EXCEPT !.generation = old + 1, !.pending = partition[t].stopped,
                                     !.stopped = NoFailure]
<1>1. partition[t] \in Partitions /\ NoFailure \in FailureRecords
    BY NoFailureOK DEF StoreTypes
<1>2. old \in Generations /\ old + 1 \in Generations
    BY <1>1, StoreAssumption DEF Partitions, Generations, repair_projection, StoreAssumption
<1>3. /\ p \in Partitions /\ p.generation = old + 1
      /\ p.pending = partition[t].stopped /\ p.stopped = NoFailure
    BY Zenon, <1>1, <1>2 DEF Partitions
<1>4. partition' = [partition EXCEPT ![t] = p]
    BY DEF repair_projection
<1>5. cursors' = [cursors EXCEPT ![t][old + 1] = cursors[t][old]]
    BY DEF repair_projection
<1> HIDE DEF old, p
<1>6. /\ partition' \in [Projectors -> Partitions]
      /\ partition'[t] = p /\ \A u \in Projectors \ {t} : partition'[u] = partition[u]
    BY Zenon, <1>3, <1>4 DEF StoreTypes
<1>7. /\ cursors' \in [Projectors -> [Generations -> Cursors]]
      /\ cursors'[t][old + 1] = cursors[t][old]
      /\ \A u \in Projectors \ {t} : cursors'[u] = cursors[u]
    BY Zenon, <1>2, <1>5 DEF StoreTypes
<1>8. Active(t)' = Active(t)
    BY Zenon, <1>3, <1>6, <1>7 DEF Active, old
<1> QED
    BY Zenon, <1>3, <1>6, <1>7, <1>8

\* A repair, which moves the failure from stopped to pending, keeps it.
LEMMA RepairKeeps ==
    ASSUME StoreInv, NEW t \in Projectors, repair_projection(t)
    PROVE  StoreInv'
<1>1. /\ partition' \in [Projectors -> Partitions]
      /\ partition'[t].pending = partition[t].stopped /\ partition'[t].stopped = NoFailure
      /\ cursors' \in [Projectors -> [Generations -> Cursors]]
      /\ Active(t)' = Active(t)
      /\ \A u \in Projectors \ {t} : partition'[u] = partition[u] /\ cursors'[u] = cursors[u]
    BY Zenon, RepairMoves DEF StoreInv
<1>2. UNCHANGED <<identities, failures, applied>> /\ partition[t].stopped # NoFailure
    BY DEF repair_projection
<1>3. partition[t].pending = NoFailure
    BY <1>2 DEF StoreInv, StopEndsRetry
<1>4. StoreTypes'
    BY Zenon, <1>1, <1>2 DEF StoreInv, StoreTypes
<1>5. StopEndsRetry'
    BY SMTT(60), <1>1 DEF StoreInv, StopEndsRetry
<1>6. CursorIsLast'
  <2>1. \A u \in Projectors : Active(u)' = Active(u)
    <3>1. \A u \in Projectors \ {t} : Active(u)' = Active(u)
        BY ZenonT(60), <1>1 DEF Active
    <3> QED
        BY Zenon, <1>1, <3>1
  <2> QED
      BY <1>2, <2>1 DEF StoreInv, CursorIsLast
<1>7. AppliedInOrder' /\ AppliedIsKnown' /\ FailureIsNotCrossed'
  <2>1. AppliedInOrder /\ AppliedIsKnown /\ FailureIsNotCrossed
      BY DEF StoreInv
  <2> QED
    <3>1. AppliedInOrder'
        BY SMTT(60), <1>2, <2>1 DEF AppliedInOrder
    <3>2. AppliedIsKnown'
        BY Zenon, <1>2, <2>1 DEF AppliedIsKnown
    <3>3. FailureIsNotCrossed'
        BY ZenonT(60), <1>2, <2>1 DEF FailureIsNotCrossed, SameInput
    <3> QED
        BY Zenon, <3>1, <3>2, <3>3
<1>8. FailureStands'
  <2>1. ASSUME NEW u \in Projectors, NEW f \in failures[u]
        PROVE  \/ \E a \in 1..Len(applied[u]) : SameInput(applied[u][a], f)
               \/ SameInput(partition'[u].stopped, f)
               \/ SameInput(partition'[u].pending, f)
    <3>1. CASE u # t
        BY Zenon, <1>1, <3>1 DEF StoreInv, FailureStands
    <3>2. CASE u = t
        BY Zenon, <1>1, <1>3, <3>2 DEF StoreInv, FailureStands
    <3> QED
        BY SMTT(60), <3>1, <3>2
  <2> QED
      BY ZenonT(60), <1>2, <2>1 DEF FailureStands, SameInput
<1> QED
    BY <1>4, <1>5, <1>6, <1>7, <1>8 DEF StoreInv

-----------------------------------------------------------------------------
(* The workers.                                                            *)

\* A worker that goes to a proper state leaves the others in theirs.
LEMMA WorkerMoves ==
    ASSUME WorkersOK, NEW w \in Workers, NEW r, WorkerOK(r),
           worker' = [worker EXCEPT ![w] = r], UNCHANGED feed
    PROVE  WorkersOK'
<1>1. \A v \in Workers : worker'[v] = IF v = w THEN r ELSE worker[v]
    BY Zenon DEF WorkersOK
<1>2. worker' = [v \in Workers |-> worker'[v]]
    BY Zenon, <1>1 DEF WorkersOK
<1>3. \A v \in Workers : WorkerOK(worker'[v])
    BY Zenon, <1>1 DEF WorkersOK
<1>4. \A v \in Workers : WorkerOK(worker[v])'
    BY <1>3 DEF WorkerOK, Feed, Chain
<1> QED
    BY <1>2, <1>4 DEF WorkersOK

\* A message of the feed is one of a source, and has projectors.
LEMMA FeedOK ==
    ASSUME WorkersOK, NEW n \in Feed
    PROVE  /\ Chain(n) \in Seq(Projectors) /\ Chain(n) # <<>>
           /\ [cursor |-> [epoch |-> feed[n].epoch, position |-> feed[n].position],
               message |-> feed[n].message] \in Inputs
<1>1. PICK s \in Sources : feed = s.feed
    BY DEF WorkersOK
<1>2. n \in 1..Len(s.feed)
    BY <1>1 DEF Feed
<1>3. Chain(n) \in Seq(Projectors) /\ Chain(n) # <<>>
    BY SMTT(60), <1>1, <1>2, RuntimeAssumption DEF RuntimeAssumption, Chain
<1> QED
    BY SMTT(60), <1>1, <1>2, <1>3 DEF Inputs

\* What a worker at work hands to the store is an input it may trust.
LEMMA InputTrusted ==
    ASSUME WorkersOK, NEW w \in Workers, worker[w].at \notin {"Stopped", "Recv", "Settle"}
    PROVE  Trusted(Input(w))
<1> DEFINE n == worker[w].message
<1>1. n \in Feed /\ worker[w].stage \in 1..Len(Chain(n))
    BY DEF WorkersOK, WorkerOK
<1>2. Current(w) \in Projectors
  <2>1. Chain(n) \in Seq(Projectors)
      BY Zenon, <1>1, FeedOK
  <2>2. Chain(n)[worker[w].stage] \in Projectors
      BY <1>1, <2>1
  <2> QED
      BY SMTT(60), <2>2 DEF Current
<1>3. /\ Input(w).projector = Current(w)
      /\ Identity(Input(w)) =
            [cursor |-> [epoch |-> feed[n].epoch, position |-> feed[n].position],
             message |-> feed[n].message]
    BY Zenon DEF Input, Identity
<1> QED
    BY Zenon, <1>1, <1>2, <1>3, FeedOK DEF Trusted

\* The end of a dispatch is a proper state,
LEMMA EndDispatchOK ==
    ASSUME WorkersOK, NEW w \in Workers, NEW v \in {"Ok", "Retryable", "Retain"},
           EndDispatch(w, v), UNCHANGED feed
    PROVE  WorkersOK'
<1> DEFINE r == [worker[w] EXCEPT !.at = "Settle", !.verdict = v,
                                  !.generation = 0, !.mutation = NoMutation]
<1>1. worker[w] \in WorkerFields(worker[w].mutation)
    BY DEF WorkersOK, WorkerOK
<1>2. r \in WorkerFields(NoMutation) /\ r.at = "Settle" /\ r.mutation = NoMutation
    BY Zenon, <1>1 DEF WorkerFields
<1>3. worker' = [worker EXCEPT ![w] = r]
    BY Zenon DEF EndDispatch
<1> HIDE DEF r
<1>4. WorkerOK(r)
    BY <1>2 DEF WorkerOK
<1> QED
    BY Zenon, <1>3, <1>4, WorkerMoves

\* the next step of a dispatch is,
LEMMA GotoOK ==
    ASSUME WorkersOK, NEW w \in Workers, NEW at \in {"Handle", "Fail"},
           worker[w].at \notin {"Stopped", "Recv", "Settle"}, Goto(w, at), UNCHANGED feed
    PROVE  WorkersOK'
<1> DEFINE r == [worker[w] EXCEPT !.at = at]
<1>1. /\ worker[w] \in WorkerFields(worker[w].mutation)
      /\ worker[w].message \in Feed /\ worker[w].stage \in 1..Len(Chain(worker[w].message))
    BY DEF WorkersOK, WorkerOK
<1>2. /\ r \in WorkerFields(worker[w].mutation) /\ r.mutation = worker[w].mutation
      /\ r.message = worker[w].message /\ r.stage = worker[w].stage
    BY Zenon, <1>1 DEF WorkerFields
<1>3. worker' = [worker EXCEPT ![w] = r]
    BY Zenon DEF Goto
<1> HIDE DEF r
<1>4. WorkerOK(r)
    BY SMTT(60), <1>1, <1>2 DEF WorkerOK
<1> QED
    BY Zenon, <1>3, <1>4, WorkerMoves

\* and so is the first step of the next projector.
LEMMA NextProjectorOK ==
    ASSUME WorkersOK, NEW w \in Workers, worker[w].at \notin {"Stopped", "Recv", "Settle"},
           NextProjector(w), UNCHANGED feed
    PROVE  WorkersOK'
<1> DEFINE n == worker[w].message
           r == [worker[w] EXCEPT !.at = "State", !.stage = @ + 1,
                                  !.generation = 0, !.mutation = NoMutation]
<1>1. /\ worker[w] \in WorkerFields(worker[w].mutation)
      /\ n \in Feed /\ worker[w].stage \in 1..Len(Chain(n))
    BY DEF WorkersOK, WorkerOK
<1>2. Chain(n) \in Seq(Projectors)
    BY Zenon, <1>1, FeedOK
<1>3. CASE worker[w].stage = Len(Chain(n))
    BY <1>3, EndDispatchOK DEF NextProjector
<1>4. CASE worker[w].stage # Len(Chain(n))
  <2> DEFINE stage == worker[w].stage + 1
             q == [worker[w] EXCEPT !.at = "State", !.stage = stage,
                                    !.generation = 0, !.mutation = NoMutation]
  <2>1. /\ r \in WorkerFields(NoMutation) /\ r.mutation = NoMutation /\ r.message = n
        /\ r.stage = worker[w].stage + 1
    <3>1. stage \in Nat /\ r = q
        BY <1>1 DEF WorkerFields
    <3> HIDE DEF stage, r
    <3>2. /\ q \in WorkerFields(NoMutation) /\ q.mutation = NoMutation /\ q.message = n
          /\ q.stage = stage
        BY Zenon, <1>1, <3>1 DEF WorkerFields
    <3> QED
        BY Zenon, <3>1, <3>2 DEF stage
  <2>2. worker' = [worker EXCEPT ![w] = r]
      BY <1>4 DEF NextProjector
  <2>3. worker[w].stage + 1 \in 1..Len(Chain(n))
      BY <1>1, <1>2, <1>4
  <2> HIDE DEF r
  <2>4. WorkerOK(r)
      BY <1>1, <2>1, <2>3 DEF WorkerOK
  <2> QED
      BY Zenon, <2>2, <2>4, WorkerMoves
<1> QED
    BY <1>3, <1>4

\* Receiving starts with the first projector of the message.
LEMMA RecvOK ==
    ASSUME WorkersOK, NEW w \in Workers, NEW n \in Feed, Recv(w, n)
    PROVE  WorkersOK'
<1> DEFINE r == [worker[w] EXCEPT !.at = "State", !.message = n, !.stage = 1]
<1>1. worker[w] \in WorkerFields(worker[w].mutation)
    BY DEF WorkersOK, WorkerOK
<1>2. n \in Nat /\ 1 \in 1..Len(Chain(n))
  <2>1. Chain(n) \in Seq(Projectors) /\ Chain(n) # <<>>
      BY Zenon, FeedOK
  <2>2. 1 \in 1..Len(Chain(n))
      BY <2>1
  <2> QED
      BY <2>2 DEF Feed
<1>3. /\ r \in WorkerFields(worker[w].mutation) /\ r.mutation = worker[w].mutation
      /\ r.message = n /\ r.stage = 1
    BY Zenon, <1>1, <1>2 DEF WorkerFields
<1>4. worker' = [worker EXCEPT ![w] = r] /\ UNCHANGED feed
    BY Zenon DEF Recv
<1> HIDE DEF r
<1>5. WorkerOK(r)
    BY <1>2, <1>3 DEF WorkerOK
<1> QED
    BY Zenon, <1>4, <1>5, WorkerMoves

\* Starting, stopping and settling leave a worker with no message.
LEMMA RestOK ==
    ASSUME WorkersOK, NEW w \in Workers, Start(w) \/ Settle(w) \/ Crash(w)
    PROVE  WorkersOK'
<1>1. UNCHANGED feed
    BY DEF Start, Settle, Crash, source
<1>2. /\ worker[w] \in WorkerFields(worker[w].mutation)
      /\ Idle \in WorkerFields(NoMutation) /\ Idle.mutation = NoMutation /\ Idle.at = "Stopped"
    BY Zenon DEF WorkersOK, WorkerOK, Idle, WorkerFields
<1>3. CASE worker' = [worker EXCEPT ![w].at = "Recv"]
  <2> DEFINE r == [worker[w] EXCEPT !.at = "Recv"]
  <2>1. /\ r \in WorkerFields(worker[w].mutation) /\ r.mutation = worker[w].mutation
        /\ r.at = "Recv"
      BY <1>2 DEF WorkerFields
  <2>2. worker' = [worker EXCEPT ![w] = r]
      BY Zenon, <1>3
  <2> HIDE DEF r
  <2>3. WorkerOK(r)
      BY <2>1 DEF WorkerOK
  <2> QED
      BY Zenon, <1>1, <2>2, <2>3, WorkerMoves
<1>4. CASE \/ worker' = [worker EXCEPT ![w] = [Idle EXCEPT !.at = "Recv"]]
           \/ worker' = [worker EXCEPT ![w] = Idle]
  <2> DEFINE r == [Idle EXCEPT !.at = "Recv"]
  <2>1. r \in WorkerFields(NoMutation) /\ r.mutation = NoMutation /\ r.at = "Recv"
      BY <1>2 DEF WorkerFields
  <2> HIDE DEF r
  <2>2. WorkerOK(r)
      BY <2>1 DEF WorkerOK
  <2>3. WorkerOK(Idle)
      BY Zenon, <1>2 DEF WorkerOK
  <2>4. CASE worker' = [worker EXCEPT ![w] = r]
      BY Zenon, <1>1, <2>2, <2>4, WorkerMoves
  <2>5. CASE worker' = [worker EXCEPT ![w] = Idle]
      BY Zenon, <1>1, <2>3, <2>5, WorkerMoves
  <2> QED
      BY Zenon, <1>4, <2>4, <2>5 DEF r
<1>5. CASE worker' = [worker EXCEPT ![w] = [Idle EXCEPT !.at = "Recv", !.ahead = worker[w].message]]
  <2> DEFINE r == [Idle EXCEPT !.at = "Recv", !.ahead = worker[w].message]
  <2>1. worker[w].message \in Nat
      BY SMTT(60), <1>2 DEF WorkerFields
  <2>2. r \in WorkerFields(NoMutation) /\ r.mutation = NoMutation /\ r.at = "Recv"
      BY Zenon, <1>2, <2>1 DEF WorkerFields
  <2>3. worker' = [worker EXCEPT ![w] = r]
      BY <1>5
  <2> HIDE DEF r
  <2>4. WorkerOK(r)
      BY <2>2 DEF WorkerOK
  <2> QED
      BY Zenon, <1>1, <2>3, <2>4, WorkerMoves
<1>6. CASE Start(w)
    BY <1>3, <1>6 DEF Start
<1>7. CASE Settle(w)
    BY Zenon, <1>4, <1>5, <1>7 DEF Settle
<1>8. CASE Crash(w)
    BY <1>4, <1>8 DEF Crash
<1> QED
    BY <1>6, <1>7, <1>8

\* The preflight of a projector, and the handler.
LEMMA AdvanceOK ==
    ASSUME WorkersOK, StoreTypes, NEW w \in Workers, ReadState(w) \/ Handle(w)
    PROVE  WorkersOK'
<1>1. /\ UNCHANGED feed /\ worker[w].at \notin {"Stopped", "Recv", "Settle"}
      /\ worker[w] \in WorkerFields(worker[w].mutation)
      /\ worker[w].message \in Feed /\ worker[w].stage \in 1..Len(Chain(worker[w].message))
    BY DEF ReadState, Handle, source, WorkersOK, WorkerOK
<1>2. CASE EndDispatch(w, "Retain") \/ EndDispatch(w, "Retryable") \/ Goto(w, "Fail")
    BY Zenon, <1>1, <1>2, EndDispatchOK, GotoOK
<1>3. ASSUME NEW g \in Nat,
             worker' = [worker EXCEPT ![w] = [@ EXCEPT !.at = "Disposition", !.generation = g]]
      PROVE  WorkersOK'
  <2> DEFINE r == [worker[w] EXCEPT !.at = "Disposition", !.generation = g]
  <2>1. /\ r \in WorkerFields(worker[w].mutation) /\ r.mutation = worker[w].mutation
        /\ r.message = worker[w].message /\ r.stage = worker[w].stage
      BY Zenon, <1>1 DEF WorkerFields
  <2>2. worker' = [worker EXCEPT ![w] = r]
      BY Zenon, <1>3
  <2> HIDE DEF r
  <2>3. WorkerOK(r)
      BY Zenon, <1>1, <2>1 DEF WorkerOK
  <2> QED
      BY Zenon, <1>1, <2>2, <2>3, WorkerMoves
<1>4. ASSUME NEW m, worker' = [worker EXCEPT ![w] = [@ EXCEPT !.at = "Commit", !.mutation = m]]
      PROVE  WorkersOK'
  <2> DEFINE r == [worker[w] EXCEPT !.at = "Commit", !.mutation = m]
  <2>1. /\ r \in WorkerFields(m) /\ r.mutation = m
        /\ r.message = worker[w].message /\ r.stage = worker[w].stage
      BY Zenon, <1>1 DEF WorkerFields
  <2>2. worker' = [worker EXCEPT ![w] = r]
      BY Zenon, <1>4
  <2> HIDE DEF r
  <2>3. WorkerOK(r)
      BY Zenon, <1>1, <2>1 DEF WorkerOK
  <2> QED
      BY Zenon, <1>1, <2>2, <2>3, WorkerMoves
<1>5. CASE ReadState(w)
  <2>1. Trusted(Input(w)) /\ Input(w).projector = Current(w)
      BY ZenonT(60), <1>1, InputTrusted DEF Input
  <2>2. partition[Current(w)].generation \in Nat
    <3>1. partition[Current(w)].generation \in Generations
        BY Zenon, <2>1 DEF Trusted, StoreTypes, Partitions
    <3> QED
        BY <3>1 DEF Generations
  <2> QED
      BY Zenon, <1>2, <1>3, <1>5, <2>2 DEF ReadState
<1>6. CASE Handle(w)
    BY Zenon, <1>2, <1>4, <1>6 DEF Handle
<1> QED
    BY <1>5, <1>6

\* Every step of a worker leaves the workers as they should be.
LEMMA WorkKeepsWorkers ==
    ASSUME WorkersOK, StoreTypes, NEW w \in Workers, Work(w) \/ RetryableFault(w) \/ Crash(w)
    PROVE  WorkersOK'
<1>1. CASE CheckDisposition(w) \/ Commit(w) \/ RecordFailure(w) \/ RetryableFault(w)
  <2>1. UNCHANGED feed /\ worker[w].at \notin {"Stopped", "Recv", "Settle"}
      BY Zenon, <1>1 DEF CheckDisposition, Commit, RecordFailure, RetryableFault, source
  <2>2. \/ Goto(w, "Handle") \/ Goto(w, "Fail") \/ NextProjector(w)
        \/ EndDispatch(w, "Retryable") \/ EndDispatch(w, "Retain")
      BY Zenon, <1>1 DEF CheckDisposition, Commit, RecordFailure, RetryableFault
  <2> QED
      BY ZenonT(60), <2>1, <2>2, EndDispatchOK, GotoOK, NextProjectorOK
<1> QED
    BY <1>1, RecvOK, RestOK, AdvanceOK DEF Work

\* A step of a worker changes the store only by taking or failing an input that
\* has passed the checks.
LEMMA WorkOnStore ==
    ASSUME WorkersOK, NEW w \in Workers, Work(w) \/ RetryableFault(w) \/ Crash(w)
    PROVE  \/ UNCHANGED store
           \/ \E i : /\ Trusted(i) /\ Admitted(i)
                     /\ Stops(i) \/ \E m : Applies(i, m)
<1>1. CASE Commit(w)
  <2>1. worker[w].at = "Commit" /\ commit_projection(Input(w), worker[w].mutation)
      BY Zenon, <1>1 DEF Commit
  <2>2. Trusted(Input(w))
      BY Zenon, <2>1, InputTrusted
  <2>3. CASE CommitVerdict(Input(w), worker[w].mutation) = "Applied"
    <3>1. Applies(Input(w), worker[w].mutation)
        BY Zenon, <2>1, <2>3 DEF commit_projection
    <3>2. Admitted(Input(w))
        BY Zenon, <2>3, CommitAdmitted
    <3> QED
        BY Zenon, <2>2, <3>1, <3>2
  <2>4. CASE CommitVerdict(Input(w), worker[w].mutation) # "Applied"
      BY Zenon, <2>1, <2>4 DEF commit_projection
  <2> QED
      BY Zenon, <2>3, <2>4
<1>2. CASE RecordFailure(w)
  <2>1. worker[w].at = "Fail" /\ record_projection_failure(Input(w))
      BY Zenon, <1>2 DEF RecordFailure
  <2>2. Trusted(Input(w))
      BY Zenon, <2>1, InputTrusted
  <2>3. CASE FailureVerdict(Input(w)) = "Records"
    <3>1. Stops(Input(w))
        BY Zenon, <2>1, <2>3 DEF record_projection_failure
    <3>2. Admitted(Input(w))
        BY Zenon, <2>3, FailureAdmitted
    <3> QED
        BY Zenon, <2>2, <3>1, <3>2
  <2>4. CASE FailureVerdict(Input(w)) # "Records"
      BY Zenon, <2>1, <2>4 DEF record_projection_failure
  <2> QED
      BY Zenon, <2>3, <2>4
<1>3. CASE \/ Start(w) \/ (\E n \in Feed : Recv(w, n)) \/ ReadState(w)
           \/ CheckDisposition(w) \/ Handle(w) \/ Settle(w) \/ RetryableFault(w) \/ Crash(w)
    BY Zenon, <1>3 DEF Start, Recv, ReadState, CheckDisposition, Handle, Settle,
                       RetryableFault, Crash
<1> QED
    BY Zenon, <1>1, <1>2, <1>3 DEF Work

-----------------------------------------------------------------------------
(* The invariant.                                                          *)

\* The invariant holds of empty tables and stopped workers.
LEMMA InvInit == Init => Inv
<1> SUFFICES ASSUME Init PROVE Inv
    OBVIOUS
<1>1. WorkersOK
  <2>1. WorkerOK(Idle)
      BY SMTT(60) DEF WorkerOK, WorkerFields, Idle
  <2> QED
      BY <2>1 DEF Init, WorkersOK
<1>2. 1 \in Generations /\ NoFailure \in FailureRecords /\ NoCursor \in Cursors
    BY StoreAssumption, NoFailureOK DEF Generations, StoreAssumption
<1>3. \A t \in Projectors : /\ partition[t] = [generation |-> 1, head |-> 0, compacted |-> 0,
                                               stopped |-> NoFailure, pending |-> NoFailure]
                            /\ \A g \in Generations : cursors[t][g] = NoCursor
                            /\ applied[t] = <<>> /\ failures[t] = {}
    BY ZenonT(60) DEF Init, StoreInit
<1>4. StoreTypes
  <2>1. partition \in [Projectors -> Partitions]
      BY SMTT(60), <1>2 DEF Init, StoreInit, Partitions
  <2>2. cursors \in [Projectors -> [Generations -> Cursors]]
      BY SMTT(60), <1>2 DEF Init, StoreInit
  <2>3. identities \in [Projectors -> SUBSET Inputs] /\ failures \in [Projectors -> SUBSET FailureRecords]
      BY SMTT(60) DEF Init, StoreInit
  <2>4. applied \in [Projectors -> Seq(Inputs)]
      BY SMTT(60) DEF Init, StoreInit
  <2>5. \A t \in Projectors : \A f \in failures[t] : f.cursor.epoch > 0
      BY Zenon, <1>3
  <2> QED
      BY Zenon, <2>1, <2>2, <2>3, <2>4, <2>5 DEF StoreTypes
<1>5. StopEndsRetry /\ CursorIsLast
  <2>1. StopEndsRetry
      BY SMTT(60), <1>3 DEF StopEndsRetry
  <2>2. \A t \in Projectors : Active(t) = NoCursor
      BY SMTT(60), <1>2, <1>3 DEF Active
  <2> QED
      BY Zenon, <1>3, <2>1, <2>2 DEF CursorIsLast
<1>6. AppliedInOrder /\ AppliedIsKnown /\ FailureStands /\ FailureIsNotCrossed
  <2>1. \A t \in Projectors : 1..Len(applied[t]) = {}
      BY SMTT(60), <1>3
  <2>2. AppliedInOrder /\ AppliedIsKnown
      BY Zenon, <2>1 DEF AppliedInOrder, AppliedIsKnown
  <2> QED
      BY Zenon, <1>3, <2>1, <2>2 DEF FailureStands, FailureIsNotCrossed
<1> QED
    BY <1>1, <1>4, <1>5, <1>6 DEF Inv, StoreInv

\* Nothing of the store that the invariant speaks of has changed.
LEMMA StoreStands ==
    ASSUME StoreInv, UNCHANGED store
    PROVE  StoreInv'
<1>1. UNCHANGED <<partition, cursors, identities, failures, applied>>
    BY ZenonT(60) DEF store
<1>2. StoreTypes' /\ StopEndsRetry' /\ CursorIsLast'
    BY Zenon, <1>1 DEF StoreInv, StoreTypes, StopEndsRetry, CursorIsLast, Active
<1>3. AppliedInOrder' /\ AppliedIsKnown'
  <2>1. AppliedInOrder /\ AppliedIsKnown
      BY DEF StoreInv
  <2> QED
    <3>1. AppliedInOrder'
        BY SMTT(60), <1>1, <2>1 DEF AppliedInOrder
    <3>2. AppliedIsKnown'
        BY Zenon, <1>1, <2>1 DEF AppliedIsKnown
    <3> QED
        BY Zenon, <3>1, <3>2
<1>4. FailureStands' /\ FailureIsNotCrossed'
  <2>1. FailureStands /\ FailureIsNotCrossed
      BY Zenon DEF StoreInv
  <2>2. FailureStands'
      BY SMTT(60), <1>1, <2>1 DEF FailureStands, SameInput
  <2>3. FailureIsNotCrossed'
      BY ZenonT(60), <1>1, <2>1 DEF FailureIsNotCrossed, SameInput
  <2> QED
      BY Zenon, <2>2, <2>3
<1> QED
    BY <1>2, <1>3, <1>4 DEF StoreInv

\* Every step keeps the invariant.
LEMMA InvNext == Inv /\ [Next]_vars => Inv'
<1> SUFFICES ASSUME Inv, [Next]_vars PROVE Inv'
    OBVIOUS
<1>1. ASSUME NEW w \in Workers, Work(w) \/ RetryableFault(w) \/ Crash(w)
      PROVE  Inv'
  <2>1. WorkersOK'
      BY SMTT(60), <1>1, WorkKeepsWorkers DEF Inv, StoreInv
  <2>2. StoreInv'
    <3>1. CASE UNCHANGED store
        BY <3>1, StoreStands DEF Inv
    <3>2. CASE \E i : /\ Trusted(i) /\ Admitted(i)
                      /\ Stops(i) \/ \E m : Applies(i, m)
        BY <3>2, AppliesKeeps, StopsKeeps DEF Inv
    <3> QED
        BY SMTT(60), <1>1, <3>1, <3>2, WorkOnStore DEF Inv
  <2> QED
      BY <2>1, <2>2 DEF Inv
<1>2. ASSUME NEW t \in Projectors, Repair(t)
      PROVE  Inv'
  <2>1. repair_projection(t) /\ UNCHANGED <<feed, worker>>
      BY SMTT(60), <1>2 DEF Repair, source
  <2>2. WorkersOK'
      BY Zenon, <2>1 DEF Inv, WorkersOK, WorkerOK, Feed, Chain
  <2> QED
      BY <2>1, <2>2, RepairKeeps DEF Inv
<1>3. CASE UNCHANGED vars
  <2>1. UNCHANGED <<feed, worker>> /\ UNCHANGED store
      BY <1>3 DEF vars, source
  <2>2. WorkersOK'
      BY Zenon, <2>1 DEF Inv, WorkersOK, WorkerOK, Feed, Chain
  <2> QED
      BY <2>1, <2>2, StoreStands DEF Inv
<1> QED
    BY <1>1, <1>2, <1>3 DEF Next

\* The invariant holds in every reachable state.
LEMMA Invariance == Spec => []Inv
BY InvInit, InvNext, PTL DEF Spec

\* No projector applies a message twice, whatever the replicas, the redeliveries
\* and the repairs; of classify_validated_input and validate_input_identity.
THEOREM AppliedOnceHolds == Spec => []AppliedOnce
<1>1. Inv => AppliedOnce
  <2> SUFFICES ASSUME Inv, NEW t \in Projectors, NEW a \in 1..Len(applied[t]),
                      NEW b \in 1..Len(applied[t]), applied[t][a].message = applied[t][b].message
               PROVE  a = b
      BY DEF AppliedOnce
  <2>1. ~(a < b) /\ ~(b < a)
      BY SMTT(60) DEF Inv, StoreInv, AppliedInOrder
  <2>2. Len(applied[t]) \in Nat
    <3>1. applied[t] \in Seq(Inputs)
        BY Zenon DEF Inv, StoreInv, StoreTypes
    <3> QED
        BY <3>1
  <2> QED
      BY <2>1, <2>2
<1> QED
    BY <1>1, Invariance, PTL

\* Nothing is applied past a recorded failure before that failure's input is; of
\* record_projection_failure, repair_projection and ensure_pending_retry_input.
THEOREM FailureIsNotCrossedHolds == Spec => []FailureIsNotCrossed
<1>1. Inv => FailureIsNotCrossed
    BY DEF Inv, StoreInv
<1> QED
    BY <1>1, Invariance, PTL

-----------------------------------------------------------------------------
(* The contract.                                                           *)

\* Where a partition stands, as the contract has it.
HeldOf(p) ==
    IF p.stopped # NoFailure
    THEN [at |-> "Stopped", input |-> [cursor |-> p.stopped.cursor, message |-> p.stopped.message]]
    ELSE IF p.pending # NoFailure
    THEN [at |-> "Reopened", input |-> [cursor |-> p.pending.cursor, message |-> p.pending.message]]
    ELSE [at |-> "Free"]

\* Where each projector stands, and that it moves with its partition alone.
LEMMA HeldMoves ==
    /\ Held = [t \in Projectors |-> HeldOf(partition[t])]
    /\ \A t \in Projectors : \A h :
           /\ HeldOf(partition[t])' = h
           /\ \A u \in Projectors \ {t} : partition'[u] = partition[u]
           => Held' = [Held EXCEPT ![t] = h]
<1>1. Held = [t \in Projectors |-> HeldOf(partition[t])]
    BY Zenon DEF Held, HeldOf
<1>2. Held' = [t \in Projectors |-> HeldOf(partition'[t])]
    BY Zenon DEF Held, HeldOf
<1>3. ASSUME NEW t \in Projectors, NEW h, HeldOf(partition'[t]) = h,
             \A u \in Projectors \ {t} : partition'[u] = partition[u]
      PROVE  Held' = [Held EXCEPT ![t] = h]
    BY Zenon, <1>1, <1>2, <1>3
<1>4. \A t \in Projectors : HeldOf(partition[t])' = HeldOf(partition'[t])
    BY Zenon DEF HeldOf
<1> QED
    BY Zenon, <1>1, <1>3, <1>4

\* An input that has passed the checks is one the contract lets the projector take.
LEMMA AdmittedMay ==
    ASSUME StoreInv, NEW i, Trusted(i), Admitted(i)
    PROVE  Contract!May(i.projector, Identity(i))
<1> DEFINE t == i.projector
           p == partition[t]
<1>1. t \in Projectors /\ Later(t, Identity(i))
    BY Zenon, TrustedOK, NewIsLater DEF Admitted
<1>2. HeldOf(p) \in {Contract!Free, Contract!Reopened(Identity(i))}
  <2>1. CASE p.pending = NoFailure
      BY ZenonT(60), <2>1 DEF HeldOf, Contract!Free, Admitted
  <2>2. CASE p.pending # NoFailure
    <3>1. p.pending.cursor = i.cursor /\ p.pending.message = i.message
        BY Zenon, <2>2 DEF Admitted, AllowedByRetry, SameInput
    <3> QED
        BY Zenon, <2>2, <3>1 DEF HeldOf, Contract!Reopened, Admitted, Identity
  <2> QED
      BY ZenonT(60), <2>1, <2>2
<1>3. Held[t] = HeldOf(p)
    BY Zenon, <1>1, HeldMoves
<1>4. \A n \in 1..Len(applied[t]) : Contract!After(Identity(i), applied[t][n])
    BY Zenon, <1>1 DEF Later, Contract!After
<1> QED
    BY ZenonT(60), <1>2, <1>3, <1>4 DEF Contract!May

\* A commit takes the input.
LEMMA AppliesTakes ==
    ASSUME StoreInv, NEW i, Trusted(i), Admitted(i), NEW m, Applies(i, m)
    PROVE  Contract!Take(i.projector, Identity(i))
<1> DEFINE t == i.projector
<1>1. t \in Projectors /\ partition[t] \in Partitions /\ partition \in [Projectors -> Partitions]
    BY Zenon, TrustedOK DEF StoreInv, StoreTypes
<1>2. /\ partition'[t].stopped = NoFailure /\ partition'[t].pending = NoFailure
      /\ \A u \in Projectors \ {t} : partition'[u] = partition[u]
  <2>1. partition' = [partition EXCEPT ![t] =
                        [@ EXCEPT !.head = NextPosition(t), !.compacted = Watermark(t),
                                  !.pending = NoFailure]]
      BY DEF Applies
  <2>2. partition[t].stopped = NoFailure
      BY ZenonT(60) DEF Admitted
  <2> QED
      BY <1>1, <2>1, <2>2 DEF Partitions
<1>3. HeldOf(partition[t])' = Contract!Free
    BY Zenon, <1>2 DEF HeldOf, Contract!Free
<1>4. Held' = [Held EXCEPT ![t] = Contract!Free]
    BY Zenon, <1>1, <1>2, <1>3, HeldMoves
<1>5. applied' = [applied EXCEPT ![t] = Append(@, Identity(i))]
    BY SMTT(60) DEF Applies
<1> QED
    BY Zenon, <1>4, <1>5, AdmittedMay DEF Contract!Take

\* A failure put on record stops the projector at its input.
LEMMA StopsFails ==
    ASSUME StoreInv, NEW i, Trusted(i), Admitted(i), Stops(i)
    PROVE  Contract!Fail(i.projector, Identity(i))
<1> DEFINE t == i.projector
<1>1. t \in Projectors /\ partition[t] \in Partitions /\ partition \in [Projectors -> Partitions]
    BY Zenon, TrustedOK DEF StoreInv, StoreTypes
<1>2. /\ partition'[t].stopped = Failure(i)
      /\ \A u \in Projectors \ {t} : partition'[u] = partition[u]
  <2>1. partition' = [partition EXCEPT ![t] =
                        [@ EXCEPT !.head = NextPosition(t), !.compacted = Watermark(t),
                                  !.pending = NoFailure, !.stopped = Failure(i)]]
      BY DEF Stops
  <2> QED
      BY <1>1, <2>1 DEF Partitions
<1>3. /\ Failure(i).cursor = i.cursor /\ Failure(i).message = i.message
      /\ Failure(i) # NoFailure
    BY Zenon, TrustedOK DEF Failure, NoFailure
<1>4. HeldOf(partition[t])' = Contract!Stopped(Identity(i))
    BY Zenon, <1>2, <1>3 DEF HeldOf, Contract!Stopped, Identity
<1>5. Held' = [Held EXCEPT ![t] = Contract!Stopped(Identity(i))]
    BY Zenon, <1>1, <1>2, <1>4, HeldMoves
<1>6. UNCHANGED applied
    BY DEF Stops
<1> QED
    BY Zenon, <1>5, <1>6, AdmittedMay DEF Contract!Fail

\* A repair reopens the projector at the input that stopped it.
LEMMA RepairReopens ==
    ASSUME StoreInv, NEW t \in Projectors, repair_projection(t)
    PROVE  Contract!Reopen(t)
<1>1. /\ partition'[t].pending = partition[t].stopped /\ partition'[t].stopped = NoFailure
      /\ \A u \in Projectors \ {t} : partition'[u] = partition[u]
    BY Zenon, RepairMoves DEF StoreInv
<1>2. partition[t].stopped # NoFailure /\ UNCHANGED applied
    BY DEF repair_projection
<1>3. Held[t] = HeldOf(partition[t])
    BY Zenon, HeldMoves
<1> DEFINE x == [cursor |-> partition[t].stopped.cursor, message |-> partition[t].stopped.message]
<1>4. /\ Held[t].at = "Stopped"
      /\ HeldOf(partition[t])' = Contract!Reopened(Held[t].input)
  <2>1. Held[t] = [at |-> "Stopped", input |-> x]
      BY Zenon, <1>2, <1>3 DEF HeldOf
  <2>2. HeldOf(partition[t])' = [at |-> "Reopened", input |-> x]
      BY Zenon, <1>1, <1>2 DEF HeldOf
  <2> HIDE DEF x
  <2>3. Held[t].at = "Stopped" /\ Held[t].input = x
      BY SMTT(60), <2>1
  <2> QED
      BY Zenon, <2>2, <2>3 DEF Contract!Reopened
<1>5. Held' = [Held EXCEPT ![t] = Contract!Reopened(Held[t].input)]
    BY Zenon, <1>1, <1>4, HeldMoves
<1> QED
    BY Zenon, <1>2, <1>4, <1>5 DEF Contract!Reopen

\* A step that leaves the store alone is no step of the contract.
LEMMA StoreStutters ==
    ASSUME UNCHANGED store
    PROVE  UNCHANGED <<applied, Held>>
BY ZenonT(60) DEF store, Held

\* Empty tables are a fresh projector of the contract.
LEMMA ContractInit == Init => Contract!Init
<1> SUFFICES ASSUME Init PROVE Contract!Init
    OBVIOUS
<1>1. \A t \in Projectors : HeldOf(partition[t]) = Contract!Free
    BY ZenonT(60) DEF Init, StoreInit, HeldOf, Contract!Free
<1>2. Held = [t \in Projectors |-> Contract!Free]
    BY Zenon, <1>1, HeldMoves
<1>3. applied = [t \in Projectors |-> <<>>]
    BY Zenon DEF Init, StoreInit
<1> QED
    BY Zenon, <1>2, <1>3 DEF Contract!Init

\* Every step is a step of the contract, or a stutter.
LEMMA ContractNext == Inv /\ [Next]_vars => [Contract!Next]_<<applied, Held>>
<1> SUFFICES ASSUME Inv, [Next]_vars PROVE [Contract!Next]_<<applied, Held>>
    OBVIOUS
<1>1. ASSUME NEW w \in Workers, Work(w) \/ RetryableFault(w) \/ Crash(w)
      PROVE  [Contract!Next]_<<applied, Held>>
  <2>1. CASE UNCHANGED store
      BY <2>1, StoreStutters
  <2>2. ASSUME NEW i, Trusted(i), Admitted(i), Stops(i) \/ \E m : Applies(i, m)
        PROVE  Contract!Next
    <3>1. Contract!Take(i.projector, Identity(i)) \/ Contract!Fail(i.projector, Identity(i))
        BY Zenon, <2>2, AppliesTakes, StopsFails DEF Inv
    <3> QED
        BY Zenon, <2>2, <3>1, TrustedOK DEF Contract!Next
  <2> QED
      BY Zenon, <1>1, <2>1, <2>2, WorkOnStore DEF Inv
<1>2. ASSUME NEW t \in Projectors, Repair(t)
      PROVE  Contract!Next
  <2>1. Contract!Reopen(t)
      BY Zenon, <1>2, RepairReopens DEF Repair, Inv
  <2> QED
      BY Zenon, <2>1 DEF Contract!Next
<1>3. CASE UNCHANGED vars
  <2>1. UNCHANGED store
      BY <1>3 DEF vars
  <2> QED
      BY <2>1, StoreStutters
<1> QED
    BY SMTT(60), <1>1, <1>2, <1>3 DEF Next

\* The projector runtime over the projection store implements its contract: each
\* transaction that moves a projector takes the next input, stops at one, or reopens
\* at the one it stopped at, and no other step moves it.
THEOREM ProjectorImplementsContract == Spec => ImplementsContract
BY ContractInit, ContractNext, Invariance, PTL DEF Spec, ImplementsContract, Contract!Spec

-----------------------------------------------------------------------------
(* What the rows show.                                                     *)

Rows == Seq(Messages)
Revisions == [incarnation : Nat, revision : Nat]
Records == [incarnation : Nat, revision : Nat, tombstone : BOOLEAN]

RowTypes ==
    /\ rows \in [Projectors -> [Keys -> Rows]]
    /\ records \in [Projectors -> [Keys -> Records]]

\* Revision a does not come after revision b.
UpTo(a, b) ==
    \/ a.incarnation < b.incarnation
    \/ a.incarnation = b.incarnation /\ a.revision <= b.revision

\* A staged mutation m of the event e: it is what would be staged now, or the
\* record has moved on and will not come back.
Fresh(t, e, m) ==
    IF e.op = "Skip" THEN m = NoMutation
    ELSE /\ m.key = e.key /\ m.kind # "None" /\ m.row \in Rows /\ m.expected \in Revisions
         /\ UpTo(m.expected, Revision(records[t][e.key]))
         /\ m.expected = Revision(records[t][e.key]) =>
                m = Staged(t, e) /\ ~FailsClosed(t, e) /\ ~NotFound(t, e)

StagedIsFresh ==
    \A w \in Workers : worker[w].at = "Commit" =>
        \A t, e, m : /\ t = Current(w) /\ e = feed[worker[w].message] /\ m = worker[w].mutation
                     => Fresh(t, e, m)

RowInv == RowTypes /\ StagedIsFresh /\ NoLostUpdate

\* The input of a message.
Id(n) == [cursor |-> [epoch |-> feed[n].epoch, position |-> feed[n].position],
          message |-> feed[n].message]
-----------------------------------------------------------------------------
(* Replaying.                                                              *)

\* Every set of natural numbers that is not empty has a least element.
LEMMA Least ==
    ASSUME NEW S \in SUBSET Nat, S # {}
    PROVE  \E n \in S : \A m \in S : n <= m
<1> DEFINE R == OpToRel(<, Nat)
<1>1. IsWellFoundedOn(R, Nat)
    BY Zenon, NatLessThanWellFounded
<1>2. \A m, n \in Nat : m < n => <<m, n>> \in R
    BY DEF OpToRel
<1> HIDE DEF R
<1>3. PICK n \in S : \A m \in S : ~(<<m, n>> \in R)
    BY Zenon, <1>1, WFMin
<1>4. \A m \in S : ~(m < n)
    BY Zenon, <1>2, <1>3
<1>5. \A m \in S : n <= m
    BY <1>4
<1> QED
    BY Zenon, <1>5

Blank == [row |-> NoRow, record |-> NoRecord]

\* f tells what the first inputs, up to the n-th, make of the key k.
Replays(fd, s, k, n, f) ==
    f = [j \in 0..n |-> IF j = 0 THEN Blank ELSE Replay(f[j - 1], EventOf(fd, s[j]), k)]

\* There is such a function for every number of inputs.
LEMMA ReplayExists ==
    ASSUME NEW fd, NEW s, NEW k, NEW n \in Nat
    PROVE  \E f : Replays(fd, s, k, n, f)
<1> DEFINE Bad == {j \in Nat : ~ \E f : Replays(fd, s, k, j, f)}
<1>1. SUFFICES ASSUME Bad # {} PROVE FALSE
    BY Zenon
<1>2. PICK j \in Bad : \A i \in Bad : j <= i
    BY Zenon, <1>1, Least
<1>3. j \in Nat /\ ~ \E f : Replays(fd, s, k, j, f)
    BY Zenon
<1>4. CASE j = 0
  <2> DEFINE f == [i \in 0..0 |-> Blank]
  <2>1. f = [i \in 0..0 |-> IF i = 0 THEN Blank ELSE Replay(f[i - 1], EventOf(fd, s[i]), k)]
    <3>1. \A i \in 0..0 : i = 0
        OBVIOUS
    <3> QED
        BY Zenon, <3>1
  <2> QED
      BY Zenon, <1>3, <1>4, <2>1 DEF Replays
<1>5. CASE j # 0
  <2>1. j - 1 \in Nat /\ ~(j <= j - 1)
      BY <1>3, <1>5
  <2>2. j - 1 \notin Bad
      BY Zenon, <1>2, <2>1
  <2>3. PICK g : Replays(fd, s, k, j - 1, g)
      BY Zenon, <2>1, <2>2
  <2> DEFINE last == Replay(g[j - 1], EventOf(fd, s[j]), k)
             f == [i \in 0..j |-> IF i = j THEN last ELSE g[i]]
             h == [i \in 0..j |-> IF i = 0 THEN Blank ELSE Replay(f[i - 1], EventOf(fd, s[i]), k)]
  <2>4. ASSUME NEW i \in 0..j PROVE f[i] = h[i]
    <3>1. i \in 0..j /\ (i # j => i \in 0..(j - 1)) /\ (i # 0 => i - 1 \in 0..j /\ i - 1 # j /\ i - 1 \in 0..(j - 1))
        BY <1>3
    <3>2. CASE i = j
      <4>1. f[i] = last
          BY Zenon, <3>2
      <4>2. f[i - 1] = g[i - 1]
          BY Zenon, <1>5, <3>1, <3>2
      <4>3. h[i] = Replay(f[i - 1], EventOf(fd, s[i]), k)
          BY Zenon, <1>5, <3>2
      <4> QED
          BY Zenon, <3>2, <4>1, <4>2, <4>3
    <3>3. CASE i # j /\ i = 0
      <4>1. f[i] = g[i] /\ h[i] = Blank
          BY Zenon, <3>3
      <4>2. g[i] = Blank
          BY Zenon, <2>3, <3>1, <3>3 DEF Replays
      <4> QED
          BY Zenon, <4>1, <4>2
    <3>4. CASE i # j /\ i # 0
      <4>1. f[i] = g[i]
          BY Zenon, <3>4
      <4>2. g[i] = Replay(g[i - 1], EventOf(fd, s[i]), k)
          BY Zenon, <2>3, <3>1, <3>4 DEF Replays
      <4>3. f[i - 1] = g[i - 1]
          BY Zenon, <3>1, <3>4
      <4>4. h[i] = Replay(f[i - 1], EventOf(fd, s[i]), k)
          BY Zenon, <3>4
      <4> QED
          BY Zenon, <4>1, <4>2, <4>3, <4>4
    <3> QED
        BY Zenon, <3>2, <3>3, <3>4
  <2>5. f = h
      BY Zenon, <2>4
  <2>6. Replays(fd, s, k, j, f)
      BY Zenon, <2>5 DEF Replays
  <2> QED
      BY Zenon, <1>3, <2>6
<1> QED
    BY Zenon, <1>4, <1>5

\* Two of them agree as far as their inputs do.
LEMMA ReplaysAgree ==
    ASSUME NEW fd, NEW k, NEW n \in Nat, NEW s, NEW r, NEW f, NEW g,
           \A j \in 1..n : s[j] = r[j], Replays(fd, s, k, n, f), Replays(fd, r, k, n + 1, g)
    PROVE  f[n] = g[n]
<1> DEFINE Bad == {j \in 0..n : f[j] # g[j]}
<1>1. SUFFICES ASSUME Bad # {} PROVE FALSE
  <2>1. n \in 0..n
      OBVIOUS
  <2> QED
      BY Zenon, <2>1
<1>2. Bad \in SUBSET Nat
    BY SMTT(60)
<1>3. PICK j \in Bad : \A i \in Bad : j <= i
    BY Zenon, <1>1, <1>2, Least
<1>4. j \in 0..n /\ j \in 0..(n + 1) /\ f[j] # g[j]
    BY <1>3
<1>5. f[j] = IF j = 0 THEN Blank ELSE Replay(f[j - 1], EventOf(fd, s[j]), k)
    BY Zenon, <1>4 DEF Replays
<1>6. g[j] = IF j = 0 THEN Blank ELSE Replay(g[j - 1], EventOf(fd, r[j]), k)
    BY Zenon, <1>4 DEF Replays
<1>7. j # 0
    BY Zenon, <1>4, <1>5, <1>6
<1>8. j - 1 \in 0..n /\ ~(j <= j - 1) /\ j \in 1..n
    BY <1>4, <1>7
<1>9. f[j - 1] = g[j - 1]
    BY Zenon, <1>3, <1>8
<1> QED
    BY Zenon, <1>4, <1>5, <1>6, <1>7, <1>8, <1>9

\* What the definition in the model comes to.
LEMMA ReplayedIs ==
    ASSUME NEW fd, NEW s, NEW k, Len(s) \in Nat
    PROVE  \E f : Replays(fd, s, k, Len(s), f) /\ Replayed(fd, s, k) = f[Len(s)]
<1> DEFINE f == CHOOSE f : f = [j \in 0..Len(s) |->
                       IF j = 0 THEN Blank ELSE Replay(f[j - 1], EventOf(fd, s[j]), k)]
<1>1. Replayed(fd, s, k) = f[Len(s)]
    BY Zenon DEF Replayed, Blank
<1>2. \E g : g = [j \in 0..Len(s) |-> IF j = 0 THEN Blank ELSE Replay(g[j - 1], EventOf(fd, s[j]), k)]
  <2>1. PICK g : Replays(fd, s, k, Len(s), g)
      BY Zenon, ReplayExists
  <2>2. g = [j \in 0..Len(s) |-> IF j = 0 THEN Blank ELSE Replay(g[j - 1], EventOf(fd, s[j]), k)]
      BY Zenon, <2>1 DEF Replays
  <2> QED
      BY Zenon, <2>2
<1>3. f = [j \in 0..Len(s) |-> IF j = 0 THEN Blank ELSE Replay(f[j - 1], EventOf(fd, s[j]), k)]
    BY Zenon, <1>2
<1> QED
    BY Zenon, <1>1, <1>3 DEF Replays

\* Nothing makes nothing of a key.
LEMMA ReplayedNothing ==
    ASSUME NEW fd, NEW k
    PROVE  Replayed(fd, <<>>, k) = Blank
<1>1. Len(<<>>) = 0 /\ 0 \in 0..0 /\ 0 \in Nat
    OBVIOUS
<1>2. PICK f : Replays(fd, <<>>, k, 0, f) /\ Replayed(fd, <<>>, k) = f[0]
    BY Zenon, <1>1, ReplayedIs
<1>3. f[0] = Blank
    BY Zenon, <1>1, <1>2 DEF Replays
<1> QED
    BY Zenon, <1>2, <1>3

\* One more input makes one more step.
LEMMA ReplayedOneMore ==
    ASSUME NEW fd, NEW s \in Seq(Inputs), NEW x \in Inputs, NEW k
    PROVE  Replayed(fd, Append(s, x), k) = Replay(Replayed(fd, s, k), EventOf(fd, x), k)
<1> DEFINE n == Len(s)
           r == Append(s, x)
<1>1. /\ n \in Nat /\ Len(r) = n + 1 /\ Len(r) \in Nat /\ r[n + 1] = x
      /\ \A j \in 1..n : s[j] = r[j]
    BY SMTT(60)
<1> DEFINE m == n + 1
<1>2. n \in 0..n /\ m \in 0..m /\ m # 0 /\ m - 1 = n /\ m \in Nat
    BY <1>1
<1>3. PICK f : Replays(fd, s, k, n, f) /\ Replayed(fd, s, k) = f[n]
    BY Zenon, <1>1, ReplayedIs
<1>4. PICK g : Replays(fd, r, k, m, g) /\ Replayed(fd, r, k) = g[m]
    BY ZenonT(60), <1>1, ReplayedIs
<1> HIDE DEF n, r
<1>5. f[n] = g[n]
    BY SMTT(60), <1>1, <1>3, <1>4, ReplaysAgree
<1> HIDE DEF m
<1>6. g[m] = Replay(g[m - 1], EventOf(fd, r[m]), k)
    BY Zenon, <1>2, <1>4 DEF Replays
<1> QED
    BY Zenon, <1>1, <1>2, <1>3, <1>4, <1>5, <1>6 DEF r, m

-----------------------------------------------------------------------------
(* Snapshots.                                                              *)

\* An input of the feed is the input of one event.
LEMMA EventOfIs ==
    ASSUME WorkersOK, NEW n \in Feed
    PROVE  EventOf(feed, Id(n)) = feed[n] /\ feed[n].key \in Keys /\ feed[n].message \in Messages
<1>1. PICK s \in Sources : feed = s.feed
    BY Zenon DEF WorkersOK
<1>2. n \in 1..Len(s.feed) /\ Feed = 1..Len(s.feed)
    BY Zenon, <1>1 DEF Feed
<1>3. /\ feed[n].key \in Keys
      /\ \A a, b \in 1..Len(s.feed) :
            a < b /\ s.feed[a].epoch = s.feed[b].epoch => s.feed[a].position < s.feed[b].position
      /\ \A a \in 1..Len(s.feed) : s.feed[a].position \in Nat
    BY Zenon, <1>1, <1>2, RuntimeAssumption DEF RuntimeAssumption
<1> DEFINE Same(e) == /\ e.message = Id(n).message
                      /\ [epoch |-> e.epoch, position |-> e.position] = Id(n).cursor
<1>4. ASSUME NEW m \in Feed, Same(feed[m]) PROVE feed[m] = feed[n]
  <2>1. feed[m].epoch = feed[n].epoch /\ feed[m].position = feed[n].position
      BY SMTT(60), <1>4 DEF Id
  <2>2. m \in 1..Len(s.feed)
      BY Zenon, <1>2
  <2>3. feed[n].position \in Nat /\ (m < n \/ n < m => feed[n].position < feed[n].position)
      BY Zenon, <1>1, <1>2, <1>3, <2>1, <2>2
  <2>4. ~(m < n) /\ ~(n < m)
      BY <2>3
  <2>5. m = n
      BY <1>2, <2>2, <2>4
  <2> QED
      BY Zenon, <2>5
<1>5. Same(feed[n])
    BY Zenon DEF Id
<1>6. EventOf(feed, Id(n)) = CHOOSE e \in {feed[m] : m \in Feed} : Same(e)
    BY Zenon DEF EventOf, Feed
<1> HIDE DEF Same
<1>7. EventOf(feed, Id(n)) = feed[n]
    BY Zenon, <1>4, <1>5, <1>6
<1>8. Id(n) \in Inputs /\ Id(n).message = feed[n].message
    BY Zenon, FeedOK DEF Id
<1>9. feed[n].message \in Messages
    BY Zenon, <1>8 DEF Messages
<1> QED
    BY Zenon, <1>3, <1>7, <1>9

\* A record that takes a mutation is the one the mutation expects, and moves on
\* to a revision nobody can have read before.
LEMMA RecordMoves ==
    ASSUME NEW r \in Records, NEW m, RecordVerdict(r, m) = "Ok"
    PROVE  /\ m.expected = Revision(r) /\ next_record(r, m) \in Records
           /\ \A a \in Revisions : UpTo(a, Revision(r)) =>
                  UpTo(a, Revision(next_record(r, m))) /\ a # Revision(next_record(r, m))
<1> DEFINE q == next_record(r, m)
<1>1. m.expected = Revision(r) /\ (m.expected = Missing => r = NoRecord)
  <2>1. CASE m.expected = Missing
    <3>1. r = NoRecord
        BY Zenon, <2>1 DEF RecordVerdict
    <3> QED
        BY SMTT(60), <2>1, <3>1 DEF NoRecord, Missing, Revision
  <2>2. CASE m.expected # Missing
      BY Zenon, <2>2 DEF RecordVerdict
  <2> QED
      BY Zenon, <2>1, <2>2
<1>2. /\ r.incarnation \in Nat /\ r.revision \in Nat
      /\ Revision(r).incarnation = r.incarnation /\ Revision(r).revision = r.revision
    BY DEF Records, Revision
<1>3. /\ q \in Records
      /\ \/ q.incarnation = r.incarnation + 1
         \/ q.incarnation = r.incarnation /\ q.revision = r.revision + 1
  <2>1. CASE m.expected = Missing
    <3>1. q = [incarnation |-> 1, revision |-> 1, tombstone |-> FALSE] /\ r.incarnation = 0
        BY <1>1, <2>1 DEF next_record, NoRecord
    <3> QED
        BY <3>1 DEF Records
  <2>2. CASE m.expected # Missing /\ m.kind = "Recreate"
    <3>1. q = [incarnation |-> r.incarnation + 1, revision |-> 1, tombstone |-> FALSE]
        BY <2>2 DEF next_record
    <3> QED
        BY SMTT(60), <1>2, <3>1 DEF Records
  <2>3. CASE m.expected # Missing /\ m.kind # "Recreate"
    <3>1. q = [r EXCEPT !.revision = @ + 1, !.tombstone = m.kind = "Delete"]
        BY <2>3 DEF next_record
    <3>2. q = [incarnation |-> r.incarnation, revision |-> r.revision + 1,
               tombstone |-> m.kind = "Delete"]
        BY Zenon, <3>1 DEF Records
    <3>3. (m.kind = "Delete") \in BOOLEAN
        OBVIOUS
    <3> QED
        BY SMTT(60), <1>2, <3>2, <3>3 DEF Records
  <2> QED
      BY Zenon, <2>1, <2>2, <2>3
<1> HIDE DEF q
<1>4. /\ q.incarnation \in Nat /\ q.revision \in Nat
      /\ Revision(q).incarnation = q.incarnation /\ Revision(q).revision = q.revision
    BY <1>3 DEF Records, Revision
<1>5. ASSUME NEW a \in Revisions, UpTo(a, Revision(r))
      PROVE  UpTo(a, Revision(q)) /\ a # Revision(q)
  <2>1. a.incarnation \in Nat /\ a.revision \in Nat
      BY DEF Revisions
  <2>2. \/ a.incarnation < r.incarnation
        \/ a.incarnation = r.incarnation /\ a.revision <= r.revision
      BY Zenon, <1>2, <1>5 DEF UpTo
  <2>3. \/ a.incarnation < q.incarnation
        \/ a.incarnation = q.incarnation /\ a.revision < q.revision
      BY SMTT(60), <1>2, <1>3, <1>4, <2>1, <2>2
  <2>4. UpTo(a, Revision(q))
      BY <1>4, <2>1, <2>3 DEF UpTo
  <2>5. a.incarnation # q.incarnation \/ a.revision # q.revision
      BY <1>4, <2>1, <2>3
  <2> QED
      BY Zenon, <1>4, <2>4, <2>5
<1> QED
    BY Zenon, <1>1, <1>3, <1>5 DEF q

\* What a handler stages is what the event makes of the row it read.
LEMMA StagedReplays ==
    ASSUME NEW t, NEW e, e.op # "Skip", ~FailsClosed(t, e), ~NotFound(t, e)
    PROVE  LET m == Staged(t, e)
               v == [row |-> rows[t][e.key], record |-> records[t][e.key]]
           IN  Replay(v, e, e.key) = [row |-> m.row, record |-> next_record(v.record, m)]
<1> DEFINE r == records[t][e.key]
           row == rows[t][e.key]
           m == Staged(t, e)
           v == [row |-> row, record |-> r]
           written == IF row = NoRow THEN <<e.message>> ELSE Append(row, e.message)
           kind == IF r.tombstone THEN "Recreate" ELSE IF e.op = "Delete" THEN "Delete" ELSE "Upsert"
<1>1. v.row = row /\ v.record = r
    BY Zenon
<1>2. Replay(v, e, e.key) =
          [row |-> IF e.op = "Delete" THEN NoRow ELSE written,
           record |-> next_record(r, [kind |-> kind, expected |-> Revision(r)])]
    BY Zenon, <1>1 DEF Replay
<1>3. m.kind = kind /\ m.expected = Revision(r)
      /\ m.row = IF e.op = "Delete" THEN NoRow ELSE written
  <2>1. CASE r = NoRecord
    <3>1. e.op # "Delete" /\ ~r.tombstone /\ Revision(r) = Missing
        BY SMTT(60), <2>1 DEF NotFound, NoRecord, Revision, Missing
    <3>2. m = [key |-> e.key, kind |-> "Upsert", expected |-> Missing, row |-> written]
        BY Zenon, <2>1 DEF Staged
    <3>3. m.kind = "Upsert" /\ m.expected = Missing /\ m.row = written
      <4> HIDE DEF m, written
      <4> QED
          BY Zenon, <3>2
    <3>4. kind = "Upsert"
        BY Zenon, <3>1
    <3> HIDE DEF m, written, kind
    <3> QED
        BY Zenon, <3>1, <3>3, <3>4
  <2>2. CASE r # NoRecord /\ r.tombstone
    <3>1. e.op # "Delete"
        BY Zenon, <2>2 DEF FailsClosed
    <3>2. m = [key |-> e.key, kind |-> "Recreate", expected |-> Revision(r), row |-> written]
        BY Zenon, <2>2 DEF Staged
    <3>3. m.kind = "Recreate" /\ m.expected = Revision(r) /\ m.row = written
      <4> HIDE DEF m, written
      <4> QED
          BY Zenon, <3>2
    <3>4. kind = "Recreate"
        BY Zenon, <2>2
    <3> HIDE DEF m, written, kind
    <3> QED
        BY Zenon, <3>1, <3>3, <3>4
  <2>3. CASE r # NoRecord /\ ~r.tombstone
    <3>1. m = [key |-> e.key, kind |-> IF e.op = "Delete" THEN "Delete" ELSE "Upsert",
               expected |-> Revision(r), row |-> IF e.op = "Delete" THEN NoRow ELSE written]
        BY Zenon, <2>3 DEF Staged
    <3> DEFINE op == IF e.op = "Delete" THEN "Delete" ELSE "Upsert"
               after == IF e.op = "Delete" THEN NoRow ELSE written
    <3>2. m.kind = op /\ m.expected = Revision(r) /\ m.row = after
      <4> HIDE DEF m
      <4> QED
          BY Zenon, <3>1
    <3>3. kind = op
        BY Zenon, <2>3
    <3> HIDE DEF m, kind
    <3> QED
        BY Zenon, <3>2, <3>3
  <2> QED
      BY Zenon, <2>1, <2>2, <2>3
<1>4. next_record(r, m) = next_record(r, [kind |-> kind, expected |-> Revision(r)])
  <2> HIDE DEF m, kind, r
  <2> QED
      BY Zenon, <1>3 DEF next_record
<1> QED
    BY Zenon, <1>1, <1>2, <1>3, <1>4

\* What a handler stages is fresh.
LEMMA StagedFresh ==
    ASSUME RowTypes, NEW t \in Projectors, NEW e, e.key \in Keys, e.message \in Messages,
           ~FailsClosed(t, e), ~NotFound(t, e)
    PROVE  Fresh(t, e, Staged(t, e))
<1> DEFINE r == records[t][e.key]
           row == rows[t][e.key]
           m == Staged(t, e)
           written == IF row = NoRow THEN <<e.message>> ELSE Append(row, e.message)
<1>1. CASE e.op = "Skip"
    BY Zenon, <1>1 DEF Staged, Fresh
<1>2. CASE e.op # "Skip"
  <2>1. r \in Records /\ row \in Rows
      BY Zenon DEF RowTypes
  <2>2. written \in Rows /\ NoRow \in Rows
    <3>1. "none" \in Messages
        BY Zenon DEF Messages
    <3>2. \A x \in Messages : <<x>> \in Rows
        BY DEF Rows
    <3>3. Append(row, e.message) \in Rows
        BY SMTT(60), <2>1 DEF Rows
    <3> QED
        BY Zenon, <3>1, <3>2, <3>3 DEF NoRow
  <2>3. Revision(r) \in Revisions /\ UpTo(Revision(r), Revision(r))
    <3> HIDE DEF r
    <3> QED
        BY SMTT(60), <2>1 DEF Records, Revisions, Revision, UpTo
  <2>4. r = NoRecord => Revision(r) = Missing
      BY SMTT(60) DEF NoRecord, Revision, Missing
  <2>5. /\ m.key = e.key /\ m.kind # "None" /\ m.row \in Rows /\ m.expected = Revision(r)
    <3>1. CASE r = NoRecord
        BY Zenon, <1>2, <2>2, <2>4, <3>1 DEF Staged
    <3>2. CASE r # NoRecord
        BY Zenon, <1>2, <2>2, <3>2 DEF Staged
    <3> QED
        BY Zenon, <3>1, <3>2
  <2> HIDE DEF m
  <2>6. m = Staged(t, e)
      BY Zenon DEF m
  <2> QED
      BY Zenon, <1>2, <2>3, <2>5, <2>6 DEF Fresh
<1> QED
    BY Zenon, <1>1, <1>2

\* It stays fresh while its row stands,
LEMMA FreshStays ==
    ASSUME NEW t, NEW e, NEW m, Fresh(t, e, m),
           records'[t][e.key] = records[t][e.key], rows'[t][e.key] = rows[t][e.key]
    PROVE  Fresh(t, e, m)'
<1>1. Staged(t, e)' = Staged(t, e)
    BY Zenon DEF Staged
<1>2. FailsClosed(t, e)' = FailsClosed(t, e) /\ NotFound(t, e)' = NotFound(t, e)
    BY Zenon DEF FailsClosed, NotFound
<1> QED
    BY Zenon, <1>1, <1>2 DEF Fresh

\* and when its row is written, its revision is behind.
LEMMA FreshPassed ==
    ASSUME NEW t, NEW e, NEW m, Fresh(t, e, m), NEW b \in Records, NEW d,
           RecordVerdict(b, d) = "Ok",
           records[t][e.key] = b, records'[t][e.key] = next_record(b, d)
    PROVE  Fresh(t, e, m)'
<1>1. CASE e.op = "Skip"
    BY Zenon, <1>1 DEF Fresh
<1>2. CASE e.op # "Skip"
  <2>1. /\ m.key = e.key /\ m.kind # "None" /\ m.row \in Rows /\ m.expected \in Revisions
        /\ UpTo(m.expected, Revision(b))
      BY Zenon, <1>2 DEF Fresh
  <2>2. UpTo(m.expected, Revision(next_record(b, d))) /\ m.expected # Revision(next_record(b, d))
      BY Zenon, <2>1, RecordMoves
  <2> QED
      BY Zenon, <1>2, <2>1, <2>2 DEF Fresh
<1> QED
    BY Zenon, <1>1, <1>2

\* The input a worker hands to the store is that of its message.
LEMMA InputIs ==
    ASSUME WorkersOK, NEW w \in Workers, worker[w].at \notin {"Stopped", "Recv", "Settle"}
    PROVE  /\ worker[w].message \in Feed /\ worker[w].stage \in 1..Len(Chain(worker[w].message))
           /\ Input(w).projector = Current(w) /\ Current(w) \in Projectors
           /\ Identity(Input(w)) = Id(worker[w].message) /\ Id(worker[w].message) \in Inputs
<1>1. worker[w].message \in Feed /\ worker[w].stage \in 1..Len(Chain(worker[w].message))
    BY Zenon DEF WorkersOK, WorkerOK
<1>2. Input(w).projector = Current(w) /\ Identity(Input(w)) = Id(worker[w].message)
    BY Zenon DEF Input, Identity, Id
<1>3. Trusted(Input(w))
    BY Zenon, InputTrusted
<1> QED
    BY Zenon, <1>1, <1>2, <1>3 DEF Trusted

\* Where a step leaves its worker: before a commit only when its handler has just
\* staged a mutation.
LEMMA StageMoves ==
    ASSUME WorkersOK, NEW w \in Workers, Work(w) \/ RetryableFault(w) \/ Crash(w)
    PROVE  /\ UNCHANGED feed /\ \A y \in Workers : y # w => worker'[y] = worker[y]
           /\ worker'[w].at = "Commit" =>
                 LET t == Current(w)
                     e == feed[worker[w].message]
                 IN  /\ Handle(w) /\ ~FailsClosed(t, e) /\ ~NotFound(t, e)
                     /\ worker'[w].message = worker[w].message
                     /\ worker'[w].stage = worker[w].stage
                     /\ worker'[w].mutation = Staged(t, e)
<1>1. worker = [y \in Workers |-> worker[y]] /\ worker[w] \in WorkerFields(worker[w].mutation)
    BY Zenon DEF WorkersOK, WorkerOK
<1>2. ASSUME NEW r, worker' = [worker EXCEPT ![w] = r]
      PROVE  worker'[w] = r /\ \A y \in Workers : y # w => worker'[y] = worker[y]
    BY Zenon, <1>1, <1>2
<1>3. ASSUME NEW v, EndDispatch(w, v)
      PROVE  worker'[w].at = "Settle" /\ \A y \in Workers : y # w => worker'[y] = worker[y]
  <2> DEFINE r == [worker[w] EXCEPT !.at = "Settle", !.verdict = v,
                                    !.generation = 0, !.mutation = NoMutation]
  <2>1. worker' = [worker EXCEPT ![w] = r]
      BY Zenon, <1>3 DEF EndDispatch
  <2>2. r.at = "Settle"
      BY Zenon, <1>1 DEF WorkerFields
  <2> HIDE DEF r
  <2> QED
      BY Zenon, <1>2, <2>1, <2>2
<1>4. ASSUME NEW next, Goto(w, next)
      PROVE  worker'[w].at = next /\ \A y \in Workers : y # w => worker'[y] = worker[y]
  <2> DEFINE r == [worker[w] EXCEPT !.at = next]
  <2>1. worker' = [worker EXCEPT ![w] = r]
      BY Zenon, <1>4 DEF Goto
  <2>2. r.at = next
      BY Zenon, <1>1 DEF WorkerFields
  <2> HIDE DEF r
  <2> QED
      BY Zenon, <1>2, <2>1, <2>2
<1>5. ASSUME NextProjector(w)
      PROVE  worker'[w].at # "Commit" /\ \A y \in Workers : y # w => worker'[y] = worker[y]
  <2>1. CASE EndDispatch(w, "Ok")
      BY Zenon, <1>3, <2>1
  <2>2. CASE ~EndDispatch(w, "Ok")
    <3> DEFINE r == [worker[w] EXCEPT !.at = "State", !.stage = worker[w].stage + 1,
                                      !.generation = 0, !.mutation = NoMutation]
    <3>1. worker' = [worker EXCEPT ![w] = r]
        BY Zenon, <1>5, <2>2 DEF NextProjector
    <3>2. r.at = "State"
        BY Zenon, <1>1 DEF WorkerFields
    <3> HIDE DEF r
    <3> QED
        BY Zenon, <1>2, <3>1, <3>2
  <2> QED
      BY Zenon, <2>1, <2>2
<1>6. CASE Start(w)
  <2> DEFINE r == [worker[w] EXCEPT !.at = "Recv"]
  <2>1. worker' = [worker EXCEPT ![w] = r] /\ UNCHANGED feed
      BY Zenon, <1>6 DEF Start
  <2>2. r.at = "Recv"
      BY Zenon, <1>1 DEF WorkerFields
  <2> HIDE DEF r
  <2> QED
      BY Zenon, <1>2, <2>1, <2>2
<1>7. ASSUME NEW n \in Feed, Recv(w, n)
      PROVE  UNCHANGED feed /\ worker'[w].at = "State" /\ \A y \in Workers : y # w => worker'[y] = worker[y]
  <2> DEFINE r == [worker[w] EXCEPT !.at = "State", !.message = n, !.stage = 1]
  <2>1. worker' = [worker EXCEPT ![w] = r] /\ UNCHANGED feed
      BY Zenon, <1>7 DEF Recv
  <2>2. r.at = "State"
      BY Zenon, <1>1 DEF WorkerFields
  <2> HIDE DEF r
  <2> QED
      BY Zenon, <1>2, <2>1, <2>2
<1>8. CASE ReadState(w)
  <2> DEFINE g == partition[Current(w)].generation
             r == [worker[w] EXCEPT !.at = "Disposition", !.generation = g]
  <2>1. (EndDispatch(w, "Retain") \/ worker' = [worker EXCEPT ![w] = r]) /\ UNCHANGED feed
      BY Zenon, <1>8 DEF ReadState, source
  <2>2. r.at = "Disposition"
      BY Zenon, <1>1 DEF WorkerFields
  <2> HIDE DEF r
  <2> QED
      BY Zenon, <1>2, <1>3, <2>1, <2>2
<1>9. CASE CheckDisposition(w) \/ Commit(w) \/ RecordFailure(w) \/ RetryableFault(w)
  <2>1. UNCHANGED feed
      BY Zenon, <1>9 DEF CheckDisposition, Commit, RecordFailure, RetryableFault, source
  <2>2. \/ Goto(w, "Handle") \/ Goto(w, "Fail") \/ NextProjector(w)
        \/ EndDispatch(w, "Retryable") \/ EndDispatch(w, "Retain")
      BY Zenon, <1>9 DEF CheckDisposition, Commit, RecordFailure, RetryableFault
  <2>3. worker'[w].at # "Commit" /\ \A y \in Workers : y # w => worker'[y] = worker[y]
    <3>1. CASE Goto(w, "Handle")
        BY SMTT(60), <1>4, <3>1
    <3>2. CASE Goto(w, "Fail")
        BY SMTT(60), <1>4, <3>2
    <3>3. CASE NextProjector(w)
        BY Zenon, <1>5, <3>3
    <3>4. CASE EndDispatch(w, "Retryable") \/ EndDispatch(w, "Retain")
        BY Zenon, <1>3, <3>4
    <3> QED
        BY Zenon, <2>2, <3>1, <3>2, <3>3, <3>4
  <2> QED
      BY Zenon, <2>1, <2>3
<1>10. CASE Handle(w)
  <2> DEFINE t == Current(w)
             e == feed[worker[w].message]
             r == [worker[w] EXCEPT !.at = "Commit", !.mutation = Staged(t, e)]
  <2>1. UNCHANGED feed
      BY Zenon, <1>10 DEF Handle, source
  <2>2. \/ EndDispatch(w, "Retryable") \/ Goto(w, "Fail")
        \/ ~FailsClosed(t, e) /\ ~NotFound(t, e) /\ worker' = [worker EXCEPT ![w] = r]
      BY Zenon, <1>10 DEF Handle
  <2>3. /\ r.message = worker[w].message /\ r.stage = worker[w].stage
        /\ r.mutation = Staged(t, e)
      BY Zenon, <1>1 DEF WorkerFields
  <2> HIDE DEF r
  <2> QED
      BY ZenonT(60), <1>2, <1>3, <1>4, <1>10, <2>1, <2>2, <2>3
<1>11. CASE Settle(w) \/ Crash(w)
  <2>1. /\ UNCHANGED feed
        /\ \/ worker' = [worker EXCEPT ![w] = Idle]
           \/ \E n : worker' = [worker EXCEPT ![w] = [Idle EXCEPT !.at = "Recv", !.ahead = n]]
           \/ worker' = [worker EXCEPT ![w] = [Idle EXCEPT !.at = "Recv"]]
      BY Zenon, <1>11 DEF Settle, Crash, source
  <2>2. /\ Idle.at = "Stopped" /\ [Idle EXCEPT !.at = "Recv"].at = "Recv"
        /\ \A n : [Idle EXCEPT !.at = "Recv", !.ahead = n].at = "Recv"
      BY DEF Idle
  <2>3. CASE worker' = [worker EXCEPT ![w] = Idle]
      BY Zenon, <1>2, <2>1, <2>2, <2>3
  <2>4. CASE worker' = [worker EXCEPT ![w] = [Idle EXCEPT !.at = "Recv"]]
      BY Zenon, <1>2, <2>1, <2>2, <2>4
  <2>5. ASSUME NEW n, worker' = [worker EXCEPT ![w] = [Idle EXCEPT !.at = "Recv", !.ahead = n]]
        PROVE  /\ worker'[w].at # "Commit" /\ \A y \in Workers : y # w => worker'[y] = worker[y]
      BY Zenon, <1>2, <2>2, <2>5
  <2> QED
      BY Zenon, <2>1, <2>3, <2>4, <2>5
<1> QED
    BY Zenon, <1>6, <1>7, <1>8, <1>9, <1>10, <1>11 DEF Work

\* A commit that applies has found its input new.
LEMMA AdmittedIsNew ==
    ASSUME NEW i, Admitted(i)
    PROVE  Disposition(i) = "New"
<1>1. ensure_active_input(i) = "Ok"
    BY DEF Admitted, ensure_active_input
<1> QED
    BY SMTT(60), <1>1 DEF Admitted, Disposition

\* A commit that applies writes what the event makes of the row as it stands.
LEMMA CommitReplays ==
    ASSUME RowTypes, NEW i, NEW e, NEW m, i.projector \in Projectors, e.key \in Keys,
           Fresh(i.projector, e, m), CommitVerdict(i, m) = "Applied", Applies(i, m)
    PROVE  LET t == i.projector
           IN  /\ RowTypes'
               /\ \A k \in Keys :
                     Replay([row |-> rows[t][k], record |-> records[t][k]], e, k)
                     = [row |-> rows'[t][k], record |-> records'[t][k]]
               /\ \A k \in Keys :
                     \/ rows'[t][k] = rows[t][k] /\ records'[t][k] = records[t][k]
                     \/ \E d : /\ RecordVerdict(records[t][k], d) = "Ok"
                               /\ records'[t][k] = next_record(records[t][k], d)
               /\ \A u \in Projectors : u # t => rows'[u] = rows[u] /\ records'[u] = records[u]
<1> DEFINE t == i.projector
           key == e.key
           v(k) == [row |-> rows[t][k], record |-> records[t][k]]
<1>1. CASE e.op = "Skip"
  <2>1. m = NoMutation
      BY Zenon, <1>1 DEF Fresh
  <2>2. rows' = rows /\ records' = records
      BY Zenon, <2>1 DEF Applies
  <2>3. \A k \in Keys : Replay(v(k), e, k) = v(k)
      BY Zenon, <1>1 DEF Replay
  <2>4. RowTypes'
      BY Zenon, <2>2 DEF RowTypes
  <2> QED
      BY Zenon, <2>2, <2>3, <2>4
<1>2. CASE e.op # "Skip"
  <2>1. /\ m.key = key /\ m.kind # "None" /\ m.row \in Rows
        /\ m.expected = Revision(records[t][key]) =>
               m = Staged(t, e) /\ ~FailsClosed(t, e) /\ ~NotFound(t, e)
      BY Zenon, <1>2 DEF Fresh
  <2>2. m # NoMutation
    <3>1. NoMutation.kind = "None"
        BY Zenon DEF NoMutation
    <3> QED
        BY Zenon, <2>1, <3>1
  <2>3. MutationVerdict(i, m) = "Ok"
    <3>1. Disposition(i) = "New"
        BY Zenon, CommitAdmitted, AdmittedIsNew
    <3>2. RecordVerdict(records[t][key], m) # "Applied"
        BY Zenon DEF RecordVerdict
    <3>3. MutationVerdict(i, m) # "Applied"
        BY Zenon, <2>1, <3>2 DEF MutationVerdict
    <3> QED
        BY <2>2, <3>1, <3>3 DEF CommitVerdict
  <2>4. RecordVerdict(records[t][key], m) = "Ok"
      BY Zenon, <2>1, <2>3 DEF MutationVerdict
  <2>5. /\ rows \in [Projectors -> [Keys -> Rows]] /\ records \in [Projectors -> [Keys -> Records]]
        /\ records[t][key] \in Records
      BY Zenon DEF RowTypes
  <2>6. next_record(records[t][key], m) \in Records /\ m.expected = Revision(records[t][key])
      BY Zenon, <2>4, <2>5, RecordMoves
  <2>7. /\ rows' = [rows EXCEPT ![t][key] = m.row]
        /\ records' = [records EXCEPT ![t][key] = next_record(@, m)]
      BY Zenon, <2>1, <2>2 DEF Applies
  <2>8. /\ rows' \in [Projectors -> [Keys -> Rows]]
        /\ rows'[t][key] = m.row
        /\ \A k \in Keys : k # key => rows'[t][k] = rows[t][k]
        /\ \A u \in Projectors : u # t => rows'[u] = rows[u]
      BY Zenon, <2>1, <2>5, <2>7
  <2>9. /\ records' \in [Projectors -> [Keys -> Records]]
        /\ records'[t][key] = next_record(records[t][key], m)
        /\ \A k \in Keys : k # key => records'[t][k] = records[t][k]
        /\ \A u \in Projectors : u # t => records'[u] = records[u]
      BY Zenon, <2>5, <2>6, <2>7
  <2>10. ASSUME NEW k \in Keys
         PROVE  Replay(v(k), e, k) = [row |-> rows'[t][k], record |-> records'[t][k]]
    <3>1. CASE k = key
      <4>1. Replay(v(key), e, key) = [row |-> m.row, record |-> next_record(v(key).record, m)]
          BY Zenon, <1>2, <2>1, <2>6, StagedReplays
      <4>2. v(key).record = records[t][key]
          BY Zenon
      <4> QED
          BY Zenon, <2>8, <2>9, <3>1, <4>1, <4>2
    <3>2. CASE k # key
        BY Zenon, <2>8, <2>9, <3>2 DEF Replay
    <3> QED
        BY Zenon, <3>1, <3>2
  <2>11. RowTypes'
      BY Zenon, <2>8, <2>9 DEF RowTypes
  <2> QED
      BY Zenon, <2>4, <2>8, <2>9, <2>10, <2>11
<1> QED
    BY Zenon, <1>1, <1>2

\* Applying keeps what was staged by others fresh.
LEMMA FreshSurvives ==
    ASSUME RowTypes, NEW i, NEW e, NEW m, i.projector \in Projectors, e.key \in Keys,
           Fresh(i.projector, e, m), CommitVerdict(i, m) = "Applied", Applies(i, m)
    PROVE  \A u \in Projectors : \A d, q : d.key \in Keys /\ Fresh(u, d, q) => Fresh(u, d, q)'
<1> DEFINE t == i.projector
<1>1. \A k \in Keys :
          \/ rows'[t][k] = rows[t][k] /\ records'[t][k] = records[t][k]
          \/ \E c : /\ RecordVerdict(records[t][k], c) = "Ok"
                    /\ records'[t][k] = next_record(records[t][k], c)
    BY ZenonT(60), CommitReplays
<1>2. \A x \in Projectors : x # t => rows'[x] = rows[x] /\ records'[x] = records[x]
    BY ZenonT(60), CommitReplays
<1> SUFFICES ASSUME NEW u \in Projectors, NEW d, NEW q, d.key \in Keys, Fresh(u, d, q)
             PROVE  Fresh(u, d, q)'
    BY Zenon
<1>3. records[u][d.key] \in Records
    BY Zenon DEF RowTypes
<1>4. CASE rows'[u][d.key] = rows[u][d.key] /\ records'[u][d.key] = records[u][d.key]
    BY Zenon, <1>4, FreshStays
<1>5. CASE \E c : /\ RecordVerdict(records[u][d.key], c) = "Ok"
                  /\ records'[u][d.key] = next_record(records[u][d.key], c)
  <2>1. PICK c : /\ RecordVerdict(records[u][d.key], c) = "Ok"
                 /\ records'[u][d.key] = next_record(records[u][d.key], c)
      BY Zenon, <1>5
  <2> QED
      BY Zenon, <1>3, <2>1, FreshPassed
<1>6. \/ rows'[u][d.key] = rows[u][d.key] /\ records'[u][d.key] = records[u][d.key]
      \/ \E c : /\ RecordVerdict(records[u][d.key], c) = "Ok"
                /\ records'[u][d.key] = next_record(records[u][d.key], c)
  <2>1. CASE u = t
      BY Zenon, <1>1, <2>1
  <2>2. CASE u # t
      BY Zenon, <1>2, <2>2
  <2> QED
      BY Zenon, <2>1, <2>2
<1> QED
    BY Zenon, <1>4, <1>5, <1>6

\* A commit keeps the rows.
LEMMA CommitKeepsRows ==
    ASSUME Inv, RowInv, NEW w \in Workers, Commit(w)
    PROVE  /\ RowTypes' /\ NoLostUpdate'
           /\ \A u \in Projectors : \A d, q : d.key \in Keys /\ Fresh(u, d, q) => Fresh(u, d, q)'
<1> DEFINE i == Input(w)
           m == worker[w].mutation
           n == worker[w].message
           e == feed[n]
           t == i.projector
<1>1. /\ n \in Feed /\ t = Current(w) /\ t \in Projectors
      /\ Identity(i) = Id(n) /\ Id(n) \in Inputs /\ worker[w].at = "Commit"
  <2>1. worker[w].at = "Commit"
      BY Zenon DEF Commit
  <2>2. worker[w].at \notin {"Stopped", "Recv", "Settle"}
      BY <2>1
  <2> QED
      BY Zenon, <2>1, <2>2, InputIs DEF Inv
<1>2. EventOf(feed, Id(n)) = e /\ e.key \in Keys
    BY Zenon, <1>1, EventOfIs DEF Inv
<1>3. RowTypes /\ Fresh(t, e, m) /\ NoLostUpdate
    BY Zenon, <1>1 DEF RowInv, StagedIsFresh
<1>4. feed' = feed
    BY Zenon DEF Commit, source
<1>5. CASE CommitVerdict(i, m) = "Applied"
  <2>1. Applies(i, m)
      BY Zenon, <1>5 DEF Commit, commit_projection
  <2> HIDE DEF i, m, e
  <2>2. /\ RowTypes'
        /\ \A k \in Keys :
              Replay([row |-> rows[t][k], record |-> records[t][k]], e, k)
              = [row |-> rows'[t][k], record |-> records'[t][k]]
        /\ \A u \in Projectors : u # t => rows'[u] = rows[u] /\ records'[u] = records[u]
      BY ZenonT(60), <1>1, <1>2, <1>3, <1>5, <2>1, CommitReplays
  <2>3. /\ applied \in [Projectors -> Seq(Inputs)] /\ applied[t] \in Seq(Inputs)
        /\ applied' = [applied EXCEPT ![t] = Append(@, Id(n))]
      BY Zenon, <1>1, <2>1 DEF Applies, Inv, StoreInv, StoreTypes
  <2>4. /\ applied'[t] = Append(applied[t], Id(n))
        /\ \A u \in Projectors : u # t => applied'[u] = applied[u]
      BY Zenon, <1>1, <2>3
  <2>5. ASSUME NEW u \in Projectors, NEW k \in Keys
        PROVE  Replayed(feed, applied'[u], k) = [row |-> rows'[u][k], record |-> records'[u][k]]
    <3>1. Replayed(feed, applied[u], k) = [row |-> rows[u][k], record |-> records[u][k]]
        BY Zenon, <1>3 DEF NoLostUpdate
    <3>2. CASE u # t
        BY Zenon, <2>2, <2>4, <3>1, <3>2
    <3>3. CASE u = t
      <4>1. Replayed(feed, Append(applied[t], Id(n)), k)
            = Replay(Replayed(feed, applied[t], k), e, k)
          BY Zenon, <1>1, <1>2, <2>3, ReplayedOneMore
      <4> QED
          BY Zenon, <2>2, <2>4, <3>1, <3>3, <4>1
    <3> QED
        BY Zenon, <3>2, <3>3
  <2>6. NoLostUpdate'
      BY Zenon, <1>4, <2>5 DEF NoLostUpdate
  <2>7. \A u \in Projectors : \A d, q : d.key \in Keys /\ Fresh(u, d, q) => Fresh(u, d, q)'
      BY Zenon, <1>1, <1>2, <1>3, <1>5, <2>1, FreshSurvives
  <2> QED
      BY Zenon, <2>2, <2>6, <2>7
<1>6. CASE CommitVerdict(i, m) # "Applied"
  <2>1. rows' = rows /\ records' = records /\ applied' = applied
      BY Zenon, <1>6 DEF Commit, commit_projection, store
  <2>2. RowTypes' /\ NoLostUpdate'
      BY Zenon, <1>3, <1>4, <2>1 DEF RowTypes, NoLostUpdate
  <2>3. \A u \in Projectors : \A d, q : Fresh(u, d, q) => Fresh(u, d, q)'
      BY Zenon, <2>1, FreshStays
  <2> QED
      BY Zenon, <2>2, <2>3
<1> QED
    BY Zenon, <1>5, <1>6

\* Every other step leaves the rows alone.
LEMMA OthersKeepRows ==
    ASSUME NEW w \in Workers, Work(w) \/ RetryableFault(w) \/ Crash(w), ~Commit(w)
    PROVE  rows' = rows /\ records' = records /\ applied' = applied /\ feed' = feed
<1>1. CASE RecordFailure(w)
    BY Zenon, <1>1 DEF RecordFailure, record_projection_failure, Stops, store, source
<1>2. CASE Start(w) \/ Settle(w) \/ Crash(w) \/ RetryableFault(w)
    BY Zenon, <1>2 DEF Start, Settle, Crash, RetryableFault, store, source
<1>3. CASE ReadState(w) \/ CheckDisposition(w) \/ Handle(w)
    BY Zenon, <1>3 DEF ReadState, CheckDisposition, Handle, store, source
<1>4. CASE \E n \in Feed : Recv(w, n)
    BY Zenon, <1>4 DEF Recv, store, source
<1> QED
    BY Zenon, <1>1, <1>2, <1>3, <1>4 DEF Work

\* The invariant of the rows holds at first.
LEMMA RowInit == Init => RowInv
<1> SUFFICES ASSUME Init PROVE RowInv
    OBVIOUS
<1>1. /\ records = [t \in Projectors |-> [k \in Keys |-> NoRecord]]
      /\ rows = [t \in Projectors |-> [k \in Keys |-> NoRow]]
      /\ applied = [t \in Projectors |-> <<>>]
      /\ worker = [w \in Workers |-> Idle]
    BY Zenon DEF Init, StoreInit
<1>2. NoRow \in Rows /\ NoRecord \in Records
  <2>1. "none" \in Messages
      BY Zenon DEF Messages
  <2> QED
      BY <2>1 DEF Rows, Records, NoRow, NoRecord
<1>3. RowTypes
    BY Zenon, <1>1, <1>2 DEF RowTypes
<1>4. StagedIsFresh
  <2>1. Idle.at # "Commit"
      BY SMTT(60) DEF Idle
  <2> QED
      BY Zenon, <1>1, <2>1 DEF StagedIsFresh
<1>5. NoLostUpdate
  <2>1. \A k : Replayed(feed, <<>>, k) = [row |-> NoRow, record |-> NoRecord]
      BY Zenon, ReplayedNothing DEF Blank
  <2> QED
      BY Zenon, <1>1, <2>1 DEF NoLostUpdate
<1> QED
    BY Zenon, <1>3, <1>4, <1>5 DEF RowInv

\* No step breaks it.
LEMMA RowNext == Inv /\ RowInv /\ [Next]_vars => RowInv'
<1> SUFFICES ASSUME Inv, RowInv, [Next]_vars PROVE RowInv'
    OBVIOUS
<1>1. ASSUME NEW w \in Workers, Work(w) \/ RetryableFault(w) \/ Crash(w)
      PROVE  RowInv'
  <2>1. /\ RowTypes' /\ NoLostUpdate'
        /\ \A u \in Projectors : \A d, q : d.key \in Keys /\ Fresh(u, d, q) => Fresh(u, d, q)'
    <3>1. CASE Commit(w)
        BY Zenon, <3>1, CommitKeepsRows
    <3>2. CASE ~Commit(w)
      <4>1. rows' = rows /\ records' = records /\ applied' = applied /\ feed' = feed
          BY Zenon, <1>1, <3>2, OthersKeepRows
      <4>2. RowTypes' /\ NoLostUpdate'
          BY Zenon, <4>1 DEF RowInv, RowTypes, NoLostUpdate
      <4>3. \A u \in Projectors : \A d, q : Fresh(u, d, q) => Fresh(u, d, q)'
          BY Zenon, <4>1, FreshStays
      <4> QED
          BY Zenon, <4>2, <4>3
    <3> QED
        BY Zenon, <3>1, <3>2
  <2>2. /\ feed' = feed /\ \A y \in Workers : y # w => worker'[y] = worker[y]
        /\ worker'[w].at = "Commit" =>
              LET t == Current(w)
                  e == feed[worker[w].message]
              IN  /\ Handle(w) /\ ~FailsClosed(t, e) /\ ~NotFound(t, e)
                  /\ worker'[w].message = worker[w].message
                  /\ worker'[w].stage = worker[w].stage
                  /\ worker'[w].mutation = Staged(t, e)
      BY Zenon, <1>1, StageMoves DEF Inv
  <2>3. ASSUME NEW y \in Workers, NEW t, NEW e, NEW m, worker'[y].at = "Commit",
               t = Current(y)', e = feed'[worker'[y].message], m = worker'[y].mutation
        PROVE  Fresh(t, e, m)'
    <3>1. CASE y # w
      <4>1. worker'[y] = worker[y]
          BY Zenon, <2>2, <3>1
      <4>2. worker[y].at \notin {"Stopped", "Recv", "Settle"} /\ worker[y].at = "Commit"
          BY SMTT(60), <2>3, <4>1
      <4>3. t = Current(y) /\ e = feed[worker[y].message] /\ m = worker[y].mutation
          BY Zenon, <2>2, <2>3, <4>1 DEF Current, Chain
      <4>4. worker[y].message \in Feed /\ t \in Projectors
          BY Zenon, <4>2, <4>3, InputIs DEF Inv
      <4>5. e.key \in Keys
          BY Zenon, <4>3, <4>4, EventOfIs DEF Inv
      <4>6. Fresh(t, e, m)
          BY Zenon, <4>2, <4>3 DEF RowInv, StagedIsFresh
      <4> QED
          BY Zenon, <2>1, <4>4, <4>5, <4>6
    <3>2. CASE y = w
      <4>1. /\ Handle(w) /\ t = Current(w) /\ e = feed[worker[w].message]
            /\ m = Staged(t, e) /\ ~FailsClosed(t, e) /\ ~NotFound(t, e)
          BY Zenon, <2>2, <2>3, <3>2 DEF Current, Chain
      <4>2. worker[w].at \notin {"Stopped", "Recv", "Settle"}
          BY <4>1 DEF Handle
      <4>3. worker[w].message \in Feed /\ t \in Projectors
          BY Zenon, <4>1, <4>2, InputIs DEF Inv
      <4>4. e.key \in Keys /\ e.message \in Messages
          BY Zenon, <4>1, <4>3, EventOfIs DEF Inv
      <4>5. Fresh(t, e, m)
          BY Zenon, <4>1, <4>3, <4>4, StagedFresh DEF RowInv
      <4> QED
          BY Zenon, <2>1, <4>3, <4>4, <4>5
    <3> QED
        BY Zenon, <3>1, <3>2
  <2>4. StagedIsFresh'
      BY Zenon, <2>3 DEF StagedIsFresh
  <2> QED
      BY Zenon, <2>1, <2>4 DEF RowInv
<1>2. ASSUME UNCHANGED <<rows, records, applied, feed, worker>>
      PROVE  RowInv'
  <2>1. RowTypes' /\ NoLostUpdate'
      BY Zenon, <1>2 DEF RowInv, RowTypes, NoLostUpdate
  <2>2. \A t, e, m : Fresh(t, e, m) => Fresh(t, e, m)'
      BY Zenon, <1>2, FreshStays
  <2>3. StagedIsFresh'
      BY Zenon, <1>2, <2>2 DEF RowInv, StagedIsFresh, Current, Chain
  <2> QED
      BY Zenon, <2>1, <2>3 DEF RowInv
<1>3. CASE \E t \in Projectors : Repair(t)
    BY Zenon, <1>2, <1>3 DEF Repair, repair_projection, source
<1>4. CASE UNCHANGED vars
    BY Zenon, <1>2, <1>4 DEF vars, store, source
<1> QED
    BY Zenon, <1>1, <1>3, <1>4 DEF Next

\* A row is what the applied inputs make of it, and so is its revision: whatever
\* replicas read before others commit, commit_projection lets no handler
\* overwrite what it has not seen.
THEOREM NoUpdateIsLost == Spec => []NoLostUpdate
<1>1. Init => Inv /\ RowInv
    BY Zenon, InvInit, RowInit
<1>2. Inv /\ RowInv /\ [Next]_vars => (Inv /\ RowInv)'
    BY Zenon, InvNext, RowNext
<1>3. RowInv => NoLostUpdate
    BY Zenon DEF RowInv
<1> QED
    BY <1>1, <1>2, <1>3, PTL DEF Spec

-----------------------------------------------------------------------------
(* The ordered log: nothing is acknowledged that is not applied.           *)

\* Receipts tell what was applied.
ReceiptsOfApplied ==
    \A t \in Projectors : \A r \in receipts[t] : r.outcome = "applied" =>
        \E a \in 1..Len(applied[t]) : applied[t][a].message = r.message

ReceiptsOK == receipts = [t \in Projectors |-> receipts[t]] /\ ReceiptsOfApplied

\* Who has applied a message has applied all that come before it.
NothingPassedOver ==
    \A t \in Projectors : \A a \in 1..Len(applied[t]) :
        \E m \in Feed : /\ applied[t][a] = Id(m)
                        /\ \A n \in 1..(m - 1) : Projects(t, n) => Applied(t, n)

\* The first s projectors of a message have applied it.
Done(n, s) == \A t \in Projectors : (\E j \in 1..s : Chain(n)[j] = t) => Applied(t, n)

\* A worker is at most one message ahead of the group, and the projectors before
\* the one at work are done with its message.
LogWorkerOK(x) ==
    /\ x.ahead <= offset[Group]
    /\ x.at \notin {"Stopped", "Recv"} =>
           /\ x.message \in Feed /\ x.message <= offset[Group] + 1
           /\ x.at # "Settle" => Done(x.message, x.stage - 1)
           /\ x.at = "Settle" /\ x.verdict = "Ok" => Done(x.message, Len(Chain(x.message)))

LogWorkersOK == \A w \in Workers : \A x : x = worker[w] => LogWorkerOK(x)

Offsets == [Workers \cup {Group} -> Nat]

LogInv ==
    /\ offset \in Offsets
    /\ ReceiptsOK
    /\ delivery = "Log" =>
           /\ acked = {}
           /\ AcknowledgedIsApplied
           /\ NothingPassedOver
           /\ LogWorkersOK

\* What every step leaves as it is, or lets grow.
LogGrows ==
    /\ feed' = feed
    /\ offset[Group] \in Nat /\ offset'[Group] \in Nat /\ offset[Group] <= offset'[Group]
    /\ \A t \in Projectors, n \in Feed : Applied(t, n) => Applied(t, n)'

\* What has been applied stays applied.
LEMMA AppliedStays ==
    ASSUME Inv, NEW w \in Workers, Work(w) \/ RetryableFault(w) \/ Crash(w), feed' = feed
    PROVE  \A t \in Projectors, n \in Feed : Applied(t, n) => Applied(t, n)'
<1>1. applied \in [Projectors -> Seq(Inputs)]
    BY Zenon DEF Inv, StoreInv, StoreTypes
<1>2. CASE applied' = applied
    BY Zenon, <1>2 DEF Applied
<1>3. ASSUME NEW i, Trusted(i), NEW m, Applies(i, m),
             NEW t \in Projectors, NEW n \in Feed, Applied(t, n)
      PROVE  Applied(t, n)'
  <2>1. PICK a \in 1..Len(applied[t]) : applied[t][a].message = feed[n].message
      BY Zenon, <1>3 DEF Applied
  <2>2. /\ Len(applied'[i.projector]) = Len(applied[i.projector]) + 1
        /\ \A b \in 1..Len(applied[i.projector]) : applied'[i.projector][b] = applied[i.projector][b]
        /\ \A u \in Projectors \ {i.projector} : applied'[u] = applied[u]
      BY Zenon, <1>3, AppliedGrows DEF Inv, StoreInv
  <2>3. a \in 1..Len(applied'[t]) /\ applied'[t][a] = applied[t][a]
    <3>1. CASE t = i.projector
      <4>1. Len(applied[t]) \in Nat
          BY <1>1
      <4>2. a \in 1..(Len(applied[t]) + 1)
          BY SMTT(60), <2>1, <4>1
      <4> QED
          BY Zenon, <2>1, <2>2, <3>1, <4>2
    <3>2. CASE t # i.projector
        BY Zenon, <2>1, <2>2, <3>2
    <3> QED
        BY Zenon, <3>1, <3>2
  <2> QED
      BY Zenon, <2>1, <2>3 DEF Applied
<1>4. \/ applied' = applied
      \/ \E i : Trusted(i) /\ \E m : Applies(i, m)
  <2>1. \/ UNCHANGED store
        \/ \E i : Trusted(i) /\ (Stops(i) \/ \E m : Applies(i, m))
      BY Zenon, WorkOnStore DEF Inv
  <2>2. CASE UNCHANGED store
      BY Zenon, <2>2 DEF store
  <2>3. CASE \E i : Trusted(i) /\ (Stops(i) \/ \E m : Applies(i, m))
    <3>1. PICK i : Trusted(i) /\ (Stops(i) \/ \E m : Applies(i, m))
        BY Zenon, <2>3
    <3>2. Stops(i) => applied' = applied
        BY Zenon DEF Stops
    <3> QED
        BY Zenon, <3>1, <3>2
  <2> QED
      BY Zenon, <2>1, <2>2, <2>3
<1> QED
    BY Zenon, <1>2, <1>3, <1>4

\* Receipts keep telling what was applied, when an input is applied
LEMMA AppliesKeepsReceipts ==
    ASSUME StoreTypes, ReceiptsOK, NEW i, Trusted(i), NEW m, Applies(i, m)
    PROVE  ReceiptsOK'
<1> DEFINE t == i.projector
           n == Len(applied[t])
           new == [generation |-> i.generation, cursor |-> i.cursor,
                   message |-> i.message, outcome |-> "applied"]
<1>1. /\ t \in Projectors /\ n \in Nat
      /\ Len(applied'[t]) = n + 1 /\ applied'[t][n + 1] = Identity(i)
      /\ \A a \in 1..n : applied'[t][a] = applied[t][a]
      /\ \A u \in Projectors \ {t} : applied'[u] = applied[u]
  <2>1. t \in Projectors /\ applied[t] \in Seq(Inputs)
      BY Zenon, TrustedOK DEF StoreTypes
  <2>2. n \in Nat
      BY SMTT(60), <2>1
  <2> QED
      BY Zenon, <2>1, <2>2, AppliedGrows
<1>2. receipts' = [receipts EXCEPT ![t] = @ \cup {new}]
    BY Zenon DEF Applies
<1>3. /\ receipts' = [u \in Projectors |-> receipts'[u]]
      /\ receipts'[t] = receipts[t] \cup {new}
      /\ \A u \in Projectors \ {t} : receipts'[u] = receipts[u]
    BY Zenon, <1>1, <1>2 DEF ReceiptsOK
<1>4. n + 1 \in 1..(n + 1) /\ \A a \in 1..n : a \in 1..(n + 1)
    BY SMTT(60), <1>1
<1>5. ReceiptsOfApplied
    BY Zenon DEF ReceiptsOK
<1>6. ASSUME NEW u \in Projectors, NEW r \in receipts'[u], r.outcome = "applied"
      PROVE  \E a \in 1..Len(applied'[u]) : applied'[u][a].message = r.message
  <2>1. CASE u # t
    <3>1. receipts'[u] = receipts[u] /\ applied'[u] = applied[u]
        BY Zenon, <1>1, <1>3, <2>1
    <3>2. r \in receipts[u]
        BY Zenon, <1>6, <3>1
    <3>3. \E a \in 1..Len(applied[u]) : applied[u][a].message = r.message
        BY Zenon, <1>5, <1>6, <3>2 DEF ReceiptsOfApplied
    <3> QED
        BY Zenon, <3>1, <3>3
  <2>2. CASE u = t /\ r \in receipts[t]
    <3>1. PICK a \in 1..n : applied[t][a].message = r.message
        BY Zenon, <1>1, <1>5, <1>6, <2>2 DEF ReceiptsOfApplied
    <3> QED
        BY Zenon, <1>1, <1>4, <2>2, <3>1
  <2>3. CASE u = t /\ r = new
    <3>1. Identity(i).message = i.message /\ new.message = i.message
        BY Zenon DEF Identity
    <3> HIDE DEF new
    <3> QED
        BY Zenon, <1>1, <1>4, <2>3, <3>1
  <2> QED
      BY Zenon, <1>3, <1>6, <2>1, <2>2, <2>3
<1> QED
    BY Zenon, <1>3, <1>6 DEF ReceiptsOK, ReceiptsOfApplied

\* and when one is stopped at.
LEMMA StopsKeepsReceipts ==
    ASSUME ReceiptsOK, NEW i, Trusted(i), Stops(i)
    PROVE  ReceiptsOK'
<1> DEFINE t == i.projector
           new == [generation |-> i.generation, cursor |-> i.cursor,
                   message |-> i.message, outcome |-> "failed"]
<1>1. t \in Projectors /\ applied' = applied /\ receipts' = [receipts EXCEPT ![t] = @ \cup {new}]
    BY Zenon DEF Stops, Trusted
<1>2. /\ receipts' = [u \in Projectors |-> receipts'[u]]
      /\ receipts'[t] = receipts[t] \cup {new}
      /\ \A u \in Projectors \ {t} : receipts'[u] = receipts[u]
    BY Zenon, <1>1 DEF ReceiptsOK
<1>3. new.outcome # "applied"
    BY SMTT(60)
<1> HIDE DEF new
<1>4. \A u \in Projectors : \A r \in receipts'[u] : r.outcome = "applied" => r \in receipts[u]
    BY Zenon, <1>2, <1>3
<1>5. ReceiptsOfApplied
    BY Zenon DEF ReceiptsOK
<1>6. ReceiptsOfApplied'
    BY ZenonT(60), <1>1, <1>4, <1>5 DEF ReceiptsOfApplied
<1> QED
    BY Zenon, <1>2, <1>6 DEF ReceiptsOK

\* Every step of a worker keeps them.
LEMMA WorkKeepsReceipts ==
    ASSUME Inv, ReceiptsOK, NEW w \in Workers, Work(w) \/ RetryableFault(w) \/ Crash(w)
    PROVE  ReceiptsOK'
<1>1. \/ UNCHANGED store
      \/ \E i : Trusted(i) /\ (Stops(i) \/ \E m : Applies(i, m))
    BY Zenon, WorkOnStore DEF Inv
<1>2. CASE UNCHANGED store
    BY ZenonT(60), <1>2 DEF store, ReceiptsOK, ReceiptsOfApplied
<1>3. CASE \E i : Trusted(i) /\ (Stops(i) \/ \E m : Applies(i, m))
    BY Zenon, <1>3, StopsKeepsReceipts, AppliesKeepsReceipts DEF Inv, StoreInv
<1> QED
    BY Zenon, <1>1, <1>2, <1>3

\* A message is settled for good only when its dispatch went through.
LEMMA ForwardIsOk ==
    ASSUME NEW v \in {"Ok", "Retryable", "Retain"}, Settlement(v) \in Forward
    PROVE  v = "Ok"
<1>1. Settlement("Retain") = "NackAndStop"
    BY DEF Settlement
<1>2. resolve("Retryable") = "Nack"
    BY DEF resolve
<1>3. Settlement("Retryable") = "Nack"
    BY <1>2 DEF Settlement
<1> QED
    BY <1>1, <1>3 DEF Forward

\* Of two messages of an epoch the one with the lower position comes first.
LEMMA FeedOrder ==
    ASSUME WorkersOK, NEW n \in Feed, NEW m \in Feed,
           feed[n].epoch = feed[m].epoch, feed[n].position < feed[m].position
    PROVE  n \in 1..(m - 1)
<1>1. PICK s \in Sources : feed = s.feed
    BY Zenon DEF WorkersOK
<1>2. n \in 1..Len(s.feed) /\ m \in 1..Len(s.feed)
    BY Zenon, <1>1 DEF Feed
<1>3. /\ m < n => feed[m].position < feed[n].position
      /\ feed[n].position \in Nat /\ feed[m].position \in Nat
    BY Zenon, <1>1, <1>2, RuntimeAssumption DEF RuntimeAssumption
<1>4. ~(m < n) /\ m # n
    BY SMTT(60), <1>3
<1> QED
    BY SMTT(60), <1>2, <1>4

\* Over the log, an input that the store takes for known has been applied: its
\* receipt or its cursor says so, or the last input applied is past it.
LEMMA KnownIsApplied ==
    ASSUME Inv, ReceiptsOK, NothingPassedOver, NEW w \in Workers,
           worker[w].at \notin {"Stopped", "Recv", "Settle"},
           Disposition(Input(w)) \in {"Duplicate", "Stale"}
    PROVE  Applied(Current(w), worker[w].message)
<1> DEFINE i == Input(w)
           n == worker[w].message
           t == i.projector
           last == cursors[t][i.generation]
           top == Len(applied[t])
<1>1. /\ n \in Feed /\ t = Current(w) /\ t \in Projectors
      /\ Identity(i) = Id(n) /\ Id(n) \in Inputs
      /\ worker[w].stage \in 1..Len(Chain(n))
    BY Zenon, InputIs DEF Inv
<1>2. /\ i.message = feed[n].message /\ i.cursor = Id(n).cursor
      /\ i.cursor.epoch = feed[n].epoch /\ i.cursor.position = feed[n].position
  <2>1. i.message = Identity(i).message /\ i.cursor = Identity(i).cursor
      BY Zenon DEF Identity
  <2>2. /\ Id(n).message = feed[n].message
        /\ Id(n).cursor.epoch = feed[n].epoch /\ Id(n).cursor.position = feed[n].position
      BY Zenon DEF Id
  <2> QED
      BY Zenon, <1>1, <2>1, <2>2
<1>3. Projects(t, n)
    BY Zenon, <1>1 DEF Projects, Current
<1>4. /\ IdentityVerdict(i) = "Ok" /\ i.generation = partition[t].generation
      /\ classify_input(i) \in {"Duplicate", "Stale"}
  <2>1. IdentityVerdict(i) \in {"Ok", "InputCorruption", "MessageIdReuse"}
      BY SMTT(60) DEF IdentityVerdict
  <2>2. /\ ensure_active_input(i) \in {"Ok", "GenerationFenced", "PartitionStopped"}
        /\ ensure_active_input(i) = "Ok" => i.generation = partition[t].generation
      BY Zenon DEF ensure_active_input
  <2> HIDE DEF i, t
  <2>3. Disposition(i) \in {"Duplicate", "Stale"}
      BY Zenon DEF i
  <2> QED
      BY Zenon, <2>1, <2>2, <2>3 DEF Disposition
<1>5. applied[t] \in Seq(Inputs) /\ top \in Nat
  <2>1. applied[t] \in Seq(Inputs)
      BY Zenon, <1>1 DEF Inv, StoreInv, StoreTypes
  <2> QED
      BY SMTT(60), <2>1
<1>6. CASE Received(i, "applied")
  <2> DEFINE r == [generation |-> i.generation, cursor |-> i.cursor, message |-> i.message,
                   outcome |-> "applied"]
  <2>1. r \in receipts[t]
      BY Zenon, <1>6 DEF Received
  <2>2. r.outcome = "applied" /\ r.message = i.message
      BY Zenon
  <2> HIDE DEF r
  <2>3. ReceiptsOfApplied
      BY Zenon DEF ReceiptsOK
  <2>4. \E a \in 1..top : applied[t][a].message = r.message
      BY Zenon, <1>1, <2>1, <2>2, <2>3 DEF ReceiptsOfApplied
  <2> QED
      BY Zenon, <1>1, <1>2, <2>2, <2>4 DEF Applied
<1>7. CASE ~Received(i, "applied")
  <2>1. /\ last # NoCursor /\ last.epoch = i.cursor.epoch
        /\ i.cursor.position < last.position \/ i.cursor.position = last.position
    <3> HIDE DEF i
    <3> QED
        BY Zenon, <1>4, <1>7 DEF classify_input
  <2>2. last = applied[t][top].cursor /\ applied[t] # <<>>
      BY Zenon, <1>1, <1>4, <2>1 DEF Inv, StoreInv, CursorIsLast, Active
  <2>3. top \in 1..top
      BY SMTT(60), <1>5, <2>2
  <2>4. applied[t][top] \in identities[t]
      BY Zenon, <1>1, <2>3 DEF Inv, StoreInv, AppliedIsKnown
  <2>5. CASE i.cursor.position = last.position
    <3>1. last \in Cursors /\ i.cursor \in Cursors
      <4>1. applied[t][top] \in Inputs
          BY SMTT(60), <1>5, <2>3
      <4>2. applied[t][top].cursor \in Cursors /\ Id(n).cursor \in Cursors
          BY Zenon, <1>1, <4>1, InputOK
      <4> QED
          BY Zenon, <1>2, <2>2, <4>2
    <3>2. applied[t][top].cursor = i.cursor
      <4> HIDE DEF last, i, t, top
      <4>1. last = i.cursor
          BY SMTT(60), <2>1, <2>5, <3>1 DEF Cursors
      <4> QED
          BY Zenon, <2>2, <4>1
    <3>3. applied[t][top].message = i.message
      <4> HIDE DEF i, t, top
      <4> QED
          BY Zenon, <1>4, <2>4, <3>2 DEF IdentityVerdict, t
    <3> QED
        BY Zenon, <1>1, <1>2, <2>3, <3>3 DEF Applied
  <2>6. CASE i.cursor.position < last.position
    <3>1. PICK m \in Feed : /\ applied[t][top] = Id(m)
                            /\ \A j \in 1..(m - 1) : Projects(t, j) => Applied(t, j)
        BY Zenon, <1>1, <2>3 DEF NothingPassedOver
    <3>2. last.epoch = feed[m].epoch /\ last.position = feed[m].position
      <4>1. last = Id(m).cursor
          BY Zenon, <2>2, <3>1
      <4> HIDE DEF last
      <4> QED
          BY Zenon, <4>1 DEF Id
    <3>3. feed[n].epoch = feed[m].epoch /\ feed[n].position < feed[m].position
        BY Zenon, <1>2, <2>1, <2>6, <3>2
    <3>4. n \in 1..(m - 1)
        BY Zenon, <1>1, <3>3, FeedOrder DEF Inv
    <3> QED
        BY Zenon, <1>1, <1>3, <3>1, <3>4
  <2> QED
      BY Zenon, <2>1, <2>5, <2>6
<1> QED
    BY Zenon, <1>6, <1>7

\* Over the log, a commit passes over nothing: what comes before its message has
\* been acknowledged, and so applied.
LEMMA CommitPassesNothing ==
    ASSUME Inv, AcknowledgedIsApplied, NothingPassedOver, offset[Group] \in Nat,
           NEW w \in Workers, Commit(w), worker[w].message <= offset[Group] + 1
    PROVE  NothingPassedOver'
<1> DEFINE i == Input(w)
           m == worker[w].mutation
           n == worker[w].message
           t == i.projector
           top == Len(applied[t])
<1>1. n \in Feed /\ t \in Projectors /\ Identity(i) = Id(n) /\ Trusted(i)
    BY Zenon, InputIs, InputTrusted DEF Inv, Commit
<1>2. feed' = feed /\ Feed' = Feed /\ (\A j : Id(j)' = Id(j))
      /\ \A u, j : Projects(u, j)' = Projects(u, j)
    BY Zenon DEF Commit, source, Feed, Id, Projects, Chain
<1>3. \A u \in Projectors, j \in Feed : Applied(u, j) => Applied(u, j)'
    BY Zenon, <1>2, AppliedStays DEF Work
<1>4. \A j \in Feed : \A k \in 1..(j - 1) : k \in Feed
    BY SMTT(60) DEF Feed
<1>5. ASSUME NEW u \in Projectors, NEW x, NEW j \in Feed, x = Id(j),
             \A k \in 1..(j - 1) : Projects(u, k) => Applied(u, k)
      PROVE  \E k \in Feed' : /\ x = Id(k)'
                              /\ \A l \in 1..(k - 1) : Projects(u, l)' => Applied(u, l)'
    BY Zenon, <1>2, <1>3, <1>4, <1>5
<1>6. CASE applied' = applied
    BY ZenonT(60), <1>5, <1>6 DEF NothingPassedOver
<1>7. CASE Applies(i, m)
  <2>1. /\ Len(applied'[t]) = top + 1 /\ applied'[t][top + 1] = Id(n)
        /\ \A a \in 1..top : applied'[t][a] = applied[t][a]
        /\ \A u \in Projectors \ {t} : applied'[u] = applied[u]
      BY Zenon, <1>1, <1>7, AppliedGrows DEF Inv, StoreInv
  <2>2. top \in Nat
    <3>1. applied[t] \in Seq(Inputs)
        BY Zenon, <1>1 DEF Inv, StoreInv, StoreTypes
    <3> QED
        BY SMTT(60), <3>1
  <2>3. \A k \in 1..(n - 1) : k \in Feed /\ k <= offset[Group]
      BY SMTT(60), <1>1 DEF Feed
  <2>4. \A k \in 1..(n - 1) : Projects(t, k) => Applied(t, k)
      BY Zenon, <1>1, <2>3 DEF AcknowledgedIsApplied
  <2>5. ASSUME NEW u \in Projectors, NEW a \in 1..Len(applied'[u])
        PROVE  \E j \in Feed : /\ applied'[u][a] = Id(j)
                               /\ \A k \in 1..(j - 1) : Projects(u, k) => Applied(u, k)
    <3>1. CASE u # t
        BY ZenonT(60), <2>1, <2>5, <3>1 DEF NothingPassedOver
    <3>2. CASE u = t
      <4>1. a \in 1..top \/ a = top + 1
          BY SMTT(60), <2>1, <2>2, <3>2
      <4>2. CASE a \in 1..top
          BY ZenonT(60), <2>1, <3>2, <4>2 DEF NothingPassedOver
      <4>3. CASE a = top + 1
          BY Zenon, <1>1, <2>1, <2>4, <3>2, <4>3
      <4> QED
          BY Zenon, <4>1, <4>2, <4>3
    <3> QED
        BY Zenon, <3>1, <3>2
  <2>6. ASSUME NEW u \in Projectors, NEW a \in 1..Len(applied'[u])
        PROVE  \E k \in Feed' : /\ applied'[u][a] = Id(k)'
                                /\ \A l \in 1..(k - 1) : Projects(u, l)' => Applied(u, l)'
    <3>1. PICK j \in Feed : /\ applied'[u][a] = Id(j)
                            /\ \A k \in 1..(j - 1) : Projects(u, k) => Applied(u, k)
        BY Zenon, <2>5, <2>6
    <3> QED
        BY Zenon, <1>5, <3>1
  <2> QED
      BY Zenon, <2>6 DEF NothingPassedOver
<1>8. applied' = applied \/ Applies(i, m)
    BY Zenon DEF Commit, commit_projection, store
<1> QED
    BY Zenon, <1>6, <1>7, <1>8

\* Steps that apply nothing pass over nothing.
LEMMA PassedOverStays ==
    ASSUME NothingPassedOver, applied' = applied, feed' = feed
    PROVE  NothingPassedOver'
BY ZenonT(60) DEF NothingPassedOver, Feed, Id, Projects, Chain, Applied

\* What holds of a worker holds while the log and the tables grow.
LEMMA LogWorkerStays ==
    ASSUME LogGrows, NEW x, x.ahead \in Nat, x.message \in Nat, LogWorkerOK(x)
    PROVE  LogWorkerOK(x)'
<1>1. Feed' = Feed /\ \A n : Chain(n)' = Chain(n)
    BY Zenon DEF LogGrows, Feed, Chain
<1>2. \A n \in Feed : \A s : Done(n, s) => Done(n, s)'
    BY Zenon, <1>1 DEF LogGrows, Done
<1>3. x.ahead <= offset'[Group]
  <2>1. x.ahead <= offset[Group]
      BY Zenon DEF LogWorkerOK
  <2> QED
      BY SMTT(60), <2>1 DEF LogGrows
<1>4. x.message <= offset[Group] + 1 => x.message <= offset'[Group] + 1
    BY SMTT(60) DEF LogGrows
<1> QED
    BY Zenon, <1>1, <1>2, <1>3, <1>4 DEF LogWorkerOK

\* One more projector is done.
LEMMA DoneNext ==
    ASSUME NEW n, NEW s \in Nat \ {0}, Done(n, s - 1)', Applied(Chain(n)[s], n)'
    PROVE  Done(n, s)'
<1>1. \A j \in 1..s : j \in 1..(s - 1) \/ j = s
    OBVIOUS
<1> QED
    BY Zenon, <1>1 DEF Done

\* A worker that goes on with its message: to the next step of the dispatch, to
\* the end of it, or, when the projector is done, to the next projector.
LEMMA LogWorkerGoesOn ==
    ASSUME LogGrows, NEW x, NEW r, LogWorkerOK(x), x.at \notin {"Stopped", "Recv", "Settle"},
           x.ahead \in Nat, x.message \in Nat, x.stage \in Nat,
           r.ahead = x.ahead, r.message = x.message, r.at \notin {"Stopped", "Recv"},
           \/ r.at # "Settle" /\ r.stage = x.stage
           \/ r.at = "Settle" /\ r.verdict # "Ok"
           \/ /\ Done(x.message, x.stage)'
              /\ \/ r.at # "Settle" /\ r.stage = x.stage + 1
                 \/ r.at = "Settle" /\ x.stage = Len(Chain(x.message))
    PROVE  LogWorkerOK(r)'
<1>1. LogWorkerOK(x)'
    BY Zenon, LogWorkerStays
<1>2. /\ x.ahead <= offset'[Group] /\ x.message \in Feed' /\ x.message <= offset'[Group] + 1
      /\ Done(x.message, x.stage - 1)'
    BY Zenon, <1>1 DEF LogWorkerOK
<1>3. Chain(x.message)' = Chain(x.message)
    BY Zenon DEF LogGrows, Chain
<1>4. CASE r.at # "Settle" /\ r.stage = x.stage
    BY Zenon, <1>2, <1>4 DEF LogWorkerOK
<1>5. CASE r.at = "Settle" /\ r.verdict # "Ok"
    BY Zenon, <1>2, <1>5 DEF LogWorkerOK
<1>6. CASE Done(x.message, x.stage)' /\ r.at # "Settle" /\ r.stage = x.stage + 1
  <2>1. r.stage - 1 = x.stage
      BY SMTT(60), <1>6
  <2> QED
      BY Zenon, <1>2, <1>6, <2>1 DEF LogWorkerOK
<1>7. CASE Done(x.message, x.stage)' /\ r.at = "Settle" /\ x.stage = Len(Chain(x.message))
    BY Zenon, <1>2, <1>3, <1>7 DEF LogWorkerOK
<1> QED
    BY Zenon, <1>4, <1>5, <1>6, <1>7

\* What a step of a worker does to the source.
LEMMA SourceMoves ==
    ASSUME WorkersOK, offset \in Offsets, NEW w \in Workers, Work(w) \/ RetryableFault(w) \/ Crash(w)
    PROVE  /\ feed' = feed /\ delivery' = delivery /\ offset' \in Offsets
           /\ delivery = "Log" =>
                 /\ acked' = acked
                 /\ \/ offset' = offset
                    \/ /\ Settle(w) /\ Settlement(worker[w].verdict) \in Forward
                       /\ offset'[Group] = IF worker[w].message > offset[Group]
                                           THEN worker[w].message ELSE offset[Group]
<1>1. worker[w].message \in Nat
    BY Zenon DEF WorkersOK, WorkerOK, WorkerFields
<1>2. CASE /\ feed' = feed /\ delivery' = delivery /\ offset' = offset /\ acked' = acked
    BY Zenon, <1>2
<1>3. CASE Start(w)
  <2>1. feed' = feed /\ delivery' = delivery /\ acked' = acked
      BY Zenon, <1>3 DEF Start
  <2>2. CASE delivery = "Replay"
    <3>1. offset' = [offset EXCEPT ![w] = 0]
        BY Zenon, <1>3, <2>2 DEF Start
    <3>2. offset' \in Offsets
        BY <3>1 DEF Offsets
    <3>3. delivery # "Log"
        BY <2>2
    <3> QED
        BY Zenon, <2>1, <3>2, <3>3
  <2>3. CASE delivery # "Replay"
      BY Zenon, <1>3, <2>1, <2>3 DEF Start
  <2> QED
      BY Zenon, <2>2, <2>3
<1>4. CASE Settle(w)
  <2>1. feed' = feed /\ delivery' = delivery
      BY Zenon, <1>4 DEF Settle
  <2>2. CASE offset' = offset /\ acked' = acked
      BY Zenon, <2>1, <2>2
  <2>3. CASE Settlement(worker[w].verdict) \in Forward /\ Forwards(w)
    <3>1. CASE delivery = "Competing"
      <4>1. offset' = offset /\ delivery # "Log"
          BY Zenon, <2>3, <3>1 DEF Forwards
      <4> QED
          BY Zenon, <2>1, <4>1
    <3>2. CASE delivery # "Competing"
      <4> DEFINE o == OffsetOf(w)
                 new == IF worker[w].message > offset[o] THEN worker[w].message ELSE offset[o]
      <4>1. offset' = [offset EXCEPT ![o] = new] /\ acked' = acked
          BY Zenon, <2>3, <3>2 DEF Forwards
      <4>2. o \in Workers \cup {Group} /\ (delivery = "Log" => o = Group)
          BY DEF OffsetOf
      <4>3. new \in Nat
          BY Zenon, <1>1, <4>2 DEF Offsets
      <4>4. offset' \in Offsets /\ offset'[o] = new
        <5> HIDE DEF new, o
        <5> QED
            BY Zenon, <4>1, <4>2, <4>3 DEF Offsets
      <4> QED
          BY Zenon, <1>4, <2>1, <2>3, <4>1, <4>2, <4>4
    <3> QED
        BY Zenon, <3>1, <3>2
  <2> QED
      BY Zenon, <1>4, <2>2, <2>3 DEF Settle
<1>5. CASE RetryableFault(w) \/ Crash(w) \/ (\E n \in Feed : Recv(w, n))
    BY Zenon, <1>2, <1>5 DEF RetryableFault, Crash, Recv, source
<1>6. CASE ReadState(w) \/ CheckDisposition(w) \/ Handle(w)
    BY Zenon, <1>2, <1>6 DEF ReadState, CheckDisposition, Handle, source
<1>7. CASE Commit(w) \/ RecordFailure(w)
    BY Zenon, <1>2, <1>7 DEF Commit, RecordFailure, source
<1> QED
    BY Zenon, <1>3, <1>4, <1>5, <1>6, <1>7 DEF Work

\* Over the log, everything grows.
LEMMA LogOnlyGrows ==
    ASSUME Inv, offset \in Offsets, delivery = "Log",
           NEW w \in Workers, Work(w) \/ RetryableFault(w) \/ Crash(w)
    PROVE  LogGrows
<1>1. /\ feed' = feed /\ offset' \in Offsets
      /\ \/ offset' = offset
         \/ offset'[Group] = IF worker[w].message > offset[Group]
                             THEN worker[w].message ELSE offset[Group]
    BY Zenon, SourceMoves DEF Inv
<1>2. offset[Group] \in Nat /\ offset'[Group] \in Nat /\ worker[w].message \in Nat
    BY Zenon, <1>1 DEF Offsets, Inv, WorkersOK, WorkerOK, WorkerFields
<1>3. offset[Group] <= offset'[Group]
    BY SMTT(60), <1>1, <1>2
<1>4. \A t \in Projectors, n \in Feed : Applied(t, n) => Applied(t, n)'
    BY Zenon, <1>1, AppliedStays
<1> QED
    BY Zenon, <1>1, <1>2, <1>3, <1>4 DEF LogGrows

\* The steps of a dispatch.  It leaves a projector when that has applied the message.
Dispatches(w) ==
    \/ \E v : v # "Ok" /\ EndDispatch(w, v)
    \/ Goto(w, "Handle") \/ Goto(w, "Fail")
    \/ \E g : worker' = [worker EXCEPT ![w] = [@ EXCEPT !.at = "Disposition", !.generation = g]]
    \/ \E m : worker' = [worker EXCEPT ![w] = [@ EXCEPT !.at = "Commit", !.mutation = m]]
    \/ NextProjector(w) /\ \A t, n : t = Current(w) /\ n = worker[w].message => Applied(t, n)'

\* Where the steps of a dispatch leave a worker.
LEMMA LogDispatchMoves ==
    ASSUME WorkersOK, LogGrows, NEW w \in Workers, NEW x, x = worker[w], LogWorkerOK(x),
           x.at \notin {"Stopped", "Recv", "Settle"}, NEW z, z = worker'[w], Dispatches(w)
    PROVE  LogWorkerOK(z)'
<1>1. worker = [y \in Workers |-> worker[y]]
    BY Zenon DEF WorkersOK
<1>2. /\ x \in WorkerFields(x.mutation) /\ x.message \in Feed
      /\ x.stage \in 1..Len(Chain(x.message))
    BY Zenon DEF WorkersOK, WorkerOK
<1>3. x.ahead \in Nat /\ x.message \in Nat /\ x.stage \in Nat
    BY Zenon, <1>2 DEF WorkerFields
<1>4. ASSUME NEW r, worker' = [worker EXCEPT ![w] = r]
      PROVE  z = r
    BY Zenon, <1>1, <1>4
<1>5. ASSUME NEW v,
             worker' = [worker EXCEPT ![w] = [@ EXCEPT !.at = "Settle", !.verdict = v,
                                                       !.generation = 0, !.mutation = NoMutation]]
      PROVE  z.at = "Settle" /\ z.verdict = v /\ z.ahead = x.ahead /\ z.message = x.message
  <2> DEFINE r == [x EXCEPT !.at = "Settle", !.verdict = v,
                            !.generation = 0, !.mutation = NoMutation]
  <2>1. worker' = [worker EXCEPT ![w] = r]
      BY Zenon, <1>5
  <2>2. r.at = "Settle" /\ r.verdict = v /\ r.ahead = x.ahead /\ r.message = x.message
      BY Zenon, <1>2 DEF WorkerFields
  <2> HIDE DEF r
  <2> QED
      BY Zenon, <1>4, <2>1, <2>2
<1>6. ASSUME NEW at \in {"Disposition", "Handle", "Commit", "Fail"}, NEW r,
             worker' = [worker EXCEPT ![w] = r], r.at = at,
             r.ahead = x.ahead /\ r.message = x.message /\ r.stage = x.stage
      PROVE  LogWorkerOK(z)'
  <2>1. z.at \notin {"Stopped", "Recv"} /\ z.at # "Settle"
      BY SMTT(60), <1>4, <1>6
  <2>2. z.ahead = x.ahead /\ z.message = x.message /\ z.stage = x.stage
      BY Zenon, <1>4, <1>6
  <2> QED
      BY Zenon, <1>3, <2>1, <2>2, LogWorkerGoesOn
<1>7. CASE \E v : v # "Ok" /\ EndDispatch(w, v)
  <2>1. z.at = "Settle" /\ z.verdict # "Ok" /\ z.ahead = x.ahead /\ z.message = x.message
      BY Zenon, <1>5, <1>7 DEF EndDispatch
  <2>2. z.at \notin {"Stopped", "Recv"}
      BY Zenon, <2>1
  <2> QED
      BY Zenon, <1>3, <2>1, <2>2, LogWorkerGoesOn
<1>8. ASSUME NEW next \in {"Handle", "Fail"}, Goto(w, next)
      PROVE  LogWorkerOK(z)'
  <2> DEFINE r == [x EXCEPT !.at = next]
  <2>1. worker' = [worker EXCEPT ![w] = r]
      BY Zenon, <1>8 DEF Goto
  <2>2. /\ r.at = next /\ r.ahead = x.ahead /\ r.message = x.message /\ r.stage = x.stage
      BY Zenon, <1>2 DEF WorkerFields
  <2> HIDE DEF r
  <2> QED
      BY Zenon, <1>6, <2>1, <2>2
<1>9. ASSUME NEW g,
             worker' = [worker EXCEPT ![w] = [@ EXCEPT !.at = "Disposition", !.generation = g]]
      PROVE  LogWorkerOK(z)'
  <2> DEFINE r == [x EXCEPT !.at = "Disposition", !.generation = g]
  <2>1. worker' = [worker EXCEPT ![w] = r]
      BY Zenon, <1>9
  <2>2. r.at = "Disposition" /\ r.ahead = x.ahead /\ r.message = x.message /\ r.stage = x.stage
      BY Zenon, <1>2 DEF WorkerFields
  <2> HIDE DEF r
  <2> QED
      BY Zenon, <1>6, <2>1, <2>2
<1>10. ASSUME NEW m, worker' = [worker EXCEPT ![w] = [@ EXCEPT !.at = "Commit", !.mutation = m]]
       PROVE  LogWorkerOK(z)'
  <2> DEFINE r == [x EXCEPT !.at = "Commit", !.mutation = m]
  <2>1. worker' = [worker EXCEPT ![w] = r]
      BY Zenon, <1>10
  <2>2. r.at = "Commit" /\ r.ahead = x.ahead /\ r.message = x.message /\ r.stage = x.stage
      BY Zenon, <1>2 DEF WorkerFields
  <2> HIDE DEF r
  <2> QED
      BY Zenon, <1>6, <2>1, <2>2
<1>11. CASE /\ NextProjector(w)
            /\ \A t, n : t = Current(w) /\ n = worker[w].message => Applied(t, n)'
  <2> DEFINE stage == x.stage + 1
             r == [x EXCEPT !.at = "State", !.stage = stage,
                            !.generation = 0, !.mutation = NoMutation]
  <2>1. PICK n : n = x.message
      BY SMTT(60)
  <2>2. Chain(n)' = Chain(n) /\ x.stage \in Nat \ {0}
    <3>1. Chain(x.message) \in Seq(Projectors)
        BY Zenon, <1>2, FeedOK
    <3>2. x.stage \in Nat \ {0}
        BY SMTT(60), <1>2, <3>1
    <3> QED
        BY Zenon, <3>2 DEF LogGrows, Chain
  <2>3. Done(n, x.stage)'
    <3>1. PICK t : t = Chain(n)[x.stage]
        BY Zenon
    <3>2. Applied(t, n)' /\ t = (Chain(n)')[x.stage]
        BY Zenon, <1>11, <2>1, <2>2, <3>1 DEF Current
    <3>3. LogWorkerOK(x)'
        BY Zenon, <1>3, LogWorkerStays
    <3>4. Done(n, x.stage - 1)'
        BY Zenon, <2>1, <3>3 DEF LogWorkerOK
    <3> QED
        BY Zenon, <2>2, <3>2, <3>4, DoneNext
  <2>4. CASE x.stage = Len(Chain(n))
    <3>1. EndDispatch(w, "Ok")
        BY Zenon, <1>11, <2>1, <2>4 DEF NextProjector
    <3>2. z.at = "Settle" /\ z.ahead = x.ahead /\ z.message = x.message
        BY Zenon, <1>5, <3>1 DEF EndDispatch
    <3>3. z.at \notin {"Stopped", "Recv"}
        BY Zenon, <3>2
    <3> QED
        BY Zenon, <1>3, <2>1, <2>3, <2>4, <3>2, <3>3, LogWorkerGoesOn
  <2>5. CASE x.stage # Len(Chain(n))
    <3>1. worker' = [worker EXCEPT ![w] = r]
        BY Zenon, <1>11, <2>1, <2>5 DEF NextProjector
    <3>2. r.at = "State" /\ r.ahead = x.ahead /\ r.message = x.message /\ r.stage = stage
        BY Zenon, <1>2 DEF WorkerFields
    <3> HIDE DEF r
    <3>3. z.at = "State" /\ z.ahead = x.ahead /\ z.message = x.message /\ z.stage = stage
        BY Zenon, <1>4, <3>1, <3>2
    <3>4. z.at \notin {"Stopped", "Recv"} /\ z.at # "Settle"
        BY Zenon, <3>3
    <3> QED
        BY Zenon, <1>3, <2>1, <2>3, <3>3, <3>4, LogWorkerGoesOn
  <2> QED
      BY Zenon, <2>4, <2>5
<1> QED
    BY Zenon, <1>7, <1>8, <1>9, <1>10, <1>11 DEF Dispatches

\* Where a step leaves its worker.
LEMMA LogWorkerMoves ==
    ASSUME Inv, LogInv, delivery = "Log", LogGrows,
           NEW w \in Workers, Work(w) \/ RetryableFault(w) \/ Crash(w), NEW z, z = worker'[w]
    PROVE  LogWorkerOK(z)'
<1>1. PICK x : x = worker[w]
    BY Zenon
<1>2. worker = [y \in Workers |-> worker[y]]
    BY Zenon DEF Inv, WorkersOK
<1>3. WorkerOK(x)
    BY Zenon, <1>1 DEF Inv, WorkersOK
<1>4. LogWorkerOK(x) /\ NothingPassedOver /\ ReceiptsOK /\ acked = {} /\ offset \in Offsets
    BY Zenon, <1>1 DEF LogInv, LogWorkersOK
<1>5. /\ x \in WorkerFields(x.mutation) /\ x.ahead \in Nat /\ x.message \in Nat
      /\ x.verdict \in {"Ok", "Retryable", "Retain"}
    BY Zenon, <1>3 DEF WorkerOK, WorkerFields
<1>6. /\ offset[Group] \in Nat /\ offset'[Group] \in Nat /\ offset[Group] <= offset'[Group]
      /\ x.ahead <= offset[Group]
    BY Zenon, <1>4 DEF LogGrows, LogWorkerOK
<1>7. ASSUME NEW r, worker' = [worker EXCEPT ![w] = r]
      PROVE  z = r
    BY Zenon, <1>2, <1>7
<1>8. ASSUME z.at \in {"Stopped", "Recv"}, z.ahead <= offset'[Group]
      PROVE  LogWorkerOK(z)'
    BY Zenon, <1>8 DEF LogWorkerOK
<1>9. CASE Start(w)
  <2> DEFINE r == [x EXCEPT !.at = "Recv"]
  <2>1. worker' = [worker EXCEPT ![w] = r]
      BY Zenon, <1>1, <1>9 DEF Start
  <2>2. r.at = "Recv" /\ r.ahead = x.ahead
      BY Zenon, <1>5 DEF WorkerFields
  <2> HIDE DEF r
  <2>3. z.at = "Recv" /\ z.ahead = x.ahead
      BY Zenon, <1>7, <2>1, <2>2
  <2>4. z.at \in {"Stopped", "Recv"} /\ z.ahead <= offset'[Group]
      BY SMTT(60), <1>5, <1>6, <2>3
  <2> QED
      BY Zenon, <1>8, <2>4
<1>10. ASSUME NEW n \in Feed, Recv(w, n)
       PROVE  LogWorkerOK(z)'
  <2> DEFINE r == [x EXCEPT !.at = "State", !.message = n, !.stage = 1]
  <2>1. worker' = [worker EXCEPT ![w] = r] /\ n \in Deliverable(w)
      BY Zenon, <1>1, <1>10 DEF Recv
  <2>2. r.at = "State" /\ r.message = n /\ r.stage = 1 /\ r.ahead = x.ahead
      BY Zenon, <1>5 DEF WorkerFields
  <2> HIDE DEF r
  <2>3. z.at = "State" /\ z.message = n /\ z.stage = 1 /\ z.ahead = x.ahead
      BY Zenon, <1>7, <2>1, <2>2
  <2>4. n = offset[Group] + 1 \/ n = x.ahead + 1
    <3>1. delivery # "Competing" /\ OffsetOf(w) = Group
        BY DEF OffsetOf
    <3> QED
        BY Zenon, <1>1, <2>1, <3>1 DEF Deliverable
  <2>5. z.ahead <= offset'[Group] /\ n <= offset'[Group] + 1
      BY SMTT(60), <1>5, <1>6, <2>3, <2>4
  <2>6. n \in Feed'
      BY Zenon DEF LogGrows, Feed
  <2>7. Done(n, z.stage - 1)'
    <3>1. 1..(z.stage - 1) = {}
        BY SMTT(60), <2>3
    <3> QED
        BY Zenon, <3>1 DEF Done
  <2>8. z.at # "Settle"
      BY SMTT(60), <2>3
  <2> QED
      BY Zenon, <2>3, <2>5, <2>6, <2>7, <2>8 DEF LogWorkerOK
<1>11. CASE Settle(w)
  <2>1. Idle.at = "Stopped" /\ Idle.ahead = 0
      BY Zenon DEF Idle
  <2>2. CASE worker' = [worker EXCEPT ![w] = Idle]
    <3>1. z = Idle
        BY Zenon, <1>7, <2>2
    <3>2. z.at \in {"Stopped", "Recv"} /\ z.ahead <= offset'[Group]
        BY SMTT(60), <1>6, <2>1, <3>1
    <3> QED
        BY Zenon, <1>8, <3>2
  <2>3. CASE worker' = [worker EXCEPT ![w] = [Idle EXCEPT !.at = "Recv"]]
    <3> DEFINE r == [Idle EXCEPT !.at = "Recv"]
    <3>1. r.at = "Recv" /\ r.ahead = 0
        BY DEF Idle
    <3>2. worker' = [worker EXCEPT ![w] = r]
        BY Zenon, <2>3
    <3> HIDE DEF r
    <3>3. z = r
        BY Zenon, <1>7, <3>2
    <3>4. z.at \in {"Stopped", "Recv"} /\ z.ahead <= offset'[Group]
        BY SMTT(60), <1>6, <3>1, <3>3
    <3> QED
        BY Zenon, <1>8, <3>4
  <2>4. CASE /\ Settlement(x.verdict) \in Forward /\ Forwards(w)
             /\ worker' = [worker EXCEPT ![w] = [Idle EXCEPT !.at = "Recv", !.ahead = x.message]]
    <3> DEFINE r == [Idle EXCEPT !.at = "Recv", !.ahead = x.message]
    <3>1. r.at = "Recv" /\ r.ahead = x.message
        BY DEF Idle
    <3>2. worker' = [worker EXCEPT ![w] = r]
        BY Zenon, <2>4
    <3> HIDE DEF r
    <3>3. z.at = "Recv" /\ z.ahead = x.message
        BY Zenon, <1>7, <3>1, <3>2
    <3>4. delivery # "Competing" /\ OffsetOf(w) = Group
        BY DEF OffsetOf
    <3>5. offset' = [offset EXCEPT ![Group] = IF x.message > @ THEN x.message ELSE @]
        BY Zenon, <1>1, <2>4, <3>4 DEF Forwards
    <3>6. offset'[Group] = IF x.message > offset[Group] THEN x.message ELSE offset[Group]
        BY Zenon, <1>4, <3>5 DEF Offsets
    <3>7. z.at \in {"Stopped", "Recv"} /\ z.ahead <= offset'[Group]
        BY SMTT(60), <1>5, <1>6, <3>3, <3>6
    <3> QED
        BY Zenon, <1>8, <3>7
  <2> QED
      BY Zenon, <1>1, <1>11, <2>2, <2>3, <2>4 DEF Settle
<1>12. CASE Crash(w)
  <2>1. Idle.at = "Stopped" /\ Idle.ahead = 0 /\ z = Idle
      BY Zenon, <1>7, <1>12 DEF Idle, Crash
  <2>2. z.at \in {"Stopped", "Recv"} /\ z.ahead <= offset'[Group]
      BY SMTT(60), <1>6, <2>1
  <2> QED
      BY Zenon, <1>8, <2>2
<1>13. CASE CheckDisposition(w) \/ Commit(w)
  <2>1. x.at \notin {"Stopped", "Recv", "Settle"}
      BY Zenon, <1>1, <1>13 DEF CheckDisposition, Commit
  <2>2. ASSUME NEW t, NEW n, t = Current(w), n = x.message,
               Disposition(Input(w)) \in {"Duplicate", "Stale"}
        PROVE  Applied(t, n)'
    <3>1. Applied(t, n)
        BY Zenon, <1>1, <1>4, <2>1, <2>2, KnownIsApplied
    <3>2. t \in Projectors /\ n \in Feed
        BY Zenon, <1>1, <2>1, <2>2, InputIs DEF Inv
    <3> QED
        BY Zenon, <3>1, <3>2 DEF LogGrows
  <2>3. ASSUME CommitVerdict(Input(w), worker[w].mutation) = "Applied", Commit(w),
               NEW t, NEW n, t = Current(w), n = x.message
        PROVE  Applied(t, n)'
    <3> DEFINE i == Input(w)
               top == Len(applied[t])
    <3>1. /\ i.projector = t /\ Identity(i) = Id(n) /\ Trusted(i)
          /\ Applies(i, worker[w].mutation) /\ applied[t] \in Seq(Inputs)
      <4>1. Applies(i, worker[w].mutation)
          BY Zenon, <2>3 DEF Commit, commit_projection
      <4>2. i.projector = t /\ t \in Projectors /\ Identity(i) = Id(n) /\ Trusted(i)
          BY Zenon, <1>1, <2>1, <2>3, InputIs, InputTrusted DEF Inv
      <4> QED
          BY Zenon, <4>1, <4>2 DEF Inv, StoreInv, StoreTypes
    <3>2. Len(applied'[t]) = top + 1 /\ applied'[t][top + 1] = Id(n)
        BY Zenon, <3>1, AppliedGrows DEF Inv, StoreInv
    <3>3. top + 1 \in 1..(top + 1)
      <4>1. top \in Nat
          BY SMTT(60), <3>1
      <4> QED
          BY <4>1
    <3>4. Id(n).message = (feed[n])'.message
        BY Zenon DEF Id, LogGrows
    <3> QED
        BY Zenon, <3>2, <3>3, <3>4 DEF Applied
  <2>4. CommitVerdict(Input(w), worker[w].mutation) \in {"Duplicate", "Stale"}
            => Disposition(Input(w)) \in {"Duplicate", "Stale"}
    <3> DEFINE i == Input(w)
               m == worker[w].mutation
    <3>1. RecordVerdict(records[i.projector][m.key], m) \notin {"Duplicate", "Stale"}
      <4> HIDE DEF i, m
      <4> QED
          BY Zenon DEF RecordVerdict
    <3>2. MutationVerdict(i, m) \notin {"Duplicate", "Stale"}
      <4> HIDE DEF i, m
      <4> QED
          BY Zenon, <3>1 DEF MutationVerdict
    <3> HIDE DEF i, m
    <3>3. CommitVerdict(i, m) \in {"Duplicate", "Stale"} => Disposition(i) \in {"Duplicate", "Stale"}
        BY SMTT(60), <3>2 DEF CommitVerdict
    <3> QED
        BY Zenon, <3>3 DEF i, m
  <2>5. Dispatches(w)
    <3>1. "Retryable" # "Ok" /\ "Retain" # "Ok"
        OBVIOUS
    <3>2. CASE CheckDisposition(w)
      <4>1. \/ Goto(w, "Handle")
            \/ Disposition(Input(w)) \in {"Duplicate", "Stale"} /\ NextProjector(w)
            \/ EndDispatch(w, "Retryable") \/ EndDispatch(w, "Retain")
          BY Zenon, <3>2 DEF CheckDisposition
      <4> QED
          BY Zenon, <1>1, <2>2, <3>1, <4>1 DEF Dispatches
    <3>3. CASE Commit(w)
      <4>1. \/ Goto(w, "Fail")
            \/ /\ \/ CommitVerdict(Input(w), worker[w].mutation) = "Applied"
                  \/ CommitVerdict(Input(w), worker[w].mutation) \in {"Duplicate", "Stale"}
               /\ NextProjector(w)
            \/ EndDispatch(w, "Retryable") \/ EndDispatch(w, "Retain")
          BY Zenon, <3>3 DEF Commit
      <4>2. CASE NextProjector(w) /\ CommitVerdict(Input(w), worker[w].mutation) = "Applied"
          BY Zenon, <1>1, <2>3, <3>3, <4>2 DEF Dispatches
      <4>3. CASE /\ NextProjector(w)
                 /\ CommitVerdict(Input(w), worker[w].mutation) \in {"Duplicate", "Stale"}
          BY Zenon, <1>1, <2>2, <2>4, <4>3 DEF Dispatches
      <4> QED
          BY Zenon, <3>1, <4>1, <4>2, <4>3 DEF Dispatches
    <3> QED
        BY Zenon, <1>13, <3>2, <3>3
  <2> QED
      BY Zenon, <1>1, <1>4, <2>1, <2>5, LogDispatchMoves DEF Inv
<1>14. CASE ReadState(w) \/ Handle(w) \/ RecordFailure(w) \/ RetryableFault(w)
  <2>1. x.at \notin {"Stopped", "Recv", "Settle"}
      BY Zenon, <1>1, <1>14 DEF ReadState, Handle, RecordFailure, RetryableFault
  <2>2. "Retryable" # "Ok" /\ "Retain" # "Ok"
      OBVIOUS
  <2>3. Dispatches(w)
    <3>1. CASE ReadState(w)
      <4>1. \/ EndDispatch(w, "Retain")
            \/ \E g : worker' = [worker EXCEPT ![w] = [@ EXCEPT !.at = "Disposition", !.generation = g]]
          BY Zenon, <3>1 DEF ReadState
      <4> QED
          BY Zenon, <2>2, <4>1 DEF Dispatches
    <3>2. CASE Handle(w)
      <4>1. \/ EndDispatch(w, "Retryable") \/ Goto(w, "Fail")
            \/ \E m : worker' = [worker EXCEPT ![w] = [@ EXCEPT !.at = "Commit", !.mutation = m]]
          BY Zenon, <3>2 DEF Handle
      <4> QED
          BY Zenon, <2>2, <4>1 DEF Dispatches
    <3>3. CASE RecordFailure(w) \/ RetryableFault(w)
      <4>1. EndDispatch(w, "Retryable") \/ EndDispatch(w, "Retain")
          BY Zenon, <3>3 DEF RecordFailure, RetryableFault
      <4> QED
          BY Zenon, <2>2, <4>1 DEF Dispatches
    <3> QED
        BY Zenon, <1>14, <3>1, <3>2, <3>3
  <2> QED
      BY Zenon, <1>1, <1>4, <2>1, <2>3, LogDispatchMoves DEF Inv
<1> QED
    BY Zenon, <1>9, <1>10, <1>11, <1>12, <1>13, <1>14 DEF Work

\* The invariant of the log holds at first.
LEMMA LogInit == Init => LogInv
<1> SUFFICES ASSUME Init PROVE LogInv
    OBVIOUS
<1>1. /\ receipts = [t \in Projectors |-> {}] /\ applied = [t \in Projectors |-> <<>>]
      /\ offset = [x \in Workers \cup {Group} |-> 0] /\ acked = {}
      /\ worker = [w \in Workers |-> Idle]
    BY Zenon DEF Init, StoreInit
<1>2. offset \in Offsets /\ offset[Group] = 0
    BY <1>1 DEF Offsets
<1>3. ReceiptsOK
    BY Zenon, <1>1 DEF ReceiptsOK, ReceiptsOfApplied
<1>4. AcknowledgedIsApplied
  <2>1. \A n \in Feed : ~(n <= 0)
      BY DEF Feed
  <2> QED
      BY Zenon, <1>1, <1>2, <2>1 DEF AcknowledgedIsApplied
<1>5. NothingPassedOver
  <2>1. \A t \in Projectors : applied[t] = <<>>
      BY Zenon, <1>1
  <2>2. \A t \in Projectors : 1..Len(applied[t]) = {}
      BY SMTT(60), <2>1
  <2> QED
      BY Zenon, <2>2 DEF NothingPassedOver
<1>6. LogWorkersOK
  <2>1. Idle.at = "Stopped" /\ Idle.ahead = 0
      BY Zenon DEF Idle
  <2>2. 0 <= offset[Group]
      BY <1>2
  <2>3. LogWorkerOK(Idle)
      BY Zenon, <2>1, <2>2 DEF LogWorkerOK
  <2> QED
      BY Zenon, <1>1, <2>3 DEF LogWorkersOK
<1> QED
    BY Zenon, <1>1, <1>2, <1>3, <1>4, <1>5, <1>6 DEF LogInv

\* No step breaks it.
LEMMA LogNext == Inv /\ LogInv /\ [Next]_vars => LogInv'
<1> SUFFICES ASSUME Inv, LogInv, [Next]_vars PROVE LogInv'
    OBVIOUS
<1>1. ASSUME NEW w \in Workers, Work(w) \/ RetryableFault(w) \/ Crash(w)
      PROVE  LogInv'
  <2>1. offset \in Offsets /\ ReceiptsOK
      BY Zenon DEF LogInv
  <2>2. feed' = feed /\ delivery' = delivery /\ offset' \in Offsets
      BY Zenon, <1>1, <2>1, SourceMoves DEF Inv
  <2>3. ReceiptsOK'
      BY Zenon, <1>1, <2>1, WorkKeepsReceipts
  <2>4. ASSUME delivery = "Log"
        PROVE  acked' = {} /\ AcknowledgedIsApplied' /\ NothingPassedOver' /\ LogWorkersOK'
    <3>1. acked = {} /\ AcknowledgedIsApplied /\ NothingPassedOver /\ LogWorkersOK
        BY Zenon, <2>4 DEF LogInv
    <3>2. LogGrows
        BY Zenon, <1>1, <2>1, <2>4, LogOnlyGrows
    <3>3. /\ acked' = acked
          /\ \/ offset' = offset
             \/ /\ Settle(w) /\ Settlement(worker[w].verdict) \in Forward
                /\ offset'[Group] = IF worker[w].message > offset[Group]
                                    THEN worker[w].message ELSE offset[Group]
        BY Zenon, <1>1, <2>1, <2>4, SourceMoves DEF Inv
    <3>4. PICK x : x = worker[w]
        OBVIOUS
    <3>5. LogWorkerOK(x) /\ x \in WorkerFields(x.mutation)
        BY Zenon, <3>1, <3>4 DEF LogWorkersOK, Inv, WorkersOK, WorkerOK
    <3>6. AcknowledgedIsApplied'
      <4>1. \A t, n : Projects(t, n)' = Projects(t, n) /\ Feed' = Feed
          BY Zenon, <2>2 DEF Projects, Chain, Feed
      <4>2. ASSUME NEW t \in Projectors, NEW n \in Feed, Projects(t, n), n <= offset'[Group]
            PROVE  Applied(t, n)
        <5>1. CASE n <= offset[Group]
            BY Zenon, <3>1, <4>2, <5>1 DEF AcknowledgedIsApplied
        <5>2. CASE ~(n <= offset[Group])
          <6>1. /\ Settle(w) /\ Settlement(x.verdict) \in Forward
                /\ offset'[Group] = IF x.message > offset[Group] THEN x.message ELSE offset[Group]
              BY Zenon, <3>3, <3>4, <4>2, <5>2
          <6>2. x.at = "Settle" /\ x.verdict \in {"Ok", "Retryable", "Retain"}
              BY Zenon, <3>4, <3>5, <6>1 DEF Settle, WorkerFields
          <6>3. x.verdict = "Ok"
              BY Zenon, <6>1, <6>2, ForwardIsOk
          <6>4. /\ x.message \in Feed /\ x.message <= offset[Group] + 1
                /\ Done(x.message, Len(Chain(x.message)))
            <7>1. x.at \notin {"Stopped", "Recv"}
                BY <6>2
            <7> QED
                BY Zenon, <3>5, <6>2, <6>3, <7>1 DEF LogWorkerOK
          <6>5. offset[Group] \in Nat
              BY Zenon, <3>2 DEF LogGrows
          <6>6. n = x.message
              BY SMTT(60), <4>2, <5>2, <6>1, <6>4, <6>5 DEF Feed
          <6> QED
              BY Zenon, <4>2, <6>4, <6>6 DEF Done, Projects
        <5> QED
            BY Zenon, <5>1, <5>2
      <4>3. \A t \in Projectors, n \in Feed : Applied(t, n) => Applied(t, n)'
          BY Zenon, <3>2 DEF LogGrows
      <4>4. acked' = {}
          BY Zenon, <3>1, <3>3
      <4> QED
          BY Zenon, <4>1, <4>2, <4>3, <4>4 DEF AcknowledgedIsApplied
    <3>7. NothingPassedOver'
      <4>1. CASE Commit(w)
        <5>1. x.at \notin {"Stopped", "Recv"}
            BY Zenon, <3>4, <4>1 DEF Commit
        <5>2. worker[w].message <= offset[Group] + 1 /\ offset[Group] \in Nat
            BY Zenon, <3>2, <3>4, <3>5, <5>1 DEF LogWorkerOK, LogGrows
        <5> QED
            BY Zenon, <3>1, <4>1, <5>2, CommitPassesNothing
      <4>2. CASE ~Commit(w)
          BY Zenon, <1>1, <3>1, <4>2, OthersKeepRows, PassedOverStays
      <4> QED
          BY Zenon, <4>1, <4>2
    <3>8. LogWorkersOK'
      <4>1. ASSUME NEW y \in Workers, NEW z, z = worker'[y]
            PROVE  LogWorkerOK(z)'
        <5>1. CASE y = w
            BY Zenon, <1>1, <2>4, <3>2, <4>1, <5>1, LogWorkerMoves
        <5>2. CASE y # w
          <6>1. z = worker[y]
              BY Zenon, <1>1, <4>1, <5>2, StageMoves DEF Inv
          <6>2. z.ahead \in Nat /\ z.message \in Nat /\ LogWorkerOK(z)
              BY Zenon, <3>1, <6>1 DEF LogWorkersOK, Inv, WorkersOK, WorkerOK, WorkerFields
          <6> QED
              BY Zenon, <3>2, <6>2, LogWorkerStays
        <5> QED
            BY Zenon, <5>1, <5>2
      <4> QED
          BY Zenon, <4>1 DEF LogWorkersOK
    <3> QED
        BY Zenon, <3>1, <3>3, <3>6, <3>7, <3>8
  <2> QED
      BY Zenon, <2>2, <2>3, <2>4 DEF LogInv
<1>2. ASSUME UNCHANGED <<receipts, applied, feed, delivery, offset, acked, worker>>
      PROVE  LogInv'
  <2>1. \A t, n : Applied(t, n)' = Applied(t, n) /\ Projects(t, n)' = Projects(t, n) /\ Feed' = Feed
      BY Zenon, <1>2 DEF Applied, Projects, Chain, Feed
  <2>2. ReceiptsOK'
      BY ZenonT(60), <1>2 DEF LogInv, ReceiptsOK, ReceiptsOfApplied
  <2>3. AcknowledgedIsApplied => AcknowledgedIsApplied'
      BY Zenon, <1>2, <2>1 DEF AcknowledgedIsApplied
  <2>4. NothingPassedOver => NothingPassedOver'
      BY Zenon, <1>2, PassedOverStays
  <2>5. \A x : LogWorkerOK(x) => LogWorkerOK(x)'
      BY Zenon, <1>2, <2>1 DEF LogWorkerOK, Done, Chain
  <2>6. LogWorkersOK => LogWorkersOK'
      BY Zenon, <1>2, <2>5 DEF LogWorkersOK
  <2> QED
      BY Zenon, <1>2, <2>2, <2>3, <2>4, <2>6 DEF LogInv
<1>3. CASE \E t \in Projectors : Repair(t)
    BY Zenon, <1>2, <1>3 DEF Repair, repair_projection, source
<1>4. CASE UNCHANGED vars
    BY Zenon, <1>2, <1>4 DEF vars, store, source
<1> QED
    BY Zenon, <1>1, <1>3, <1>4 DEF Next

\* Over the ordered log a message is acknowledged only when every projector of it
\* has applied it: what run_source acknowledges as a duplicate, or as stale, was
\* applied by a replica before.
THEOREM LogAcknowledgesOnlyApplied == Spec => []LogAcknowledgedIsApplied
<1>1. Init => Inv /\ LogInv
    BY Zenon, InvInit, LogInit
<1>2. Inv /\ LogInv /\ [Next]_vars => (Inv /\ LogInv)'
    BY Zenon, InvNext, LogNext
<1>3. LogInv => LogAcknowledgedIsApplied
    BY Zenon DEF LogInv, LogAcknowledgedIsApplied
<1> QED
    BY <1>1, <1>2, <1>3, PTL DEF Spec
=============================================================================
