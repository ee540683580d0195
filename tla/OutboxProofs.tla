---------------------------- MODULE OutboxProofs ----------------------------
(***************************************************************************)
(* Proofs about the outbox, for any number of messages and dispatchers,    *)
(* any assignment of worker ids, any lease, batch size and ceiling.        *)
(*                                                                         *)
(* The inductive invariant adds to the checked properties what a pass may  *)
(* rely on: its claims are of committed rows and never ahead of the row's  *)
(* attempts (ClaimsBehindRow); only the latest claim of a row carries its  *)
(* current attempt number (Fence); and publishes still to come are paid    *)
(* for by attempts already counted (Budget).                               *)
(***************************************************************************)
EXTENDS Outbox, FiniteSetTheorems, TLAPS

\* The passes that are still going to publish m.
Publishing(m) == {d \in Dispatchers : m \in pass[d].todo}

RowShape ==
    \A m \in Messages :
        /\ row[m].status = "Absent" => row[m].attempts = 0
        /\ row[m].status # "InFlight" => row[m].lease = 0

PassShape ==
    \A d \in Dispatchers :
        /\ pass[d].todo \cap pass[d].published = {}
        /\ pass[d].todo \cap pass[d].failed = {}
        /\ pass[d].published \cap pass[d].failed = {}

ClaimsBehindRow ==
    \A d \in Dispatchers, m \in Messages : Works(d, m) =>
        /\ row[m].status # "Absent"
        /\ pass[d].attempt[m] <= row[m].attempts

Evidence ==
    \A d \in Dispatchers, m \in Messages :
        /\ m \in pass[d].published => delivered[m] > 0
        /\ m \in pass[d].failed => m \in refused

Budget ==
    \A m \in Messages : delivered[m] + Cardinality(Publishing(m)) <= row[m].attempts

Fence ==
    \A d \in Dispatchers, m \in Messages :
        Works(d, m) /\ pass[d].attempt[m] = row[m].attempts => holder[m] = d

Inv ==
    /\ TypeOK /\ RowShape /\ PassShape /\ ClaimsBehindRow
    /\ Evidence /\ Budget /\ Fence
    /\ PublishedWasDelivered /\ FailedOnlyAtCeiling

-----------------------------------------------------------------------------
(* Facts about the passes that are still going to publish a row.           *)

\* Finitely many passes publish a message.
LEMMA PublishingFinite ==
    \A m : IsFiniteSet(Publishing(m)) /\ Cardinality(Publishing(m)) \in Nat
BY OutboxAssumption, FS_Subset, FS_CardinalityType DEF Publishing, OutboxAssumption

\* Joining the publishing passes uses up one attempt, leaving them frees one.
LEMMA PublishingGains ==
    ASSUME NEW P \in SUBSET Dispatchers, NEW d \in Dispatchers
    PROVE  /\ Cardinality(P \cup {d}) \in Nat
           /\ Cardinality(P \cup {d}) <= Cardinality(P) + 1
<1>1. IsFiniteSet(P) /\ IsFiniteSet(P \cup {d})
    BY OutboxAssumption, FS_Subset DEF OutboxAssumption
<1>2. Cardinality(P) \in Nat /\ Cardinality(P \cup {d}) \in Nat
    BY <1>1, FS_CardinalityType
<1>3. Cardinality(P \cup {d}) = IF d \in P THEN Cardinality(P) ELSE Cardinality(P) + 1
    BY <1>1, FS_AddElement
<1> QED
    BY <1>2, <1>3

\* A pass that leaves frees one attempt.
LEMMA PublishingLoses ==
    ASSUME NEW P \in SUBSET Dispatchers, NEW d \in P
    PROVE  Cardinality(P \ {d}) = Cardinality(P) - 1
<1>1. IsFiniteSet(P)
    BY OutboxAssumption, FS_Subset DEF OutboxAssumption
<1> QED
    BY <1>1, FS_RemoveElement

\* Fewer publishing passes need fewer attempts.
LEMMA PublishingShrinks ==
    ASSUME NEW P \in SUBSET Dispatchers, NEW Q \in SUBSET P
    PROVE  /\ Cardinality(Q) \in Nat
           /\ Cardinality(Q) <= Cardinality(P)
<1>1. IsFiniteSet(P) /\ IsFiniteSet(Q)
    BY OutboxAssumption, FS_Subset DEF OutboxAssumption
<1> QED
    BY <1>1, FS_Subset, FS_CardinalityType

-----------------------------------------------------------------------------
\* The invariant holds of an outbox without rows.
LEMMA InitInv == Init => Inv
<1> SUFFICES ASSUME Init PROVE Inv
    OBVIOUS
<1> USE OutboxAssumption DEF OutboxAssumption
<1>1. TypeOK
    BY DEF Init, TypeOK, Row, Pass, NoPass, Statuses
<1>2. RowShape /\ PassShape /\ ClaimsBehindRow /\ Evidence /\ Fence
    BY DEF Init, RowShape, PassShape, ClaimsBehindRow, Evidence, Fence, Works, NoPass
<1>3. Budget
  <2>1. \A m \in Messages : Publishing(m) = {}
      BY DEF Init, NoPass, Publishing
  <2>2. Cardinality({}) = 0
      BY FS_EmptySet
  <2> QED
      BY SMTT(60), <2>1, <2>2 DEF Init, Budget
<1>4. PublishedWasDelivered /\ FailedOnlyAtCeiling
    BY DEF Init, PublishedWasDelivered, FailedOnlyAtCeiling
<1> QED
    BY <1>1, <1>2, <1>3, <1>4 DEF Inv

-----------------------------------------------------------------------------
(* One lemma per action: it preserves the invariant.                       *)

\* Committing pending rows keeps the invariant.
LEMMA CommitPendingInv ==
    ASSUME Inv, NEW S \in SUBSET Messages, CommitPending(S)
    PROVE  Inv'
<1> USE OutboxAssumption DEF OutboxAssumption, Inv
<1>1. \A m \in Messages : /\ row'[m].attempts = row[m].attempts
                          /\ row'[m].lease = row[m].lease
                          /\ row'[m].worker = row[m].worker
                          /\ m \in S => /\ row[m].status = "Absent"
                                        /\ row'[m].status = "Pending"
                          /\ m \notin S => row'[m] = row[m]
    BY DEF CommitPending, TypeOK, Row
<1>2. TypeOK'
    BY ZenonT(60) DEF CommitPending, TypeOK, Row, Statuses
<1>3. RowShape' /\ PassShape' /\ ClaimsBehindRow' /\ Evidence' /\ Fence'
    BY <1>1 DEF CommitPending, RowShape, PassShape, ClaimsBehindRow, Evidence, Fence, Works
<1>4. Budget'
    BY <1>1 DEF CommitPending, Budget, Publishing
<1>5. PublishedWasDelivered' /\ FailedOnlyAtCeiling'
    BY <1>1 DEF CommitPending, PublishedWasDelivered, FailedOnlyAtCeiling
<1> QED
    BY <1>2, <1>3, <1>4, <1>5

\* The rows of S become claims of the idle dispatcher d: what both ways of
\* claiming, at commit and by claim(), have in common.
NewClaims(d, S, polled, left) ==
    /\ Idle(d)
    /\ \A m \in S : row[m].status \notin {"Published", "Failed"}
    /\ row' = [m \in Messages |-> IF m \in S
                THEN [status |-> "InFlight", worker |-> WorkerId[d],
                      lease |-> left, attempts |-> row[m].attempts + 1]
                ELSE row[m]]
    /\ pass' = StartPass(d, S, polled, [m \in Messages |-> row[m].attempts + 1])
    /\ holder' = [m \in Messages |-> IF m \in S THEN d ELSE holder[m]]
    /\ UNCHANGED <<delivered, refused, disruptions>>

\* A claim keeps the invariant, whether it takes stored rows or commits new ones.
LEMMA NewClaimsInv ==
    ASSUME Inv, NEW d \in Dispatchers, NEW S \in SUBSET Messages,
           NEW polled \in BOOLEAN, NEW left \in 0..Lease, NewClaims(d, S, polled, left)
    PROVE  Inv'
<1> USE OutboxAssumption DEF OutboxAssumption, Inv
<1>1. /\ pass[d].todo = {}
      /\ pass'[d].todo = S /\ pass'[d].published = {} /\ pass'[d].failed = {}
      /\ \A m \in S : pass'[d].attempt[m] = row[m].attempts + 1
      /\ \A e \in Dispatchers \ {d} : pass'[e] = pass[e]
      /\ pass' \in [Dispatchers -> Pass]
  <2> DEFINE A == [m \in Messages |-> IF m \in S THEN row[m].attempts + 1 ELSE 0]
             P == [polled |-> polled, todo |-> S, published |-> {}, failed |-> {}, attempt |-> A]
  <2>1. A \in [Messages -> Nat]
      BY DEF TypeOK, Row
  <2>2. pass' = [pass EXCEPT ![d] = P]
      BY ZenonT(60) DEF StartPass, NewClaims
  <2> HIDE DEF A
  <2>3. P \in Pass
      BY <2>1 DEF Pass
  <2> HIDE DEF P
  <2>4. pass \in [Dispatchers -> Pass]
      BY DEF TypeOK
  <2>5. /\ pass'[d] = P
        /\ \A e \in Dispatchers \ {d} : pass'[e] = pass[e]
        /\ pass' \in [Dispatchers -> Pass]
      BY <2>2, <2>3, <2>4
  <2>6. pass[d].todo = {}
      BY DEF NewClaims, Idle, NoPass
  <2> QED
      BY <2>5, <2>6 DEF P, A
<1>2. \A m \in Messages :
        /\ row[m].attempts \in Nat
        /\ m \in S => /\ row'[m].status = "InFlight"
                      /\ row'[m].attempts = row[m].attempts + 1
                      /\ holder'[m] = d
        /\ m \notin S => row'[m] = row[m] /\ holder'[m] = holder[m]
    BY DEF TypeOK, Row, NewClaims
<1>3. TypeOK'
  <2>1. row' \in [Messages -> Row]
      BY DEF TypeOK, Row, Statuses, NewClaims
  <2> QED
      BY Zenon, <1>1, <2>1 DEF TypeOK, NewClaims
<1>4. RowShape' /\ PassShape'
  <2>1. RowShape'
      BY <1>2 DEF RowShape
  <2>2. PassShape'
      BY <1>1 DEF PassShape
  <2> QED
      BY <2>1, <2>2
<1>5. ClaimsBehindRow' /\ Fence'
  <2> SUFFICES ASSUME NEW e \in Dispatchers, NEW m \in Messages, Works(e, m)'
               PROVE  /\ row'[m].status # "Absent"
                      /\ pass'[e].attempt[m] <= row'[m].attempts
                      /\ pass'[e].attempt[m] = row'[m].attempts => holder'[m] = e
      BY DEF ClaimsBehindRow, Fence
  <2>1. CASE e = d
    <3>1. m \in S /\ pass'[e].attempt[m] = row[m].attempts + 1
        BY Zenon, <1>1, <2>1 DEF Works
    <3>2. /\ row[m].attempts \in Nat /\ row'[m].status = "InFlight"
          /\ row'[m].attempts = row[m].attempts + 1 /\ holder'[m] = d
        BY Zenon, <1>2, <3>1
    <3> QED
        BY <2>1, <3>1, <3>2
  <2>2. CASE e # d
    <3>1. pass'[e] = pass[e] /\ pass[e].attempt[m] \in Nat
        BY <1>1, <2>2 DEF TypeOK, Pass
    <3>2. Works(e, m)
        BY <3>1 DEF Works
    <3>3. /\ row[m].status # "Absent"
          /\ pass[e].attempt[m] <= row[m].attempts
          /\ pass[e].attempt[m] = row[m].attempts => holder[m] = e
        BY <3>2 DEF ClaimsBehindRow, Fence
    <3>4. CASE m \in S
        BY <1>2, <3>1, <3>3, <3>4
    <3>5. CASE m \notin S
        BY <1>2, <3>1, <3>3, <3>5
    <3> QED
        BY <3>4, <3>5
  <2> QED
      BY <2>1, <2>2
<1>6. Evidence'
    BY Zenon, <1>1 DEF Evidence, NewClaims
<1>7. Budget'
  <2> SUFFICES ASSUME NEW m \in Messages
               PROVE  delivered'[m] + Cardinality(Publishing(m)') <= row'[m].attempts
      BY DEF Budget
  <2>0. delivered[m] \in Nat /\ delivered' = delivered
      BY DEF TypeOK, NewClaims
  <2>1. CASE m \in S
    <3>1. Publishing(m)' = Publishing(m) \cup {d}
        BY <1>1, <2>1 DEF Publishing
    <3>2. Publishing(m) \in SUBSET Dispatchers
        BY DEF Publishing
    <3>3. /\ Cardinality(Publishing(m)') \in Nat
          /\ Cardinality(Publishing(m)') <= Cardinality(Publishing(m)) + 1
        BY Zenon, <3>1, <3>2, PublishingGains
    <3>4. Cardinality(Publishing(m)) \in Nat
        BY Zenon, PublishingFinite
    <3>5. delivered[m] + Cardinality(Publishing(m)) <= row[m].attempts
        BY Zenon DEF Budget
    <3>6. row[m].attempts \in Nat /\ row'[m].attempts = row[m].attempts + 1
        BY Zenon, <1>2, <2>1
    <3> QED
        BY <2>0, <3>3, <3>4, <3>5, <3>6
  <2>2. CASE m \notin S
    <3>1. Publishing(m)' = Publishing(m)
        BY <1>1, <2>2 DEF Publishing
    <3> QED
        BY <1>2, <2>0, <2>2, <3>1 DEF Budget
  <2> QED
      BY <2>1, <2>2
<1>8. PublishedWasDelivered' /\ FailedOnlyAtCeiling'
    BY Zenon, <1>2 DEF PublishedWasDelivered, FailedOnlyAtCeiling, NewClaims
<1> QED
    BY <1>3, <1>4, <1>5, <1>6, <1>7, <1>8

\* Committing rows already claimed keeps the invariant.
LEMMA CommitClaimedInv ==
    ASSUME Inv, NEW d \in Dispatchers, NEW S \in SUBSET Messages,
           NEW left \in 0..Lease, CommitClaimed(d, S, left)
    PROVE  Inv'
<1>1. \A m \in S : row[m].status = "Absent" /\ row[m].attempts = 0
    BY DEF CommitClaimed, Inv, RowShape
<1>2. row' = [m \in Messages |-> IF m \in S
                THEN [status |-> "InFlight", worker |-> WorkerId[d],
                      lease |-> left, attempts |-> row[m].attempts + 1]
                ELSE row[m]]
    BY <1>1 DEF CommitClaimed
<1>3. \A m \in Messages :
        (IF m \in S THEN [k \in Messages |-> 1][m] ELSE 0)
        = (IF m \in S THEN [k \in Messages |-> row[k].attempts + 1][m] ELSE 0)
    BY <1>1
<1>4. StartPass(d, S, FALSE, [m \in Messages |-> 1])
        = StartPass(d, S, FALSE, [m \in Messages |-> row[m].attempts + 1])
    BY ZenonT(60), <1>3 DEF StartPass
<1>5. NewClaims(d, S, FALSE, left)
    BY Zenon, <1>1, <1>2, <1>4 DEF CommitClaimed, NewClaims
<1> QED
    BY Zenon, <1>5, NewClaimsInv

\* claim() keeps the invariant.
LEMMA ClaimInv ==
    ASSUME Inv, NEW d \in Dispatchers, NEW S \in SUBSET Claimable,
           NEW polled \in BOOLEAN, claim(d, S, polled)
    PROVE  Inv'
<1>1. S \in SUBSET Messages /\ Lease \in 0..Lease
    BY OutboxAssumption DEF Claimable, OutboxAssumption
<1>2. NewClaims(d, S, polled, Lease)
    BY DEF claim, NewClaims, Claimable, is_claimable_at, has_expired_lease_at
<1> QED
    BY <1>1, <1>2, NewClaimsInv

\* A pass publishes rows of its claim only.
LEMMA UpcomingSubset == \A d, S : Upcoming(d, S) \subseteq S
BY DEF Upcoming, Oldest

\* A publish of m by d ends, accepted or refused.
PublishEnds(d, m) ==
    /\ m \in pass[d].todo
    /\ UNCHANGED <<row, holder, disruptions>>
    /\ pass' \in [Dispatchers -> Pass]
    /\ \A e \in Dispatchers \ {d} : pass'[e] = pass[e]
    /\ pass'[d].todo = pass[d].todo \ {m}
    /\ pass'[d].attempt = pass[d].attempt
    /\ \/ /\ pass'[d].published = pass[d].published \cup {m}
          /\ pass'[d].failed = pass[d].failed
          /\ delivered'[m] = delivered[m] + 1
       \/ /\ pass'[d].published = pass[d].published
          /\ pass'[d].failed = pass[d].failed \cup {m}
          /\ m \in refused'

\* An accepted publish moves its message from todo to published.
LEMMA PublishOkEnds ==
    ASSUME TypeOK, NEW d \in Dispatchers, NEW m \in Messages, PublishOk(d, m)
    PROVE  PublishEnds(d, m)
<1> DEFINE P == [pass[d] EXCEPT !.todo = @ \ {m}, !.published = @ \cup {m}]
<1>1. pass' = [pass EXCEPT ![d] = P]
    BY ZenonT(60) DEF PublishOk, TypeOK
<1>2. /\ P \in Pass /\ P.todo = pass[d].todo \ {m} /\ P.failed = pass[d].failed
      /\ P.published = pass[d].published \cup {m} /\ P.attempt = pass[d].attempt
    BY ZenonT(60) DEF Pass, TypeOK
<1>3. delivered'[m] = delivered[m] + 1 /\ UNCHANGED <<row, holder, disruptions>>
    BY DEF PublishOk, TypeOK
<1>4. m \in pass[d].todo
    BY UpcomingSubset DEF PublishOk
<1> HIDE DEF P
<1> QED
    BY SMTT(60), <1>1, <1>2, <1>3, <1>4 DEF PublishEnds, TypeOK

\* A failed publish moves its message from todo to failed.
LEMMA PublishErrEnds ==
    ASSUME TypeOK, NEW d \in Dispatchers, NEW m \in Messages,
           NEW accepted \in BOOLEAN, PublishErr(d, m, accepted)
    PROVE  PublishEnds(d, m)
<1> DEFINE P == [pass[d] EXCEPT !.todo = @ \ {m}, !.failed = @ \cup {m}]
<1>1. pass' = [pass EXCEPT ![d] = P]
    BY ZenonT(60) DEF PublishErr, TypeOK
<1>2. /\ P \in Pass /\ P.todo = pass[d].todo \ {m} /\ P.published = pass[d].published
      /\ P.failed = pass[d].failed \cup {m} /\ P.attempt = pass[d].attempt
    BY ZenonT(60) DEF Pass, TypeOK
<1>3. m \in refused' /\ UNCHANGED <<row, holder, disruptions>>
    BY DEF PublishErr, TypeOK
<1>4. m \in pass[d].todo
    BY UpcomingSubset DEF PublishErr
<1> HIDE DEF P
<1> QED
    BY Zenon, <1>1, <1>2, <1>3, <1>4 DEF PublishEnds, TypeOK

\* A publish keeps the invariant: the attempt it uses up is one the row counted.
LEMMA PublishInv ==
    ASSUME Inv, NEW d \in Dispatchers, NEW m \in Messages,
           PublishOk(d, m) \/ \E accepted \in BOOLEAN : PublishErr(d, m, accepted)
    PROVE  Inv'
<1> USE OutboxAssumption DEF OutboxAssumption, Inv
<1>0. PublishEnds(d, m)
    BY PublishOkEnds, PublishErrEnds
<1>2. /\ \A k \in Messages : /\ delivered'[k] >= delivered[k]
                             /\ k \in refused => k \in refused'
                             /\ k # m => delivered'[k] = delivered[k]
      /\ delivered'[m] <= delivered[m] + 1
      /\ delivered' \in [Messages -> Nat] /\ refused' \subseteq Messages
    BY DEF PublishOk, PublishErr, TypeOK
<1>3. TypeOK'
    BY SMTT(60), <1>0, <1>2 DEF TypeOK, PublishEnds
<1>4. RowShape' /\ PassShape'
  <2>1. RowShape'
      BY Zenon, <1>0 DEF RowShape, PublishEnds
  <2>2. PassShape'
      BY SMTT(60), <1>0 DEF PassShape, PublishEnds
  <2> QED
      BY ZenonT(60), <2>1, <2>2
<1>5. ClaimsBehindRow' /\ Fence'
  <2> SUFFICES ASSUME NEW e \in Dispatchers, NEW k \in Messages, Works(e, k)'
               PROVE  /\ row'[k].status # "Absent"
                      /\ pass'[e].attempt[k] <= row'[k].attempts
                      /\ pass'[e].attempt[k] = row'[k].attempts => holder'[k] = e
      BY ZenonT(60) DEF ClaimsBehindRow, Fence
  <2>1. Works(e, k) /\ pass'[e].attempt = pass[e].attempt
      BY ZenonT(60), <1>0 DEF Works, PublishEnds
  <2> QED
      BY ZenonT(60), <1>0, <2>1 DEF ClaimsBehindRow, Fence, PublishEnds
<1>6. Evidence'
    BY SMTT(60), <1>0, <1>2 DEF Evidence, TypeOK, PublishEnds
<1>7. Budget'
  <2> SUFFICES ASSUME NEW k \in Messages
               PROVE  delivered'[k] + Cardinality(Publishing(k)') <= row'[k].attempts
      BY SMTT(60) DEF Budget
  <2>0. delivered[k] \in Nat /\ delivered'[k] \in Nat /\ row[k].attempts \in Nat
      BY ZenonT(60), <1>2 DEF TypeOK, Row
  <2>1. CASE k = m
    <3>1. Publishing(m)' = Publishing(m) \ {d} /\ d \in Publishing(m)
        BY Zenon, <1>0 DEF Publishing, PublishEnds
    <3>2. Publishing(m) \in SUBSET Dispatchers
        BY SMTT(60) DEF Publishing
    <3>3. Cardinality(Publishing(m)') = Cardinality(Publishing(m)) - 1
        BY SMTT(60), <3>1, <3>2, PublishingLoses
    <3> QED
        BY SMTT(60), <1>0, <1>2, <2>0, <2>1, <3>3, PublishingFinite DEF Budget, PublishEnds
  <2>2. CASE k # m
    <3>1. Publishing(k)' = Publishing(k)
        BY Zenon, <1>0, <2>2 DEF Publishing, PublishEnds
    <3> QED
        BY SMTT(60), <1>0, <1>2, <2>2, <3>1 DEF Budget, PublishEnds
  <2> QED
      BY <2>1, <2>2
<1>8. PublishedWasDelivered' /\ FailedOnlyAtCeiling'
    BY SMTT(60), <1>0, <1>2 DEF PublishedWasDelivered, FailedOnlyAtCeiling, TypeOK, PublishEnds
<1> QED
    BY <1>3, <1>4, <1>5, <1>6, <1>7, <1>8

-----------------------------------------------------------------------------
(* Settling, aborting and ticking never add work to a pass.                *)

PassesShrink ==
    /\ pass' \in [Dispatchers -> Pass]
    /\ \A d \in Dispatchers :
        /\ pass'[d].todo \subseteq pass[d].todo
        /\ pass'[d].published \subseteq pass[d].published
        /\ pass'[d].failed \subseteq pass[d].failed
        /\ \A m \in Messages : Works(d, m)' => pass'[d].attempt[m] = pass[d].attempt[m]

RowsKeepClaims ==
    /\ row' \in [Messages -> Row]
    /\ \A m \in Messages :
        /\ row'[m].attempts = row[m].attempts
        /\ row'[m].status = "Absent" <=> row[m].status = "Absent"
        /\ row'[m].status # "InFlight" => row'[m].lease = 0

\* A step in which passes only shrink, and rows keep their claims or end them,
\* keeps all of the invariant that does not speak of types.
LEMMA ShrinkInv ==
    ASSUME Inv, PassesShrink, RowsKeepClaims, UNCHANGED <<delivered, refused, holder>>
    PROVE  RowShape' /\ PassShape' /\ ClaimsBehindRow' /\ Evidence' /\ Budget' /\ Fence'
<1> USE OutboxAssumption DEF OutboxAssumption, Inv
<1>1. RowShape'
    BY SMTT(60) DEF RowShape, RowsKeepClaims
<1>2. PassShape'
    BY ZenonT(60) DEF PassShape, PassesShrink
<1>3. ClaimsBehindRow' /\ Fence'
  <2> SUFFICES ASSUME NEW e \in Dispatchers, NEW k \in Messages, Works(e, k)'
               PROVE  /\ row'[k].status # "Absent"
                      /\ pass'[e].attempt[k] <= row'[k].attempts
                      /\ pass'[e].attempt[k] = row'[k].attempts => holder'[k] = e
      BY Zenon DEF ClaimsBehindRow, Fence
  <2>1. Works(e, k)
      BY Zenon DEF Works, PassesShrink
  <2>2. pass'[e].attempt[k] = pass[e].attempt[k]
      BY Zenon DEF PassesShrink
  <2>3. row'[k].attempts = row[k].attempts /\ (row'[k].status = "Absent" <=> row[k].status = "Absent")
      BY ZenonT(60) DEF RowsKeepClaims
  <2> QED
      BY Zenon, <2>1, <2>2, <2>3 DEF ClaimsBehindRow, Fence
<1>4. Evidence'
    BY Zenon DEF Evidence, PassesShrink
<1>5. Budget'
  <2> SUFFICES ASSUME NEW k \in Messages
               PROVE  delivered'[k] + Cardinality(Publishing(k)') <= row'[k].attempts
      BY ZenonT(60) DEF Budget
  <2>1. Publishing(k) \subseteq Dispatchers /\ Publishing(k)' \subseteq Publishing(k)
      BY DEF Publishing, PassesShrink
  <2>2. /\ delivered' = delivered /\ delivered[k] \in Nat
        /\ row'[k].attempts = row[k].attempts /\ row[k].attempts \in Nat
        /\ delivered[k] + Cardinality(Publishing(k)) <= row[k].attempts
      BY DEF TypeOK, Row, RowsKeepClaims, Budget
  <2>3. /\ Cardinality(Publishing(k)') \in Nat
        /\ Cardinality(Publishing(k)') <= Cardinality(Publishing(k))
      BY <2>1, PublishingShrinks
  <2> QED
      BY <2>2, <2>3, PublishingFinite
<1> QED
    BY <1>1, <1>2, <1>3, <1>4, <1>5

\* A pass that ends early, by a crash or a store error, only loses work.
LEMMA DropShrinks ==
    ASSUME TypeOK, NEW d \in Dispatchers, pass' = [pass EXCEPT ![d] = NoPass]
    PROVE  PassesShrink
<1>1. NoPass \in Pass /\ NoPass.todo = {} /\ NoPass.published = {} /\ NoPass.failed = {}
    BY Zenon DEF NoPass, Pass
<1>2. pass' \in [Dispatchers -> Pass] /\ pass'[d] = NoPass
    BY <1>1 DEF TypeOK
<1>3. \A e \in Dispatchers \ {d} : pass'[e] = pass[e]
    BY DEF TypeOK
<1> QED
    BY SMTT(60), <1>1, <1>2, <1>3 DEF PassesShrink, Works

\* Pass d settles its claim of m, which it still owns, with the given status.
SettlesClaim(d, m, status) ==
    /\ ensure_active_claim(d, m)
    /\ Works(d, m)
    /\ row' = Settled(m, status)
    /\ status \in {"Pending", "Failed", "Published"}

\* A settlement changes its own row and no other.
LEMMA SettlesClaimRows ==
    ASSUME Inv, NEW d \in Dispatchers, NEW m \in Messages, NEW status,
           SettlesClaim(d, m, status)
    PROVE  /\ RowsKeepClaims
           /\ row'[m].status = status
           /\ \A k \in Messages \ {m} : row'[k] = row[k]
<1> DEFINE R == [row[m] EXCEPT !.status = status, !.worker = NoWorker, !.lease = 0]
<1>1. row' = [row EXCEPT ![m] = R]
    BY ZenonT(60) DEF SettlesClaim, Settled, Inv, TypeOK
<1>2. /\ R \in Row /\ R.status = status /\ R.lease = 0
      /\ R.attempts = row[m].attempts
  <2>1. row[m] \in Row /\ status \in Statuses /\ 0 \in 0..Lease
      BY OutboxAssumption DEF OutboxAssumption, SettlesClaim, Inv, TypeOK, Statuses
  <2> QED
      BY ZenonT(60), <2>1 DEF Row
<1>3. row \in [Messages -> Row] /\ row[m].status = "InFlight"
    BY DEF SettlesClaim, ensure_active_claim, Inv, TypeOK
<1>4. status # "Absent"
    BY DEF SettlesClaim
<1> HIDE DEF R
<1>5. row'[m] = R /\ \A k \in Messages \ {m} : row'[k] = row[k]
    BY <1>1, <1>3
<1>6. row' \in [Messages -> Row]
    BY <1>1, <1>2, <1>3
<1>7. \A k \in Messages :
        /\ row'[k].attempts = row[k].attempts
        /\ row'[k].status = "Absent" <=> row[k].status = "Absent"
        /\ row'[k].status # "InFlight" => row'[k].lease = 0
  <2>1. RowShape
      BY SMTT(60) DEF Inv
  <2> QED
      BY Zenon, <1>2, <1>3, <1>4, <1>5, <2>1 DEF RowShape
<1> QED
    BY <1>2, <1>5, <1>6, <1>7 DEF RowsKeepClaims

\* Settling m takes it from the rows that were published or failed.
LEMMA WithoutShrinks ==
    ASSUME TypeOK, NEW d \in Dispatchers, NEW m \in Messages, pass[d].todo = {}
    PROVE  /\ Without(d, m) \in Pass
           /\ Without(d, m).todo = {}
           /\ Without(d, m).published = pass[d].published \ {m}
           /\ Without(d, m).failed = pass[d].failed \ {m}
           /\ \A k \in Messages \ {m} :
                k \in pass[d].published \cup pass[d].failed
                => Without(d, m).attempt[k] = pass[d].attempt[k]
<1> DEFINE F == pass[d].failed \ {m}
           P == pass[d].published \ {m}
           L == [pass[d] EXCEPT !.failed = F, !.published = P, !.attempt[m] = 0]
<1>1. CASE F \cup P = {}
  <2>1. Without(d, m) = NoPass /\ F = {} /\ P = {}
      BY ZenonT(60), <1>1 DEF Without
  <2>2. NoPass \in Pass /\ NoPass.todo = {} /\ NoPass.published = {} /\ NoPass.failed = {}
      BY Zenon DEF NoPass, Pass
  <2> QED
      BY ZenonT(60), <2>1, <2>2
<1>2. CASE F \cup P # {}
  <2>1. Without(d, m) = L
      BY ZenonT(60), <1>2 DEF Without
  <2>2. pass[d] \in Pass /\ F \in SUBSET Messages /\ P \in SUBSET Messages
      BY DEF TypeOK, Pass
  <2> HIDE DEF F, P
  <2>3. /\ L \in Pass /\ L.todo = pass[d].todo /\ L.published = P /\ L.failed = F
        /\ \A k \in Messages \ {m} : L.attempt[k] = pass[d].attempt[k]
      BY ZenonT(60), <2>2 DEF Pass
  <2> HIDE DEF L
  <2> QED
      BY ZenonT(60), <2>1, <2>3 DEF F, P
<1> QED
    BY Zenon, <1>1, <1>2

\* What a step of the settle phase does: it settles one claim, or the store
\* refuses the claim and the pass ends.
LEMMA SettleEffect ==
    ASSUME Inv, NEW d \in Dispatchers, NEW m \in Messages,
           record_failure(d, m) \/ complete(d, m)
    PROVE  /\ PassesShrink
           /\ pass'[d] # pass[d]
           /\ UNCHANGED <<delivered, refused, holder, disruptions>>
           /\ \/ UNCHANGED row
              \/ /\ record_failure(d, m)
                 /\ m \in pass[d].failed
                 /\ SettlesClaim(d, m, FailureStatus(d, m))
              \/ /\ complete(d, m)
                 /\ m \in pass[d].published
                 /\ SettlesClaim(d, m, "Published")
<1> USE DEF Inv
<1>0. pass \in [Dispatchers -> Pass] /\ pass[d] \in Pass
    BY DEF TypeOK
<1>1. CASE record_failure(d, m)
  <2>1. m \in pass[d].failed
      BY Zenon, <1>1, UpcomingSubset DEF record_failure
  <2>2. CASE ensure_active_claim(d, m)
    <3> DEFINE P == Without(d, m)
    <3>1. pass' = [pass EXCEPT ![d] = P] /\ row' = Settled(m, FailureStatus(d, m))
        BY ZenonT(60), <1>0, <1>1, <2>2 DEF record_failure
    <3>2. /\ P \in Pass /\ P.todo = {} /\ P.published = pass[d].published \ {m}
          /\ P.failed = pass[d].failed \ {m} /\ pass[d].todo = {}
          /\ \A k \in Messages \ {m} : k \in pass[d].published \cup pass[d].failed
                                      => P.attempt[k] = pass[d].attempt[k]
        BY ZenonT(60), <1>1, WithoutShrinks DEF record_failure
    <3> HIDE DEF P
    <3>3. pass' \in [Dispatchers -> Pass] /\ pass'[d] = P
        BY <1>0, <3>1, <3>2
    <3>4. \A e \in Dispatchers \ {d} : pass'[e] = pass[e]
        BY <1>0, <3>1
    <3>5. m \notin pass[d].todo /\ m \notin pass[d].published
        BY <2>1 DEF PassShape
    <3>6. PassesShrink
        BY ZenonT(60), <3>2, <3>3, <3>4, <3>5 DEF PassesShrink, Works
    <3>7. pass'[d] # pass[d]
        BY SMTT(60), <2>1, <3>2, <3>3
    <3>8. SettlesClaim(d, m, FailureStatus(d, m))
        BY Zenon, <2>1, <2>2, <3>1 DEF SettlesClaim, Works, FailureStatus
    <3> QED
        BY Zenon, <1>1, <2>1, <3>6, <3>7, <3>8 DEF record_failure
  <2>3. CASE ~ensure_active_claim(d, m)
    <3>1. pass' = [pass EXCEPT ![d] = NoPass] /\ UNCHANGED row
        BY SMTT(60), <1>1, <2>3 DEF record_failure
    <3>2. pass'[d] # pass[d]
        BY <1>0, <2>1, <3>1 DEF NoPass
    <3> QED
        BY ZenonT(60), <1>1, <3>1, <3>2, DropShrinks DEF record_failure
  <2> QED
      BY Zenon, <2>2, <2>3
<1>2. CASE complete(d, m)
  <2>1. m \in pass[d].published
      BY SMTT(60), <1>2, UpcomingSubset DEF complete
  <2>2. CASE ensure_active_claim(d, m)
    <3> DEFINE P == Without(d, m)
    <3>1. pass' = [pass EXCEPT ![d] = P] /\ row' = Settled(m, "Published")
        BY ZenonT(60), <1>0, <1>2, <2>2 DEF complete
    <3>2. /\ P \in Pass /\ P.todo = {} /\ P.published = pass[d].published \ {m}
          /\ P.failed = pass[d].failed \ {m} /\ pass[d].todo = {}
          /\ \A k \in Messages \ {m} : k \in pass[d].published \cup pass[d].failed
                                      => P.attempt[k] = pass[d].attempt[k]
        BY ZenonT(60), <1>2, WithoutShrinks DEF complete
    <3> HIDE DEF P
    <3>3. pass' \in [Dispatchers -> Pass] /\ pass'[d] = P
        BY Zenon, <1>0, <3>1, <3>2
    <3>4. \A e \in Dispatchers \ {d} : pass'[e] = pass[e]
        BY <1>0, <3>1
    <3>5. m \notin pass[d].todo /\ m \notin pass[d].failed
        BY Zenon, <2>1 DEF PassShape
    <3>6. PassesShrink
        BY ZenonT(60), <3>2, <3>3, <3>4, <3>5 DEF PassesShrink, Works
    <3>7. pass'[d] # pass[d]
        BY SMTT(60), <2>1, <3>2, <3>3
    <3>8. SettlesClaim(d, m, "Published")
        BY <2>1, <2>2, <3>1 DEF SettlesClaim, Works
    <3> QED
        BY Zenon, <1>2, <2>1, <3>6, <3>7, <3>8 DEF complete
  <2>3. CASE ~ensure_active_claim(d, m)
    <3>1. pass' = [pass EXCEPT ![d] = NoPass] /\ UNCHANGED row
        BY Zenon, <1>2, <2>3 DEF complete
    <3>2. pass'[d] # pass[d]
        BY <1>0, <2>1, <3>1 DEF NoPass
    <3> QED
        BY ZenonT(60), <1>2, <3>1, <3>2, DropShrinks DEF complete
  <2> QED
      BY SMTT(60), <2>2, <2>3
<1> QED
    BY Zenon, <1>1, <1>2

\* Settling a published or failed message keeps the invariant.
LEMMA SettleInv ==
    ASSUME Inv, NEW d \in Dispatchers, NEW m \in Messages,
           record_failure(d, m) \/ complete(d, m)
    PROVE  Inv'
<1> USE OutboxAssumption DEF OutboxAssumption
<1>0. /\ PassesShrink
      /\ UNCHANGED <<delivered, refused, holder, disruptions>>
    BY Zenon, SettleEffect
<1>1. CASE UNCHANGED row
  <2>1. RowsKeepClaims
      BY ZenonT(60), <1>1 DEF RowsKeepClaims, Inv, TypeOK, RowShape
  <2>2. TypeOK' /\ PublishedWasDelivered' /\ FailedOnlyAtCeiling'
      BY Zenon, <1>0, <1>1 DEF Inv, TypeOK, PassesShrink, PublishedWasDelivered, FailedOnlyAtCeiling
  <2> QED
      BY <1>0, <2>1, <2>2, ShrinkInv DEF Inv
<1>2. ASSUME NEW status, SettlesClaim(d, m, status),
             status = "Published" => delivered[m] > 0,
             status = "Failed" => m \in refused /\ row[m].attempts >= MaxAttempts
      PROVE  Inv'
  <2>1. /\ RowsKeepClaims
        /\ row'[m].status = status
        /\ \A k \in Messages \ {m} : row'[k] = row[k]
      BY ZenonT(60), <1>2, SettlesClaimRows
  <2>2. TypeOK'
      BY ZenonT(60), <1>0, <2>1 DEF Inv, TypeOK, PassesShrink, RowsKeepClaims
  <2>3. PublishedWasDelivered'
      BY SMTT(60), <1>0, <1>2, <2>1 DEF Inv, PublishedWasDelivered
  <2>4. FailedOnlyAtCeiling'
      BY ZenonT(60), <1>0, <1>2, <2>1 DEF Inv, FailedOnlyAtCeiling, RowsKeepClaims
  <2> QED
      BY <1>0, <2>1, <2>2, <2>3, <2>4, ShrinkInv DEF Inv
<1>3. CASE /\ m \in pass[d].failed
           /\ SettlesClaim(d, m, FailureStatus(d, m))
  <2>1. FailureStatus(d, m) # "Published"
      BY DEF FailureStatus
  <2>2. FailureStatus(d, m) = "Failed" => m \in refused /\ row[m].attempts >= MaxAttempts
      BY ZenonT(60), <1>3 DEF FailureStatus, SettlesClaim, ensure_active_claim, Inv, Evidence
  <2> QED
      BY <1>2, <1>3, <2>1, <2>2
<1>4. CASE m \in pass[d].published /\ SettlesClaim(d, m, "Published")
  <2>1. delivered[m] > 0
      BY <1>4 DEF Inv, Evidence
  <2> QED
      BY <1>2, <1>4, <2>1
<1> QED
    BY Zenon, <1>1, <1>3, <1>4, SettleEffect

\* A pass that crashes keeps the invariant.
LEMMA AbortInv ==
    ASSUME Inv, NEW d \in Dispatchers, Abort(d)
    PROVE  Inv'
<1> USE OutboxAssumption DEF OutboxAssumption
<1>1. PassesShrink
    BY ZenonT(60), DropShrinks DEF Abort, Inv
<1>2. RowsKeepClaims
    BY SMTT(60) DEF RowsKeepClaims, Inv, TypeOK, RowShape, Abort
<1>3. TypeOK' /\ PublishedWasDelivered' /\ FailedOnlyAtCeiling'
  <2>1. disruptions' \in 0..MaxDisruptions
      BY DEF Abort, Inv, TypeOK
  <2>2. TypeOK'
      BY ZenonT(60), <1>1, <2>1 DEF Abort, Inv, TypeOK, PassesShrink
  <2>3. PublishedWasDelivered' /\ FailedOnlyAtCeiling'
      BY ZenonT(60) DEF Abort, Inv, PublishedWasDelivered, FailedOnlyAtCeiling
  <2> QED
      BY <2>2, <2>3
<1>4. UNCHANGED <<delivered, refused, holder>>
    BY DEF Abort
<1> QED
    BY <1>1, <1>2, <1>3, <1>4, ShrinkInv DEF Inv

\* The passing of time keeps the invariant.
LEMMA TickInv ==
    ASSUME Inv, Tick
    PROVE  Inv'
<1> USE OutboxAssumption DEF OutboxAssumption
<1>1. row' \in [Messages -> Row]
  <2> SUFFICES ASSUME NEW m \in Messages
               PROVE  [row[m] EXCEPT !.lease = IF @ > 0 THEN @ - 1 ELSE 0] \in Row
      BY DEF Tick
  <2>1. row[m] \in Row
      BY DEF Inv, TypeOK
  <2>2. (IF row[m].lease > 0 THEN row[m].lease - 1 ELSE 0) \in 0..Lease
      BY <2>1 DEF Row
  <2> QED
      BY <2>1, <2>2 DEF Row
<1>2. \A m \in Messages : /\ row'[m].status = row[m].status
                          /\ row'[m].attempts = row[m].attempts
                          /\ row[m].lease = 0 => row'[m].lease = 0
    BY DEF Tick, Inv, TypeOK, Row
<1>3. RowsKeepClaims
    BY ZenonT(60), <1>1, <1>2 DEF RowsKeepClaims, Inv, RowShape
<1>4. pass' = pass /\ UNCHANGED <<delivered, refused, holder>>
    BY DEF Tick
<1>5. PassesShrink
    BY <1>4 DEF PassesShrink, Inv, TypeOK, Works
<1>6. disruptions' \in 0..MaxDisruptions
    BY SMTT(60) DEF Tick, Inv, TypeOK
<1>7. TypeOK' /\ PublishedWasDelivered' /\ FailedOnlyAtCeiling'
    BY SMTT(60), <1>1, <1>2, <1>4, <1>6
       DEF Inv, TypeOK, PublishedWasDelivered, FailedOnlyAtCeiling
<1> QED
    BY <1>3, <1>4, <1>5, <1>7, ShrinkInv DEF Inv

-----------------------------------------------------------------------------
(* The invariant is inductive.                                             *)

\* The oldest rows of a set are rows of the set.
LEMMA OldestSubset == \A S, n : Oldest(S, n) \subseteq S
BY DEF Oldest

\* Every claim of a dispatcher takes claimable rows only.
LEMMA DispatchClaims ==
    ASSUME NEW d \in Dispatchers,
           dispatch_batch(d) \/ \E ids \in SUBSET Messages : dispatch_ids(d, ids)
    PROVE  \E S \in SUBSET Claimable, polled \in BOOLEAN : claim(d, S, polled)
BY ZenonT(60), OldestSubset DEF dispatch_batch, dispatch_ids

\* Every step keeps the invariant.
LEMMA NextInv == Inv /\ [Next]_vars => Inv'
<1> SUFFICES ASSUME Inv, [Next]_vars PROVE Inv'
    OBVIOUS
<1>1. ASSUME NEW S \in SUBSET Messages, CommitPending(S) PROVE Inv'
    BY <1>1, CommitPendingInv
<1>2. ASSUME NEW d \in Dispatchers, NEW S \in SUBSET Messages, NEW left \in 0..Lease,
             CommitClaimed(d, S, left)
      PROVE  Inv'
    BY <1>2, CommitClaimedInv
<1>3. ASSUME NEW d \in Dispatchers,
             dispatch_batch(d) \/ \E ids \in SUBSET Messages : dispatch_ids(d, ids)
      PROVE  Inv'
    BY <1>3, DispatchClaims, ClaimInv
<1>4. ASSUME NEW d \in Dispatchers, Publish(d) PROVE Inv'
    BY <1>4, PublishInv DEF Publish
<1>5. ASSUME NEW d \in Dispatchers, Settle(d) PROVE Inv'
    BY <1>5, SettleInv DEF Settle
<1>6. ASSUME NEW d \in Dispatchers, Abort(d) PROVE Inv'
    BY <1>6, AbortInv
<1>7. CASE Tick
    BY <1>7, TickInv
<1>8. CASE UNCHANGED vars
    BY ZenonT(60), <1>8 DEF vars, Inv, TypeOK, RowShape, PassShape, ClaimsBehindRow, Evidence, Budget,
                Fence, PublishedWasDelivered, FailedOnlyAtCeiling, Works, Publishing
<1> QED
    BY <1>1, <1>2, <1>3, <1>4, <1>5, <1>6, <1>7, <1>8 DEF Next, Commit, Dispatch

\* The inductive invariant: rows, passes, claims and deliveries fit together in
\* every reachable state.
LEMMA Invariance == Spec => []Inv
BY InitInv, NextInv, PTL DEF Spec

-----------------------------------------------------------------------------
(* What the outbox guarantees.                                             *)

\* The state stays well formed: leases never exceed their length, every claim
\* names a known worker.
THEOREM TypeCorrect == Spec => []TypeOK
BY Invariance, PTL DEF Inv

\* complete() after publish: no row is Published whose message the transport
\* never accepted.
THEOREM PublishedWasDeliveredHolds == Spec => []PublishedWasDelivered
BY Invariance, PTL DEF Inv

\* Duplicates are bounded by the claims of the row, as counted by attempts.
THEOREM OneDeliveryPerAttemptHolds == Spec => []OneDeliveryPerAttempt
<1>1. Inv => OneDeliveryPerAttempt
    BY PublishingFinite DEF Inv, TypeOK, Row, Budget, OneDeliveryPerAttempt
<1> QED
    BY <1>1, Invariance, PTL

\* record_failure() parks a row only at the ceiling and after a real failure.
THEOREM FailedOnlyAtCeilingHolds == Spec => []FailedOnlyAtCeiling
BY Invariance, PTL DEF Inv

\* ensure_active_claim() admits at most one pass per row, also when passes
\* share a worker id.
THEOREM ExclusiveClaimHolds == Spec => []ExclusiveClaim
<1>1. Inv => ExclusiveClaim
    BY ZenonT(60) DEF Inv, Fence, ExclusiveClaim, ensure_active_claim
<1> QED
    BY <1>1, Invariance, PTL

-----------------------------------------------------------------------------
(* What one step may do to one row.                                        *)

RowStep(m) ==
    \/ row'[m] = row[m]
    \/ row[m].status = "Absent" /\ row'[m].status = "Pending"
    \/ row[m].status \in {"Absent", "Pending", "InFlight"} /\ row'[m].status = "InFlight"
    \/ /\ row[m].status = "InFlight"
       /\ holder[m] \in Dispatchers
       /\ pass'[holder[m]] # pass[holder[m]]

\* A settlement takes its row one step along its life cycle.
LEMMA SettleRowStep ==
    ASSUME Inv, NEW d \in Dispatchers, NEW k \in Messages,
           record_failure(d, k) \/ complete(d, k), NEW m \in Messages
    PROVE  RowStep(m)
<1>1. CASE UNCHANGED row
    BY <1>1 DEF RowStep
<1>2. ASSUME NEW status, SettlesClaim(d, k, status) PROVE RowStep(m)
  <2>1. m # k => row'[m] = row[m]
      BY SMTT(60), <1>2, SettlesClaimRows
  <2>2. row[k].status = "InFlight" /\ holder[k] = d
      BY SMTT(60), <1>2 DEF SettlesClaim, ensure_active_claim, Inv, Fence
  <2>3. pass'[d] # pass[d]
      BY Zenon, SettleEffect
  <2> QED
      BY <2>1, <2>2, <2>3 DEF RowStep
<1> QED
    BY Zenon, <1>1, <1>2, SettleEffect

\* Every step takes every row at most one step along its life cycle.
LEMMA EveryRowStep ==
    ASSUME Inv, [Next]_vars, NEW m \in Messages
    PROVE  RowStep(m)
<1>1. ASSUME NEW S \in SUBSET Messages, CommitPending(S) PROVE RowStep(m)
    BY ZenonT(60), <1>1 DEF CommitPending, RowStep, Inv, TypeOK, Row
<1>2. ASSUME NEW d \in Dispatchers, NEW S \in SUBSET Messages, NEW left \in 0..Lease,
             CommitClaimed(d, S, left)
      PROVE  RowStep(m)
    BY ZenonT(60), <1>2 DEF CommitClaimed, RowStep
<1>3. ASSUME NEW d \in Dispatchers,
             dispatch_batch(d) \/ \E ids \in SUBSET Messages : dispatch_ids(d, ids)
      PROVE  RowStep(m)
  <2>1. PICK S \in SUBSET Claimable, polled \in BOOLEAN : claim(d, S, polled)
      BY <1>3, DispatchClaims
  <2>2. m \in S => row[m].status \in {"Pending", "InFlight"}
      BY DEF Claimable, is_claimable_at, has_expired_lease_at
  <2> QED
      BY Zenon, <2>1, <2>2 DEF claim, RowStep
<1>4. ASSUME NEW d \in Dispatchers, Publish(d) PROVE RowStep(m)
    BY <1>4 DEF Publish, PublishOk, PublishErr, RowStep
<1>5. ASSUME NEW d \in Dispatchers, Settle(d) PROVE RowStep(m)
    BY <1>5, SettleRowStep DEF Settle
<1>6. ASSUME NEW d \in Dispatchers, Abort(d) PROVE RowStep(m)
    BY <1>6 DEF Abort, RowStep
<1>7. CASE Tick
  <2>1. row[m] \in Row /\ (row[m].status # "InFlight" => row[m].lease = 0)
      BY DEF Inv, TypeOK, RowShape
  <2>2. row'[m] = [row[m] EXCEPT !.lease = IF @ > 0 THEN @ - 1 ELSE 0]
      BY <1>7 DEF Tick
  <2>3. row[m].lease = 0 => row'[m] = row[m]
      BY <2>1, <2>2 DEF Row
  <2>4. row'[m].status = row[m].status
      BY <2>1, <2>2 DEF Row
  <2> QED
      BY <2>1, <2>3, <2>4 DEF RowStep
<1>8. CASE UNCHANGED vars
    BY <1>8 DEF vars, RowStep
<1> QED
    BY <1>1, <1>2, <1>3, <1>4, <1>5, <1>6, <1>7, <1>8 DEF Next, Commit, Dispatch

\* A row leaves InFlight only by a step of the pass that claimed it last.
THEOREM SettledByItsHolderHolds == Spec => SettledByItsHolder
<1> DEFINE A == \A m \in Messages :
                  row[m].status = "InFlight" /\ row'[m].status # "InFlight"
                  => holder[m] \in Dispatchers /\ pass'[holder[m]] # pass[holder[m]]
<1>1. Inv /\ [Next]_vars => [A]_vars
    BY EveryRowStep DEF RowStep
<1> QED
    BY <1>1, Invariance, PTL DEF Spec, SettledByItsHolder

\* Published and Failed rows never change again.
THEOREM TerminalRowsFrozenHolds == Spec => TerminalRowsFrozen
<1> DEFINE A == \A m \in Messages :
                  row[m].status \in {"Published", "Failed"} => row'[m] = row[m]
<1>1. Inv /\ [Next]_vars => [A]_vars
    BY EveryRowStep DEF RowStep
<1> QED
    BY <1>1, Invariance, PTL DEF Spec, TerminalRowsFrozen

-----------------------------------------------------------------------------
(* The outbox implements its contract.                                     *)

\* An outbox without rows owes nothing.
LEMMA ContractInits == Init => Contract!ContractInit
BY DEF Init, Contract!ContractInit, DebtOf

\* A step that keeps every debt, delivery and error is a stutter of the contract.
LEMMA ContractStutters ==
    ASSUME \A m \in Messages : DebtOf(row[m].status)' = DebtOf(row[m].status),
           UNCHANGED <<delivered, refused>>
    PROVE  UNCHANGED Contract!contractVars
BY SMTT(60) DEF Contract!contractVars

\* Committing rows is the step in which the contract comes to owe them.
LEMMA CommitOwes ==
    ASSUME Inv, NEW S \in SUBSET Messages,
           \A m \in S : row[m].status = "Absent" /\ row'[m].status \in {"Pending", "InFlight"},
           \A m \in Messages \ S : row'[m] = row[m],
           UNCHANGED <<delivered, refused>>
    PROVE  Contract!Owe(S)
<1>1. \A m \in S : DebtOf(row[m].status) = "uncommitted" /\ DebtOf(row'[m].status) = "owed"
    BY DEF DebtOf
<1>2. \A m \in Messages \ S : DebtOf(row'[m].status) = DebtOf(row[m].status)
    OBVIOUS
<1> HIDE DEF DebtOf
<1> QED
    BY Zenon, <1>1, <1>2 DEF Contract!Owe

\* A publish is an attempt of the contract.
LEMMA PublishAttempts ==
    ASSUME Inv, NEW d \in Dispatchers, Publish(d)
    PROVE  Contract!ContractNext
<1> PICK m \in Messages : PublishOk(d, m) \/ \E accepted \in BOOLEAN : PublishErr(d, m, accepted)
    BY DEF Publish
<1>1. row[m].status # "Absent" /\ row[m].status \in Statuses
    BY UpcomingSubset DEF PublishOk, PublishErr, Inv, ClaimsBehindRow, Works, TypeOK, Row
<1>2. DebtOf(row[m].status) # "uncommitted"
    BY <1>1 DEF DebtOf, Statuses
<1>3. CASE PublishOk(d, m)
  <2>1. Contract!Attempt(m, TRUE, FALSE)
      BY <1>2, <1>3 DEF PublishOk, Contract!Attempt, Inv, TypeOK
  <2> QED
      BY ZenonT(60), <2>1 DEF Contract!ContractNext
<1>4. ASSUME NEW accepted \in BOOLEAN, PublishErr(d, m, accepted)
      PROVE  Contract!ContractNext
  <2>1. Contract!Attempt(m, accepted, TRUE)
      BY SMTT(60), <1>2, <1>4 DEF PublishErr, Contract!Attempt, Inv, TypeOK
  <2> QED
      BY ZenonT(60), <2>1 DEF Contract!ContractNext
<1> QED
    BY <1>3, <1>4

\* A settled claim discharges the debt, writes it off, or leaves it owed.
LEMMA SettleSettles ==
    ASSUME Inv, NEW d \in Dispatchers, NEW m \in Messages,
           record_failure(d, m) \/ complete(d, m)
    PROVE  Contract!ContractNext \/ UNCHANGED Contract!contractVars
<1>0. UNCHANGED <<delivered, refused>>
    BY Zenon, SettleEffect
<1>1. CASE UNCHANGED row
    BY <1>0, <1>1, ContractStutters DEF DebtOf
<1>2. ASSUME NEW status, SettlesClaim(d, m, status)
      PROVE  /\ DebtOf(row[m].status) = "owed"
             /\ row'[m].status = status
             /\ \A k \in Messages \ {m} : row'[k] = row[k]
    BY <1>2, SettlesClaimRows DEF SettlesClaim, ensure_active_claim, DebtOf
<1>3. CASE /\ m \in pass[d].failed
           /\ SettlesClaim(d, m, FailureStatus(d, m))
  <2>0. /\ DebtOf(row[m].status) = "owed"
        /\ row'[m].status = FailureStatus(d, m)
        /\ \A k \in Messages \ {m} : row'[k] = row[k]
      BY Zenon, <1>2, <1>3
  <2>1. CASE FailureStatus(d, m) = "Failed"
    <3>1. m \in refused
        BY Zenon, <1>3 DEF Inv, Evidence
    <3>2. DebtOf(row'[m].status) = "written off"
        BY <2>0, <2>1 DEF DebtOf
    <3>3. Contract!WriteOff(m)
        BY ZenonT(60), <1>0, <2>0, <3>1, <3>2 DEF Contract!WriteOff
    <3> QED
        BY <3>3 DEF Contract!ContractNext
  <2>2. CASE FailureStatus(d, m) # "Failed"
    <3>1. DebtOf(row'[m].status) = "owed"
        BY SMTT(60), <2>0, <2>2 DEF DebtOf, FailureStatus
    <3>2. \A k \in Messages : DebtOf(row[k].status)' = DebtOf(row[k].status)
        BY Zenon, <2>0, <3>1
    <3> QED
        BY <1>0, <3>2, ContractStutters
  <2> QED
      BY SMTT(60), <2>1, <2>2
<1>4. CASE m \in pass[d].published /\ SettlesClaim(d, m, "Published")
  <2>0. /\ DebtOf(row[m].status) = "owed"
        /\ row'[m].status = "Published"
        /\ \A k \in Messages \ {m} : row'[k] = row[k]
      BY Zenon, <1>2, <1>4
  <2>1. delivered[m] > 0
      BY Zenon, <1>4 DEF Inv, Evidence
  <2>2. DebtOf(row'[m].status) = "discharged"
      BY <2>0 DEF DebtOf
  <2>3. Contract!Discharge(m)
      BY ZenonT(60), <1>0, <2>0, <2>1, <2>2 DEF Contract!Discharge
  <2> QED
      BY ZenonT(60), <2>3 DEF Contract!ContractNext
<1> QED
    BY Zenon, <1>1, <1>3, <1>4, SettleEffect

\* Every step is a step, or a stutter, of the contract.
LEMMA ContractSteps == Inv /\ [Next]_vars => [Contract!ContractNext]_Contract!contractVars
<1> SUFFICES ASSUME Inv, [Next]_vars
             PROVE  Contract!ContractNext \/ UNCHANGED Contract!contractVars
    OBVIOUS
<1>1. ASSUME NEW S \in SUBSET Messages, CommitPending(S) PROVE Contract!ContractNext
  <2>1. Contract!Owe(S)
    <3>1. /\ \A m \in S : row[m].status = "Absent" /\ row'[m].status \in {"Pending", "InFlight"}
          /\ \A m \in Messages \ S : row'[m] = row[m]
        BY <1>1 DEF CommitPending, Inv, TypeOK, Row
    <3> QED
        BY <1>1, <3>1, CommitOwes DEF CommitPending
  <2> QED
      BY <2>1 DEF Contract!ContractNext
<1>2. ASSUME NEW d \in Dispatchers, NEW S \in SUBSET Messages, NEW left \in 0..Lease,
             CommitClaimed(d, S, left)
      PROVE  Contract!ContractNext
  <2>1. Contract!Owe(S)
    <3>1. /\ \A m \in S : row[m].status = "Absent" /\ row'[m].status \in {"Pending", "InFlight"}
          /\ \A m \in Messages \ S : row'[m] = row[m]
        BY Zenon, <1>2 DEF CommitClaimed
    <3> QED
        BY Zenon, <1>2, <3>1, CommitOwes DEF CommitClaimed
  <2> QED
      BY ZenonT(60), <2>1 DEF Contract!ContractNext
<1>3. ASSUME NEW d \in Dispatchers,
             dispatch_batch(d) \/ \E ids \in SUBSET Messages : dispatch_ids(d, ids)
      PROVE  UNCHANGED Contract!contractVars
  <2>1. PICK S \in SUBSET Claimable, polled \in BOOLEAN : claim(d, S, polled)
      BY ZenonT(60), <1>3, DispatchClaims
  <2>2. \A m \in S : row[m].status \in {"Pending", "InFlight"} /\ row'[m].status = "InFlight"
      BY Zenon, <2>1 DEF claim, Claimable, is_claimable_at, has_expired_lease_at
  <2>3. \A m \in Messages \ S : row'[m] = row[m]
      BY Zenon, <2>1 DEF claim
  <2>4. \A m \in Messages : DebtOf(row[m].status)' = DebtOf(row[m].status)
      BY ZenonT(60), <2>2, <2>3 DEF DebtOf
  <2> QED
      BY Zenon, <2>1, <2>4, ContractStutters DEF claim
<1>4. ASSUME NEW d \in Dispatchers, Publish(d) PROVE Contract!ContractNext
    BY <1>4, PublishAttempts
<1>5. ASSUME NEW d \in Dispatchers, Settle(d)
      PROVE  Contract!ContractNext \/ UNCHANGED Contract!contractVars
    BY <1>5, SettleSettles DEF Settle
<1>6. ASSUME NEW d \in Dispatchers, Abort(d) PROVE UNCHANGED Contract!contractVars
    BY <1>6 DEF Abort, Contract!contractVars
<1>7. ASSUME Tick PROVE UNCHANGED Contract!contractVars
  <2>1. \A m \in Messages : row'[m].status = row[m].status
      BY <1>7 DEF Tick, Inv, TypeOK, Row
  <2>2. \A m \in Messages : DebtOf(row[m].status)' = DebtOf(row[m].status)
      BY <2>1
  <2> QED
      BY <1>7, <2>2, ContractStutters DEF Tick
<1>8. ASSUME UNCHANGED vars PROVE UNCHANGED Contract!contractVars
    BY <1>8 DEF vars, Contract!contractVars
<1> QED
    BY <1>1, <1>2, <1>3, <1>4, <1>5, <1>6, <1>7, <1>8 DEF Next, Commit, Dispatch

\* Claims, leases, retries and crashes stay within at-least-once delivery with
\* final verdicts.
THEOREM OutboxImplementsContract == Spec => ImplementsContract
BY ContractInits, ContractSteps, Invariance, PTL
   DEF Spec, ImplementsContract, Contract!ContractSpec
=============================================================================
