-------------------------- MODULE SqlBusLogProofs ---------------------------
(***************************************************************************)
(* Proofs about the ordered log, for any publishers, consumers, groups,    *)
(* messages, batch size and deployments, and any bounds.                   *)
(*                                                                         *)
(* The log is intact while its last entry is at the high-water mark of the *)
(* identity.  As long as it is, whatever was ever read of the latest epoch *)
(* is at or before the last entry, so that a new entry comes after it all: *)
(* after every cursor a handler was given, every buffered row and every    *)
(* offset.  A log that has lost its tail takes no entry until it is reset. *)
(***************************************************************************)
EXTENDS SqlBusLog, FiniteSetTheorems, WellFoundedInduction, TLAPS

Txs == [seq : Positions, message : Messages, locks : BOOLEAN,
        identity : [epoch : Epochs, highWater : 0..MaxSeq], installs : BOOLEAN]
Places == [at : {"Stopped", "Recv", "Read", "Handler"}, epoch : Epochs \cup {NoEpoch},
           buffer : SUBSET Row, nacked : BOOLEAN, current : Row \cup {NoRow}]
Offsets == [epoch : Epochs \cup {NoEpoch}, seq : 0..MaxSeq]

Intact == identity.highWater <= log_max

\* An open append holds the lock, and what it found when it began still holds.
AppendOK(p) ==
    /\ tx[p] \in Txs /\ tx[p].locks /\ Intact
    /\ nextSeq = tx[p].seq + 1
    /\ \A s \in Taken : s < tx[p].seq
    /\ tx[p].identity.highWater = log_max
    /\ tx[p].identity.epoch \in {minted, minted + 1}
    /\ identity.epoch # NoEpoch => tx[p].identity.epoch = identity.epoch /\ ~tx[p].installs
    /\ identity.epoch = NoEpoch => tx[p].installs

OneAppend ==
    /\ \A p \in Publishers : tx[p] # NoTx => AppendOK(p)
    /\ \A p, q \in Publishers : tx[p] # NoTx /\ tx[q] # NoTx => p = q

\* The identity has the latest epoch, if it is there, and nothing has a later one.
LatestEpoch ==
    /\ identity.epoch \in {NoEpoch, minted}
    /\ \A g \in Groups : offset[g].epoch <= minted
    /\ \A c \in Consumers : source[c].epoch <= minted
    /\ \A v \in seen : v.epoch <= minted
    /\ \A f \in forwarded : f.epoch <= minted

\* The mark is never behind the log, and which logs are not intact.
HighWater ==
    /\ \A s \in Taken : s < nextSeq
    /\ identity.epoch # NoEpoch => log_max <= identity.highWater
    /\ deployment.lost = "Identity" => Intact
    /\ deployment.lost = "Tail" /\ identity.epoch = NoEpoch => Taken = {}

\* Somebody has seen m under this cursor, or may come to see it.
ReadIn(cursors, sources, e, s, m) ==
    \/ [epoch |-> e, seq |-> s, message |-> m] \in cursors
    \/ \E c \in Consumers : sources[c].epoch = e /\ [seq |-> s, message |-> m] \in sources[c].buffer

Read(e, s, m) == ReadIn(seen, source, e, s, m)

Known(e, s, m) == Read(e, s, m) \/ (e = minted /\ s \in Taken /\ log[s] = m)

KnownOnce ==
    \A e \in Epochs, s \in Positions, m, n \in Messages : Known(e, s, m) /\ Known(e, s, n) => m = n

\* While the log is intact, what was read of the latest epoch is behind its end.
ReadIsBehind ==
    Intact => \A s \in Positions, m \in Messages : Read(minted, s, m) => s <= log_max

OffsetIsBehind ==
    /\ \A g \in Groups : offset[g].epoch = NoEpoch => offset[g].seq = 0
    /\ Intact => \A g \in Groups : offset[g].epoch = identity.epoch => offset[g].seq <= log_max

\* Where a consumer is in its run, and that its current row has been seen.
Placed(r) ==
    /\ r.at = "Stopped" => r = Stopped
    /\ r.at # "Stopped" => r.epoch \in Epochs
    /\ r.at = "Read" => r.buffer = {}
    /\ r.at = "Handler" => /\ r.current \in Row /\ r.nacked
                           /\ [epoch |-> r.epoch, seq |-> r.current.seq,
                               message |-> r.current.message] \in seen

Settled(g, e, s) == [group |-> g, epoch |-> e, seq |-> s] \in forwarded

\* Entries g wants that come before position n, of the latest epoch.
Before(g, n) == {s \in Taken : s < n /\ log[s] \in Wanted[g]}

\* What is behind the current row is settled, and so is what is behind a row of the
\* buffer, but for the rows before that one.
InOrder(c) ==
    source[c].epoch = minted =>
        /\ source[c].at = "Handler" =>
               \A s \in Before(GroupOf[c], source[c].current.seq) : Settled(GroupOf[c], minted, s)
        /\ source[c].at = "Handler" \/ (source[c].at = "Recv" /\ ~source[c].nacked) =>
               \A r \in source[c].buffer : \A s \in Before(GroupOf[c], r.seq) :
                   \/ Settled(GroupOf[c], minted, s)
                   \/ \E q \in source[c].buffer : q.seq = s
                   \/ source[c].at = "Handler" /\ source[c].current.seq = s

Acknowledged ==
    /\ \A s, t \in Taken : StableId[log[s]] # NoId /\ StableId[log[s]] = StableId[log[t]] => s = t
    /\ \A m \in acked : StableId[m] # NoId => \E s \in Taken : log[s] = m

Inv ==
    /\ TypeOK
    /\ deployment \in Deployments
    /\ OneAppend
    /\ LatestEpoch
    /\ HighWater
    /\ KnownOnce
    /\ ReadIsBehind
    /\ OffsetIsBehind
    /\ NothingSkipped
    /\ \A c \in Consumers : Placed(source[c]) /\ InOrder(c)
    /\ Acknowledged

-----------------------------------------------------------------------------
(* Positions.                                                              *)

\* Every set of natural numbers that is not empty has a least element.
LEMMA Least ==
    ASSUME NEW S \in SUBSET Nat, S # {}
    PROVE  \E n \in S : \A m \in S : n <= m
<1> DEFINE R == OpToRel(<, Nat)
<1>1. IsWellFoundedOn(R, Nat)
    BY Zenon, NatLessThanWellFounded
<1>2. \A m, n \in Nat : m < n => <<m, n>> \in R
    BY DEF OpToRel
<1> HIDE DEF R
<1>3. \E n \in S : \A m \in S : ~(<<m, n>> \in R)
    BY Zenon, <1>1, WFMin
<1>4. PICK n \in S : \A m \in S : ~(<<m, n>> \in R)
    BY <1>3
<1>5. \A m \in S : ~(m < n)
    BY Zenon, <1>2, <1>4
<1>6. \A m \in S : n <= m
    BY <1>5
<1> QED
    BY <1>6

Last(S) == IF S = {} THEN 0 ELSE CHOOSE s \in S : \A t \in S : t <= s

\* A set of positions has a last one.
LEMMA LastOK ==
    ASSUME NEW S \in SUBSET Positions
    PROVE  /\ Last(S) \in 0..MaxSeq
           /\ \A s \in S : s <= Last(S)
           /\ S # {} => Last(S) \in S
<1>1. MaxSeq \in Nat
    BY LogAssumption DEF LogAssumption
<1>2. CASE S = {}
    BY <1>1, <1>2 DEF Last
<1>3. CASE S # {}
  <2> DEFINE D == {MaxSeq - s : s \in S}
  <2>1. D \in SUBSET Nat /\ D # {}
    <3>1. ASSUME NEW s \in S PROVE MaxSeq - s \in Nat
      <4>1. s \in 1..MaxSeq
          BY DEF Positions
      <4> HIDE DEF D
      <4> QED
          BY <1>1, <4>1
    <3> QED
        BY Zenon, <1>3, <3>1
  <2>2. PICK d \in D : \A e \in D : d <= e
    <3> HIDE DEF D
    <3> QED
        BY <2>1, Least
  <2>3. PICK s \in S : d = MaxSeq - s
      BY <2>2
  <2>4. \A t \in S : t <= s
    <3>1. ASSUME NEW t \in S PROVE t <= s
      <4>1. MaxSeq - t \in D
          OBVIOUS
      <4>2. MaxSeq - s <= MaxSeq - t
          BY <2>2, <2>3, <4>1
      <4>3. s \in Nat /\ t \in Nat
          BY DEF Positions
      <4> QED
          BY <1>1, <4>2, <4>3
    <3> QED
        BY <3>1
  <2>5. /\ Last(S) \in S /\ \A t \in S : t <= Last(S)
      BY <1>3, <2>4 DEF Last
  <2>6. \A t \in Positions : t \in 0..MaxSeq
      BY <1>1 DEF Positions
  <2> HIDE DEF D
  <2> QED
      BY <2>5, <2>6
<1> QED
    BY <1>2, <1>3

\* The last entry of the log.
LEMMA LogMaxOK ==
    /\ log_max \in 0..MaxSeq /\ \A s \in Taken : s <= log_max
    /\ Taken # {} => log_max \in Taken
<1>1. Taken \in SUBSET Positions /\ log_max = Last(Taken)
    BY DEF Taken, log_max, Last
<1> QED
    BY <1>1, LastOK

\* The last entry after a step.
LEMMA LogMaxOKNext ==
    /\ log_max' \in 0..MaxSeq /\ \A s \in Taken' : s <= log_max'
    /\ Taken' # {} => log_max' \in Taken'
<1>1. Taken' \in SUBSET Positions /\ log_max' = Last(Taken')
    BY DEF Taken, log_max, Last
<1> QED
    BY <1>1, LastOK

\* The bounds are numbers, and so are positions and epochs.
LEMMA Numbers ==
    /\ MaxSeq \in Nat /\ MaxEpoch \in Nat
    /\ \A s \in Positions : s \in Nat /\ s > 0 /\ s <= MaxSeq
    /\ \A e \in Epochs : e \in Nat /\ e > 0 /\ e <= MaxEpoch
    /\ \A n \in 0..MaxSeq : n \in Nat
BY LogAssumption DEF LogAssumption, Positions, Epochs

\* Facts about numbers.
LEMMA LessOrNot ==
    /\ \A a, b \in Nat : ~(a <= b /\ b < a)
    /\ \A a, b \in Nat : ~(a > b) => a <= b
    /\ \A a, b \in Nat : a <= b => a = b \/ a < b
    /\ \A a, b \in Nat : a <= b /\ b <= a => a = b
    /\ \A a \in Nat : 0 <= a /\ ~(a > 0 /\ a <= 0)
OBVIOUS

\* The order of numbers is transitive.
LEMMA LessTrans ==
    /\ \A a, b, c \in Nat : a < b /\ b < c => a < c
    /\ \A a, b, c \in Nat : a <= b /\ b <= c => a <= c
    /\ \A a, b, c \in Nat : a < b /\ b <= c => a < c
OBVIOUS

\* A number and the next one.
LEMMA Successor ==
    /\ \A a \in Nat : a + 1 \in Nat /\ a <= a /\ a <= a + 1 /\ a < a + 1 /\ a # a + 1
    /\ \A a, b \in Nat : (a < b => a < b + 1) /\ (a <= b => a < b + 1)
OBVIOUS

\* The larger of two numbers.
LEMMA LargerOK ==
    ASSUME NEW a \in Nat, NEW b \in Nat
    PROVE  /\ Larger(a, b) \in Nat /\ Larger(a, b) \in {a, b} /\ a <= Larger(a, b) /\ b <= Larger(a, b)
           /\ a <= b => Larger(a, b) = b
           /\ b <= a => Larger(a, b) = a
BY DEF Larger

\* No epoch is not an epoch, and there are finitely many positions.
LEMMA Bounds ==
    /\ NoEpoch \notin Epochs /\ IsFiniteSet(Positions)
    /\ \A c \in Consumers : GroupOf[c] \in Groups
    /\ \A s \in Positions : s \in 0..MaxSeq /\ s \in 1..(MaxSeq + 1)
    /\ \A e \in Epochs : e \in 0..MaxEpoch
    /\ 0 \in 0..MaxSeq /\ 0 \in 0..MaxEpoch
<1>1. NoEpoch \notin Epochs
    BY Numbers DEF NoEpoch
<1>2. IsFiniteSet(Positions)
    BY Numbers, FS_Interval DEF Positions
<1>3. \A c \in Consumers : GroupOf[c] \in Groups
    BY LogAssumption DEF LogAssumption
<1>4. \A s \in Positions : s \in 0..MaxSeq /\ s \in 1..(MaxSeq + 1)
    BY Numbers
<1>5. \A e \in Epochs : e \in 0..MaxEpoch
    BY Numbers
<1>6. 0 \in 0..MaxSeq /\ 0 \in 0..MaxEpoch
    BY Numbers
<1> QED
    BY Zenon, <1>1, <1>2, <1>3, <1>4, <1>5, <1>6

\* Offsets have their type when there are none.
LEMMA NoOffsetsOK ==
    /\ NoOffsets \in [Groups -> Offsets]
    /\ \A g \in Groups : NoOffsets[g].epoch = NoEpoch /\ NoOffsets[g].seq = 0
BY Bounds DEF NoOffsets, Offsets

-----------------------------------------------------------------------------
(* Steps of the tables.                                                    *)

\* What the types say of single values.
LEMMA TypesOK ==
    ASSUME TypeOK
    PROVE  /\ identity.epoch \in Epochs \cup {NoEpoch} /\ identity.highWater \in 0..MaxSeq
           /\ minted \in Nat /\ nextSeq \in Nat
           /\ Taken \subseteq Positions /\ \A s \in Taken : log[s] \in Messages
           /\ \A g \in Groups : offset[g] \in Offsets
           /\ \A c \in Consumers : source[c] \in Places
           /\ \A p \in Publishers : tx[p] = NoTx \/ tx[p] \in Txs
<1>1. Taken \subseteq Positions /\ \A s \in Taken : log[s] \in Messages
    BY DEF TypeOK, Taken
<1>2. minted \in Nat /\ nextSeq \in Nat
    BY Numbers DEF TypeOK
<1>3. identity.epoch \in Epochs \cup {NoEpoch} /\ identity.highWater \in 0..MaxSeq
    BY DEF TypeOK
<1>4. /\ \A g \in Groups : offset[g] \in Offsets
      /\ \A c \in Consumers : source[c] \in Places
      /\ \A p \in Publishers : tx[p] = NoTx \/ tx[p] \in Txs
    BY DEF TypeOK, Offsets, Places, Txs
<1> QED
    BY <1>1, <1>2, <1>3, <1>4

\* The entries after a step of the same epoch: those there were, and new ones at
\* the end of an intact log.
Extends ==
    /\ minted' = minted
    /\ \A s \in Taken' : (s \in Taken /\ log'[s] = log[s]) \/ (Intact /\ s > log_max)
    /\ Intact' => Intact /\ log_max <= log_max'

\* Offsets stay with the identity they count in.
OffsetsStay ==
    \/ offset' = NoOffsets
    \/ offset' = offset /\ identity'.epoch \in {identity.epoch, NoEpoch}

\* A step that starts an epoch, with the entries there are, or none.
Begins == minted' = minted + 1 /\ offset' = NoOffsets

\* No row comes into a buffer.
ReadsNothing ==
    \A c \in Consumers : \/ source'[c].buffer = {}
                         \/ /\ source'[c].epoch = source[c].epoch
                            /\ source'[c].buffer \subseteq source[c].buffer

\* Consumers stay as they are, or end up without rows that are still good.
Quiet ==
    \A c \in Consumers :
        \/ source'[c] = source[c]
        \/ /\ source'[c].at # "Handler"
           /\ \/ source'[c].buffer = {}
              \/ /\ source'[c].nacked /\ source'[c].epoch = source[c].epoch
                 /\ source'[c].buffer \subseteq source[c].buffer

\* Nothing is read when no row comes into a buffer.
LEMMA ReadKeeps ==
    ASSUME ReadsNothing, UNCHANGED seen, NEW e, NEW s, NEW m, ReadIn(seen', source', e, s, m)
    PROVE  Read(e, s, m)
BY DEF Read, ReadIn, ReadsNothing

\* What was read has an epoch that was there.
LEMMA ReadHasEpoch ==
    ASSUME LatestEpoch, NEW e, NEW s, NEW m, Read(e, s, m)
    PROVE  e <= minted
<1>1. CASE [epoch |-> e, seq |-> s, message |-> m] \in seen
  <2> DEFINE v == [epoch |-> e, seq |-> s, message |-> m]
  <2>1. v.epoch = e
      OBVIOUS
  <2> HIDE DEF v
  <2>2. v.epoch <= minted
    <3>1. v \in seen
        BY <1>1 DEF v
    <3> QED
        BY <3>1 DEF LatestEpoch
  <2> QED
      BY <2>1, <2>2
<1>2. CASE \E c \in Consumers : source[c].epoch = e /\ [seq |-> s, message |-> m] \in source[c].buffer
    BY <1>2 DEF LatestEpoch
<1> QED
    BY <1>1, <1>2 DEF Read, ReadIn

\* A cursor keeps its meaning when the log grows, starts again, or loses its end.
LEMMA CursorsKeep ==
    ASSUME TypeOK, TypeOK', LatestEpoch, KnownOnce, ReadIsBehind, ReadsNothing, UNCHANGED seen,
           Extends \/ Begins
    PROVE  KnownOnce' /\ ReadIsBehind'
<1>1. minted \in Nat /\ Taken \subseteq Positions /\ Taken' \subseteq Positions
    BY SMTT(60), TypesOK, Numbers DEF TypeOK, Taken
<1>2. \A e, s, m : ReadIn(seen', source', e, s, m) => Read(e, s, m)
    BY ReadKeeps
<1>3. \A e, s, m : Read(e, s, m) => e <= minted
    BY ReadHasEpoch
<1>4. log_max \in Nat /\ log_max' \in Nat
    BY LogMaxOK, LogMaxOKNext, Numbers
<1>5. CASE Begins
  <2>1. minted' = minted + 1
      BY <1>5 DEF Begins
  <2>2. \A s, m : ~ReadIn(seen', source', minted', s, m)
    <3>1. ASSUME NEW s, NEW m, ReadIn(seen', source', minted', s, m) PROVE FALSE
      <4>1. Read(minted', s, m)
          BY <1>2, <3>1
      <4>2. minted' <= minted
          BY <1>3, <4>1
      <4> QED
          BY <1>1, <2>1, <4>2
    <3> QED
        BY <3>1
  <2>3. ReadIsBehind'
      BY <2>2 DEF ReadIsBehind, Read
  <2>4. ASSUME NEW e \in Epochs, NEW s \in Positions, NEW m \in Messages, NEW n \in Messages,
               Known(e, s, m)', Known(e, s, n)'
        PROVE  m = n
    <3>1. CASE e = minted'
        BY <2>2, <2>4, <3>1 DEF Known, Read
    <3>2. CASE e # minted'
      <4>1. Read(e, s, m) /\ Read(e, s, n)
          BY <1>2, <2>4, <3>2 DEF Known, Read
      <4> QED
          BY <2>4, <4>1 DEF KnownOnce, Known
    <3> QED
        BY <3>1, <3>2
  <2> QED
      BY <2>3, <2>4 DEF KnownOnce
<1>6. CASE Extends
  <2>1. /\ minted' = minted
        /\ \A s \in Taken' : (s \in Taken /\ log'[s] = log[s]) \/ (Intact /\ s > log_max)
        /\ Intact' => Intact /\ log_max <= log_max'
      BY <1>6 DEF Extends
  <2>2. ReadIsBehind'
    <3>1. ASSUME Intact', NEW s \in Positions, NEW m \in Messages,
                 ReadIn(seen', source', minted', s, m)
          PROVE  s <= log_max'
      <4>1. Read(minted, s, m)
          BY <1>2, <2>1, <3>1
      <4>2. s <= log_max /\ log_max <= log_max'
          BY <2>1, <3>1, <4>1 DEF ReadIsBehind
      <4> QED
          BY <1>4, <4>2, Numbers
    <3> QED
        BY <3>1 DEF ReadIsBehind, Read
  <2>3. ASSUME NEW e \in Epochs, NEW s \in Positions, NEW m \in Messages, Known(e, s, m)'
        PROVE  \/ Known(e, s, m)
               \/ e = minted /\ s \in Taken' /\ log'[s] = m /\ Intact /\ s > log_max
      BY <1>2, <2>1, <2>3 DEF Known, Read
  <2>4. ASSUME NEW e \in Epochs, NEW s \in Positions, NEW m \in Messages, Known(e, s, m),
               e = minted, Intact, s > log_max
        PROVE  FALSE
    <3>1. s <= log_max
      <4>1. CASE Read(e, s, m)
          BY <2>4, <4>1 DEF ReadIsBehind
      <4>2. CASE s \in Taken
          BY <4>2, LogMaxOK
      <4> QED
          BY <2>4, <4>1, <4>2 DEF Known
    <3> QED
        BY <1>4, <2>4, <3>1, Numbers
  <2>5. ASSUME NEW e \in Epochs, NEW s \in Positions, NEW m \in Messages, NEW n \in Messages,
               Known(e, s, m)', Known(e, s, n)'
        PROVE  m = n
    <3>1. CASE Known(e, s, m) /\ Known(e, s, n)
        BY <3>1 DEF KnownOnce
    <3>2. CASE ~(Known(e, s, m) /\ Known(e, s, n))
      <4>1. e = minted /\ Intact /\ s > log_max
          BY <2>3, <2>5, <3>2
      <4>2. ~Known(e, s, m) /\ ~Known(e, s, n)
          BY <2>4, <4>1
      <4>3. log'[s] = m
          BY <2>3, <2>5, <4>2
      <4>4. log'[s] = n
          BY <2>3, <2>5, <4>2
      <4> QED
          BY <4>3, <4>4
    <3> QED
        BY <3>1, <3>2
  <2> QED
      BY <2>2, <2>5 DEF KnownOnce
<1> QED
    BY <1>5, <1>6

\* Neither an offset nor a row that is being handled is overtaken by such a step.
LEMMA OffsetsKeep ==
    ASSUME TypeOK, TypeOK', OffsetIsBehind, NothingSkipped, UNCHANGED forwarded,
           (Extends /\ OffsetsStay) \/ Begins
    PROVE  OffsetIsBehind' /\ NothingSkipped'
<1>1. log_max \in Nat /\ log_max' \in Nat /\ Taken \subseteq Positions /\ Taken' \subseteq Positions
    BY LogMaxOK, LogMaxOKNext, Numbers DEF Taken
<1>2. CASE offset' = NoOffsets
  <2>1. \A g \in Groups : offset'[g].epoch = NoEpoch /\ offset'[g].seq = 0
      BY <1>2 DEF NoOffsets
  <2> QED
      BY <1>1, <2>1 DEF OffsetIsBehind, NothingSkipped
<1>3. CASE offset' # NoOffsets
  <2>1. /\ offset' = offset /\ identity'.epoch \in {identity.epoch, NoEpoch}
        /\ \A s \in Taken' : (s \in Taken /\ log'[s] = log[s]) \/ (Intact /\ s > log_max)
        /\ Intact' => Intact /\ log_max <= log_max'
      BY <1>3 DEF Extends, Begins, OffsetsStay
  <2>2. \A g \in Groups : offset[g].seq \in Nat
      BY TypesOK, Numbers DEF Offsets
  <2>3. ASSUME Intact', NEW g \in Groups, offset'[g].epoch = identity'.epoch
        PROVE  offset'[g].seq <= log_max'
    <3>1. CASE identity'.epoch = NoEpoch
        BY <1>1, <2>1, <2>3, <3>1 DEF OffsetIsBehind
    <3>2. CASE identity'.epoch # NoEpoch
      <4>1. offset[g].epoch = identity.epoch
          BY <2>1, <2>3, <3>2
      <4>2. offset[g].seq <= log_max /\ log_max <= log_max'
          BY <2>1, <2>3, <4>1 DEF OffsetIsBehind
      <4> QED
          BY <1>1, <2>1, <2>2, <4>2
    <3> QED
        BY <3>1, <3>2
  <2>4. OffsetIsBehind'
      BY <2>1, <2>3 DEF OffsetIsBehind
  <2>5. ASSUME NEW g \in Groups, NEW s \in Taken', offset'[g].epoch = identity'.epoch,
               identity'.epoch # NoEpoch, s <= offset'[g].seq, log'[s] \in Wanted[g]
        PROVE  [group |-> g, epoch |-> identity'.epoch, seq |-> s] \in forwarded'
    <3>1. offset[g].epoch = identity.epoch /\ identity.epoch # NoEpoch /\ identity'.epoch = identity.epoch
        BY <2>1, <2>5
    <3>2. CASE s \in Taken /\ log'[s] = log[s]
      <4>1. Done(g, s)
          BY <2>1, <2>5, <3>1, <3>2 DEF NothingSkipped
      <4> QED
          BY <3>1, <4>1 DEF Done
    <3>3. CASE Intact /\ s > log_max
      <4>1. offset[g].seq <= log_max
          BY <3>1, <3>3 DEF OffsetIsBehind
      <4> QED
          BY <1>1, <2>1, <2>2, <2>5, <3>3, <4>1, Numbers
    <3> QED
        BY <2>1, <3>2, <3>3
  <2>6. NothingSkipped'
      BY <2>5 DEF NothingSkipped, Done
  <2> QED
      BY <2>4, <2>6
<1> QED
    BY <1>2, <1>3

\* The rows a consumer has are entries of an intact log, or were.
LEMMA RowsAreBehind ==
    ASSUME TypeOK, ReadIsBehind, Intact, NEW c \in Consumers, Placed(source[c]),
           source[c].epoch = minted
    PROVE  /\ source[c].at = "Handler" => source[c].current.seq <= log_max
           /\ \A r \in source[c].buffer : r.seq <= log_max
<1>1. source[c] \in Places
    BY TypesOK
<1>2. ASSUME source[c].at = "Handler" PROVE source[c].current.seq <= log_max
  <2>1. /\ source[c].current \in Row
        /\ [epoch |-> minted, seq |-> source[c].current.seq,
            message |-> source[c].current.message] \in seen
      BY <1>2 DEF Placed
  <2>2. source[c].current.seq \in Positions /\ source[c].current.message \in Messages
      BY <2>1 DEF Row
  <2>3. Read(minted, source[c].current.seq, source[c].current.message)
      BY SMTT(60), <2>1 DEF Read, ReadIn
  <2> QED
      BY <2>2, <2>3 DEF ReadIsBehind
<1>3. ASSUME NEW r \in source[c].buffer PROVE r.seq <= log_max
  <2>1. r \in Row
      BY <1>1 DEF Places
  <2>2. r = [seq |-> r.seq, message |-> r.message] /\ r.seq \in Positions /\ r.message \in Messages
      BY <2>1 DEF Row
  <2>3. Read(minted, r.seq, r.message)
      BY <1>3, <2>2 DEF Read, ReadIn
  <2> QED
      BY <2>2, <2>3 DEF ReadIsBehind
<1> QED
    BY <1>2, <1>3

\* An entry that is before a position of the log as it was, was there.
LEMMA BeforeKeeps ==
    ASSUME TypeOK, Extends, NEW g, NEW n \in Positions, Intact => n <= log_max, NEW s \in Before(g, n)'
    PROVE  s \in Before(g, n)
<1>1. s \in Taken' /\ s < n /\ log'[s] \in Wanted[g] /\ s \in Positions /\ log_max \in Nat
    BY LogMaxOK, Numbers DEF Before, Taken
<1>2. CASE Intact /\ s > log_max
    BY <1>1, <1>2, Numbers
<1>3. CASE s \in Taken /\ log'[s] = log[s]
    BY <1>1, <1>3 DEF Before
<1> QED
    BY <1>1, <1>2, <1>3 DEF Extends

\* The order of a consumer that does not move, over the same log.
LEMMA SameOrder ==
    ASSUME NEW d \in Consumers, InOrder(d), source'[d] = source[d], UNCHANGED <<minted, log>>,
           forwarded \subseteq forwarded'
    PROVE  InOrder(d)'
<1>1. Taken' = Taken
    BY DEF Taken
<1>2. \A g, n : {t \in Taken' : t < n /\ log'[t] \in Wanted[g]} = Before(g, n)
    BY Zenon, <1>1 DEF Before
<1>3. \A g, e, s : Settled(g, e, s) => [group |-> g, epoch |-> e, seq |-> s] \in forwarded'
    BY Zenon DEF Settled
<1>4. \/ source[d].epoch # minted
      \/ /\ source[d].at = "Handler" =>
               \A s \in Before(GroupOf[d], source[d].current.seq) : Settled(GroupOf[d], minted, s)
         /\ source[d].at = "Handler" \/ (source[d].at = "Recv" /\ ~source[d].nacked) =>
               \A r \in source[d].buffer : \A s \in Before(GroupOf[d], r.seq) :
                   \/ Settled(GroupOf[d], minted, s)
                   \/ \E q \in source[d].buffer : q.seq = s
                   \/ source[d].at = "Handler" /\ source[d].current.seq = s
    BY Zenon DEF InOrder
<1>5. \A n : \A s \in {t \in Taken' : t < n /\ log'[t] \in Wanted[GroupOf[d]]} : s \in Before(GroupOf[d], n)
    BY Zenon, <1>2
<1>6. CASE source[d].epoch # minted
    BY Zenon, <1>6 DEF InOrder
<1>7. CASE source[d].epoch = minted
  <2>1. source'[d].at = "Handler" =>
            \A s \in {t \in Taken' : t < source'[d].current.seq /\ log'[t] \in Wanted[GroupOf[d]]} :
                [group |-> GroupOf[d], epoch |-> minted, seq |-> s] \in forwarded'
      BY Zenon, <1>3, <1>4, <1>5, <1>7
  <2>2. source'[d].at = "Handler" \/ (source'[d].at = "Recv" /\ ~source'[d].nacked) =>
            \A r \in source'[d].buffer :
                \A s \in {t \in Taken' : t < r.seq /\ log'[t] \in Wanted[GroupOf[d]]} :
                   \/ [group |-> GroupOf[d], epoch |-> minted, seq |-> s] \in forwarded'
                   \/ \E q \in source'[d].buffer : q.seq = s
                   \/ source'[d].at = "Handler" /\ source'[d].current.seq = s
    <3>1. ASSUME source[d].at = "Handler" \/ (source[d].at = "Recv" /\ ~source[d].nacked),
                 NEW r \in source[d].buffer, NEW s \in Before(GroupOf[d], r.seq)
          PROVE  \/ [group |-> GroupOf[d], epoch |-> minted, seq |-> s] \in forwarded'
                 \/ \E q \in source[d].buffer : q.seq = s
                 \/ source[d].at = "Handler" /\ source[d].current.seq = s
        BY Zenon, <1>3, <1>4, <1>7, <3>1
    <3> QED
        BY ZenonT(60), <1>5, <3>1
  <2> QED
      BY Zenon, <2>1, <2>2 DEF InOrder, Before, Settled
<1> QED
    BY Zenon, <1>6, <1>7

\* What is behind the rows of a consumer stays settled.
LEMMA OrderKeeps ==
    ASSUME TypeOK, TypeOK', LatestEpoch, ReadIsBehind, Quiet, UNCHANGED forwarded,
           Extends \/ Begins, NEW c \in Consumers, Placed(source[c]), InOrder(c)
    PROVE  InOrder(c)'
<1>1. CASE source'[c] # source[c]
    BY Zenon, <1>1 DEF Quiet, InOrder
<1>2. CASE source'[c] = source[c] /\ source[c].epoch # minted'
    BY Zenon, <1>2 DEF InOrder
<1>3. CASE source'[c] = source[c] /\ source[c].epoch = minted'
  <2>1. Extends /\ minted' = minted
    <3>1. source[c].epoch <= minted /\ minted \in Nat
        BY TypesOK DEF LatestEpoch
    <3> QED
        BY <1>3, <3>1 DEF Begins, Extends
  <2>2. source[c] \in Places
      BY TypesOK
  <2>3. ASSUME source[c].at = "Handler"
        PROVE  source[c].current.seq \in Positions
      BY <2>3 DEF Placed, Row
  <2>4. ASSUME NEW r \in source[c].buffer PROVE r.seq \in Positions
      BY SMTT(60), <2>2, <2>4 DEF Places, Row
  <2>5. \A n \in Positions : (Intact => n <= log_max) =>
            \A s \in Taken' : s < n /\ log'[s] \in Wanted[GroupOf[c]] => s \in Before(GroupOf[c], n)
      BY Zenon, <2>1, BeforeKeeps DEF Before
  <2>6. ASSUME source[c].at = "Handler", NEW s \in Taken', s < source[c].current.seq,
               log'[s] \in Wanted[GroupOf[c]]
        PROVE  Settled(GroupOf[c], minted, s)
    <3>1. s \in Before(GroupOf[c], source[c].current.seq)
        BY SMTT(60), <1>3, <2>1, <2>3, <2>5, <2>6, RowsAreBehind
    <3> QED
        BY Zenon, <1>3, <2>1, <2>6, <3>1 DEF InOrder
  <2>7. ASSUME source[c].at = "Handler" \/ (source[c].at = "Recv" /\ ~source[c].nacked),
               NEW r \in source[c].buffer, NEW s \in Taken', s < r.seq,
               log'[s] \in Wanted[GroupOf[c]]
        PROVE  \/ Settled(GroupOf[c], minted, s)
               \/ \E q \in source[c].buffer : q.seq = s
               \/ source[c].at = "Handler" /\ source[c].current.seq = s
    <3>1. s \in Before(GroupOf[c], r.seq)
        BY Zenon, <1>3, <2>1, <2>4, <2>5, <2>7, RowsAreBehind
    <3> QED
        BY Zenon, <1>3, <2>1, <2>7, <3>1 DEF InOrder
  <2> QED
      BY Zenon, <1>3, <2>1, <2>6, <2>7 DEF InOrder, Before, Settled
<1> QED
    BY <1>1, <1>2, <1>3

\* The steps that read no rows and settle none.
LEMMA TableStep ==
    ASSUME Inv, TypeOK', Quiet, UNCHANGED <<deployment, seen, forwarded>>,
           (Extends /\ OffsetsStay) \/ Begins,
           OneAppend', LatestEpoch', HighWater', Acknowledged',
           \A c \in Consumers : Placed(source[c])'
    PROVE  Inv'
<1>1. KnownOnce' /\ ReadIsBehind'
  <2>1. ReadsNothing
      BY DEF Quiet, ReadsNothing
  <2> QED
      BY <2>1, CursorsKeep DEF Inv
<1>2. OffsetIsBehind' /\ NothingSkipped'
    BY OffsetsKeep DEF Inv
<1>3. \A c \in Consumers : InOrder(c)'
    BY OrderKeeps DEF Inv
<1>4. deployment' \in Deployments
    BY DEF Inv
<1> QED
    BY <1>1, <1>2, <1>3, <1>4 DEF Inv

\* What the steps of a consumer leave alone.
Shared == <<deployment, log, nextSeq, identity, minted, tx, acked>>

\* The log is as it was.
LEMMA SameLog ==
    ASSUME UNCHANGED log
    PROVE  Taken' = Taken /\ log_max' = log_max
BY DEF Taken, log_max

\* Those facts that are about what consumers leave alone.
LEMMA SharedKeeps ==
    ASSUME Inv, UNCHANGED Shared
    PROVE  OneAppend' /\ HighWater' /\ Acknowledged' /\ Extends /\ deployment' \in Deployments
<1>1. /\ Taken' = Taken /\ log_max' = log_max /\ log' = log /\ identity' = identity /\ tx' = tx
      /\ nextSeq' = nextSeq /\ minted' = minted /\ deployment' = deployment /\ acked' = acked
    BY SameLog DEF Shared
<1>2. Intact' = Intact
    BY <1>1 DEF Intact
<1>3. OneAppend'
    BY Zenon, <1>1, <1>2 DEF Inv, OneAppend, AppendOK
<1>4. HighWater'
    BY <1>1, <1>2 DEF Inv, HighWater
<1>5. Acknowledged'
    BY SMTT(60), <1>1 DEF Inv, Acknowledged
<1>6. Extends
  <2>1. log_max \in Nat
      BY LogMaxOK, Numbers
  <2> QED
      BY <1>1, <1>2, <2>1 DEF Extends
<1> QED
    BY <1>1, <1>3, <1>4, <1>5, <1>6 DEF Inv

\* Nobody has an append open when the identity is not locked.
LEMMA UnlockedOK ==
    ASSUME OneAppend, Unlocked
    PROVE  \A p \in Publishers : tx[p] = NoTx
BY DEF OneAppend, AppendOK, Unlocked

-----------------------------------------------------------------------------
(* Steps of consumers that read nothing.                                   *)

\* A consumer ends up without rows that are still good, and with none at hand.
LEMMA QuietStepOK ==
    ASSUME Inv, NEW c \in Consumers, NEW r \in Places, source' = [source EXCEPT ![c] = r],
           r.at # "Handler", Placed(r), r.epoch <= minted,
           \/ r.buffer = {}
           \/ r.nacked /\ r.epoch = source[c].epoch /\ r.buffer \subseteq source[c].buffer,
           UNCHANGED Shared, UNCHANGED <<offset, seen, forwarded>>
    PROVE  Inv'
<1>1. source \in [Consumers -> Places]
    BY SMTT(60) DEF Inv, TypeOK, Places
<1>2. /\ source' \in [Consumers -> Places] /\ source'[c] = r
      /\ \A d \in Consumers : d # c => source'[d] = source[d]
    BY Zenon, <1>1
<1>3. TypeOK'
    BY Zenon, <1>2 DEF Inv, TypeOK, Shared, Places
<1>4. Quiet
    BY SMTT(60), <1>2 DEF Quiet
<1>5. LatestEpoch'
    BY Zenon, <1>2 DEF Inv, LatestEpoch, Shared
<1>6. \A d \in Consumers : Placed(source[d])'
  <2>1. \A d \in Consumers : d # c => Placed(source[d])'
      BY Zenon, <1>2 DEF Placed, Inv
  <2>2. Placed(source[c])'
      BY Zenon, <1>2 DEF Placed
  <2> QED
      BY SMTT(60), <2>1, <2>2
<1>7. OffsetsStay /\ UNCHANGED deployment
    BY DEF OffsetsStay, Shared
<1> QED
    BY SMTT(60), <1>3, <1>4, <1>5, <1>6, <1>7, SharedKeeps, TableStep

\* The run of a consumer ends.
LEMMA EndRunOK ==
    ASSUME Inv, NEW c \in Consumers, EndRun(c), UNCHANGED Shared, UNCHANGED <<offset, seen, forwarded>>
    PROVE  Inv'
<1>1. /\ Stopped \in Places /\ Stopped.buffer = {} /\ Stopped.at = "Stopped"
      /\ Stopped.epoch = 0 /\ Placed(Stopped)
    BY Zenon DEF Places, Stopped, NoEpoch, Placed
<1>2. Stopped.epoch <= minted
    BY SMTT(60), <1>1, TypesOK DEF Inv
<1>3. source' = [source EXCEPT ![c] = Stopped] /\ Stopped.at # "Handler"
    BY <1>1 DEF EndRun
<1> HIDE DEF Stopped
<1> QED
    BY Zenon, <1>1, <1>2, <1>3, QuietStepOK

\* A consumer starts to read, without the buffer.
LEMMA ToReadOK ==
    ASSUME Inv, NEW c \in Consumers, source[c].at = "Recv",
           source' = [source EXCEPT ![c].at = "Read", ![c].buffer = {}],
           UNCHANGED Shared, UNCHANGED <<offset, seen, forwarded>>
    PROVE  Inv'
<1> DEFINE r == [source[c] EXCEPT !.at = "Read", !.buffer = {}]
<1>1. source[c] \in Places /\ source[c].epoch <= minted /\ source[c].epoch \in Epochs
    BY Zenon, TypesOK DEF Inv, LatestEpoch, Placed
<1>2. /\ r \in Places /\ r.at = "Read" /\ r.buffer = {} /\ r.epoch = source[c].epoch
    BY Zenon, <1>1 DEF Places
<1>3. source' = [source EXCEPT ![c] = r]
    BY Zenon
<1> HIDE DEF r
<1>4. Placed(r) /\ r.epoch <= minted /\ r.at # "Handler"
    BY <1>1, <1>2 DEF Placed
<1> QED
    BY Zenon, <1>2, <1>3, <1>4, QuietStepOK

\* A nacked entry leaves the buffer for nacked.
LEMMA NackOK ==
    ASSUME Inv, NEW c \in Consumers, source[c].at = "Handler",
           source' = [source EXCEPT ![c].at = "Recv", ![c].current = NoRow],
           UNCHANGED Shared, UNCHANGED <<offset, seen, forwarded>>
    PROVE  Inv'
<1> DEFINE r == [source[c] EXCEPT !.at = "Recv", !.current = NoRow]
<1>1. /\ source[c] \in Places /\ source[c].epoch <= minted /\ source[c].epoch \in Epochs
      /\ source[c].nacked
    BY Zenon, TypesOK DEF Inv, LatestEpoch, Placed
<1>2. /\ r \in Places /\ r.at = "Recv" /\ r.buffer = source[c].buffer /\ r.epoch = source[c].epoch
      /\ r.nacked
    BY Zenon, <1>1 DEF Places
<1>3. source' = [source EXCEPT ![c] = r]
    BY Zenon
<1> HIDE DEF r
<1>4. Placed(r) /\ r.epoch <= minted /\ r.at # "Handler"
    BY <1>1, <1>2 DEF Placed
<1> QED
    BY Zenon, <1>2, <1>3, <1>4, QuietStepOK

-----------------------------------------------------------------------------
(* Steps of consumers that read or settle.                                 *)

\* The first of some rows.
First(rows) == CHOOSE r \in rows : \A q \in rows : r.seq <= q.seq

\* Rows that there are have a first one.
LEMMA FirstOK ==
    ASSUME NEW rows \in SUBSET Row, rows # {}
    PROVE  First(rows) \in rows /\ \A q \in rows : First(rows).seq <= q.seq
<1> DEFINE S == {r.seq : r \in rows}
<1>1. S \in SUBSET Nat /\ S # {}
    BY Numbers DEF Row
<1>2. PICK n \in S : \A m \in S : n <= m
  <2> HIDE DEF S
  <2> QED
      BY <1>1, Least
<1>3. PICK r \in rows : n = r.seq
    BY <1>2
<1>4. \A q \in rows : r.seq <= q.seq
    BY <1>2, <1>3
<1> QED
    BY <1>4 DEF First

\* A consumer hands over the first of rows that mean what they say, and that leave
\* out nothing its group has not settled.
LEMMA DeliverOK ==
    ASSUME Inv, NEW c \in Consumers, source[c].epoch \in Epochs,
           NEW rows \in SUBSET Row, rows # {}, Deliver(c, rows),
           UNCHANGED Shared, UNCHANGED <<offset, forwarded>>,
           \A r \in rows : Known(source[c].epoch, r.seq, r.message),
           source[c].epoch = minted =>
               \A r \in rows : \A s \in Before(GroupOf[c], r.seq) :
                   Settled(GroupOf[c], minted, s) \/ \E q \in rows : q.seq = s
    PROVE  Inv'
<1> DEFINE first == First(rows)
           e0 == source[c].epoch
           v == [epoch |-> e0, seq |-> first.seq, message |-> first.message]
           new == [source[c] EXCEPT !.at = "Handler", !.buffer = rows \ {first},
                                    !.nacked = TRUE, !.current = first]
<1>1. first \in rows /\ \A q \in rows : first.seq <= q.seq
    BY Zenon, FirstOK
<1>2. source' = [source EXCEPT ![c] = new] /\ seen' = seen \cup {v}
  <2>1. first = CHOOSE r \in rows : \A q \in rows : r.seq <= q.seq
      BY Zenon DEF First
  <2> HIDE DEF first
  <2>2. /\ source' = [source EXCEPT ![c].at = "Handler", ![c].buffer = rows \ {first},
                                    ![c].nacked = TRUE, ![c].current = first]
        /\ seen' = seen \cup {v}
      BY <2>1, Zenon DEF Deliver
  <2> QED
      BY Zenon, <2>2
<1>3. source \in [Consumers -> Places] /\ source[c] \in Places
    BY Zenon, TypesOK DEF Inv, TypeOK, Places
<1>4. first \in Row /\ first.seq \in Positions /\ first.message \in Messages
    BY Zenon, <1>1 DEF Row
<1> HIDE DEF first
<1>5. /\ new \in Places /\ new.at = "Handler" /\ new.buffer = rows \ {first} /\ new.nacked
      /\ new.current = first /\ new.epoch = e0
    BY Zenon, <1>3, <1>4 DEF Places
<1>6. v \in [epoch : Epochs, seq : Positions, message : Messages] /\ v.epoch = e0
    BY Zenon, <1>4
<1> HIDE DEF new, v
<1>7. /\ source' \in [Consumers -> Places] /\ source'[c] = new
      /\ \A d \in Consumers : d # c => source'[d] = source[d]
    BY Zenon, <1>2, <1>3, <1>5
<1>8. /\ Taken' = Taken /\ log_max' = log_max /\ log' = log /\ identity' = identity
      /\ minted' = minted /\ forwarded' = forwarded /\ offset' = offset
    BY Zenon, SameLog DEF Shared
<1>9. TypeOK'
    BY Zenon, <1>2, <1>6, <1>7 DEF Inv, TypeOK, Shared, Places
<1>10. e0 <= minted
    BY Zenon DEF Inv, LatestEpoch
<1>11. LatestEpoch'
    BY Zenon, <1>2, <1>5, <1>6, <1>7, <1>8, <1>10 DEF Inv, LatestEpoch
<1>12. \A e, s, m : ReadIn(seen', source', e, s, m) => Known(e, s, m)
  <2>1. ASSUME NEW e, NEW s, NEW m, [epoch |-> e, seq |-> s, message |-> m] \in seen'
        PROVE  Known(e, s, m)
    <3>1. CASE [epoch |-> e, seq |-> s, message |-> m] \in seen
        BY Zenon, <3>1 DEF Known, Read, ReadIn
    <3>2. CASE [epoch |-> e, seq |-> s, message |-> m] = v
      <4>1. e = e0 /\ s = first.seq /\ m = first.message
          BY Zenon, <3>2 DEF v
      <4> QED
          BY Zenon, <1>1, <4>1
    <3> QED
        BY Zenon, <1>2, <2>1, <3>1, <3>2
  <2>2. ASSUME NEW e, NEW s, NEW m, NEW d \in Consumers, source'[d].epoch = e,
               [seq |-> s, message |-> m] \in source'[d].buffer
        PROVE  Known(e, s, m)
    <3>1. CASE d # c
        BY Zenon, <1>7, <2>2, <3>1 DEF Known, Read, ReadIn
    <3>2. CASE d = c
      <4> DEFINE r == [seq |-> s, message |-> m]
      <4>1. r \in rows /\ e = e0
          BY Zenon, <1>5, <1>7, <2>2, <3>2
      <4>2. r.seq = s /\ r.message = m
          BY Zenon
      <4> HIDE DEF r
      <4> QED
          BY Zenon, <4>1, <4>2
    <3> QED
        BY Zenon, <3>1, <3>2
  <2> QED
      BY Zenon, <2>1, <2>2 DEF ReadIn
<1>13. KnownOnce'
  <2>1. \A e, s, m : Known(e, s, m)' => Known(e, s, m)
      BY Zenon, <1>8, <1>12 DEF Known, Read
  <2> QED
      BY Zenon, <2>1 DEF KnownOnce, Inv
<1>14. ReadIsBehind'
  <2>1. ASSUME Intact, NEW s \in Positions, NEW m \in Messages, Known(minted, s, m)
        PROVE  s <= log_max
      BY Zenon, <2>1, LogMaxOK DEF Known, Inv, ReadIsBehind
  <2> QED
      BY Zenon, <1>8, <1>12, <2>1 DEF ReadIsBehind, Read, Intact
<1>15. OffsetIsBehind' /\ NothingSkipped'
  <2>1. OffsetsStay
      BY Zenon, <1>8 DEF OffsetsStay
  <2> QED
      BY Zenon, <1>8, <1>9, <2>1, SharedKeeps, OffsetsKeep DEF Inv
<1>16. \A d \in Consumers : Placed(source[d])'
  <2>1. \A d \in Consumers : d # c => Placed(source[d])'
      BY Zenon, <1>2, <1>7 DEF Placed, Inv
  <2>2. Placed(source[c])'
      BY Zenon, <1>2, <1>4, <1>5, <1>7 DEF Placed, v
  <2> QED
      BY Zenon, <2>1, <2>2
<1>17. \A d \in Consumers : d # c => InOrder(d)'
    BY Zenon, <1>7, <1>8, SameOrder DEF Inv
<1>18. InOrder(c)'
  <2>1. ASSUME e0 = minted, NEW s \in Before(GroupOf[c], first.seq)
        PROVE  Settled(GroupOf[c], minted, s)
    <3>1. CASE \E q \in rows : q.seq = s
      <4>1. PICK q \in rows : q.seq = s
          BY Zenon, <3>1
      <4>2. first.seq <= s /\ s < first.seq /\ s \in Positions
          BY Zenon, <1>1, <2>1, <4>1 DEF Before, Taken
      <4> QED
          BY Zenon, <1>4, <4>2, Numbers, LessOrNot
    <3> QED
        BY Zenon, <1>1, <2>1, <3>1
  <2>2. ASSUME e0 = minted, NEW r \in rows, NEW s \in Before(GroupOf[c], r.seq)
        PROVE  \/ Settled(GroupOf[c], minted, s)
               \/ \E q \in rows \ {first} : q.seq = s
               \/ first.seq = s
      BY Zenon, <2>2
  <2> QED
      BY ZenonT(60), <1>5, <1>7, <1>8, <2>1, <2>2 DEF InOrder, Before, Settled
<1> HIDE DEF e0
<1> QED
    BY Zenon, <1>9, <1>11, <1>13, <1>14, <1>15, <1>16, <1>17, <1>18, SharedKeeps DEF Inv

\* The rows that are read ahead are entries of the log, and an entry before one of
\* them is read as well, or is settled.
LEMMA UnreadOK ==
    ASSUME Inv, NEW c \in Consumers, identity.epoch = source[c].epoch, source[c].epoch \in Epochs
    PROVE  /\ Unread(c) \in SUBSET Row
           /\ \A r \in Unread(c) : Known(source[c].epoch, r.seq, r.message)
           /\ \A r \in Unread(c) : \A s \in Before(GroupOf[c], r.seq) :
                  Settled(GroupOf[c], minted, s) \/ \E q \in Unread(c) : q.seq = s
<1> DEFINE g == GroupOf[c]
           past == IF offset[g].epoch = source[c].epoch THEN offset[g].seq ELSE 0
           next == {s \in Taken : s > past /\ log[s] \in Wanted[g]}
           batch == {t \in next : Cardinality({u \in next : u < t}) < SourceBatch}
<1>1. Unread(c) = {[seq |-> s, message |-> log[s]] : s \in batch}
    BY Zenon DEF Unread
<1>2. g \in Groups /\ source[c].epoch = minted /\ source[c].epoch # NoEpoch
    BY Zenon, Bounds DEF Inv, LatestEpoch
<1>3. \A s \in Taken : s \in Positions /\ log[s] \in Messages
    BY Zenon, TypesOK DEF Inv
<1>4. batch \subseteq next /\ next \subseteq Taken
    BY Zenon
<1>5. past \in Nat
    BY Zenon, <1>2, TypesOK, Numbers DEF Inv, Offsets
<1>6. ASSUME NEW t \in batch, NEW s \in Before(g, t)
      PROVE  Settled(g, minted, s) \/ s \in batch
  <2>1. s \in Taken /\ s < t /\ log[s] \in Wanted[g] /\ s \in Positions /\ t \in Positions
      BY Zenon, <1>3, <1>4, <1>6 DEF Before
  <2>2. CASE s > past
    <3> DEFINE A == {u \in next : u < s}
               B == {u \in next : u < t}
    <3>1. A \subseteq B
        BY Zenon, <1>3, <2>1, Numbers, LessTrans
    <3>2. IsFiniteSet(B)
      <4>1. B \subseteq Positions /\ IsFiniteSet(Positions)
          BY Zenon, <1>3, Bounds
      <4> HIDE DEF B
      <4> QED
          BY Zenon, <4>1, FS_Subset
    <3>3. Cardinality(B) < SourceBatch /\ SourceBatch \in Nat
        BY Zenon, <1>6, LogAssumption DEF LogAssumption
    <3>4. s \in next
        BY Zenon, <2>1, <2>2
    <3>5. Cardinality(A) < SourceBatch
      <4> HIDE DEF A, B
      <4>1. IsFiniteSet(A) /\ Cardinality(A) <= Cardinality(B)
          BY Zenon, <3>1, <3>2, FS_Subset
      <4>2. Cardinality(A) \in Nat /\ Cardinality(B) \in Nat
          BY Zenon, <3>2, <4>1, FS_CardinalityType
      <4> QED
          BY SMTT(60), <3>3, <4>1, <4>2
    <3> QED
        BY Zenon, <3>4, <3>5
  <2>3. CASE ~(s > past)
    <3>1. s <= past /\ ~(s <= 0)
      <4> HIDE DEF past
      <4> QED
          BY Zenon, <1>5, <2>1, <2>3, Numbers, LessOrNot
    <3>2. offset[g].epoch = source[c].epoch /\ s <= offset[g].seq
        BY Zenon, <3>1
    <3>3. Done(g, s)
        BY Zenon, <1>2, <2>1, <3>2 DEF Inv, NothingSkipped
    <3> QED
        BY Zenon, <1>2, <3>3 DEF Done, Settled
  <2> QED
      BY Zenon, <2>2, <2>3
<1> HIDE DEF batch
<1>7. \A r \in Unread(c) : r.seq \in batch /\ r.message = log[r.seq] /\ r \in Row
  <2>1. ASSUME NEW r \in Unread(c) PROVE r.seq \in batch /\ r.message = log[r.seq] /\ r \in Row
    <3>1. PICK s \in batch : r = [seq |-> s, message |-> log[s]]
        BY Zenon, <1>1, <2>1
    <3>2. s \in Positions /\ log[s] \in Messages
        BY Zenon, <1>3, <1>4
    <3>3. r.seq = s /\ r.message = log[s]
        BY Zenon, <3>1
    <3> QED
        BY Zenon, <3>1, <3>2, <3>3 DEF Row
  <2> QED
      BY Zenon, <2>1
<1>8. \A s \in batch : \E q \in Unread(c) : q.seq = s
  <2>1. ASSUME NEW s \in batch PROVE \E q \in Unread(c) : q.seq = s
    <3> DEFINE q == [seq |-> s, message |-> log[s]]
    <3>1. q \in Unread(c) /\ q.seq = s
        BY Zenon, <1>1
    <3> QED
        BY Zenon, <3>1
  <2> QED
      BY Zenon, <2>1
<1>9. \A r \in Unread(c) : Known(source[c].epoch, r.seq, r.message)
    BY Zenon, <1>2, <1>4, <1>7 DEF Known
<1>10. ASSUME NEW r \in Unread(c), NEW s \in Before(g, r.seq)
       PROVE  Settled(g, minted, s) \/ \E q \in Unread(c) : q.seq = s
  <2>1. r.seq \in batch
      BY Zenon, <1>7
  <2>2. Settled(g, minted, s) \/ s \in batch
      BY Zenon, <1>6, <1>10, <2>1
  <2> QED
      BY Zenon, <1>8, <2>2
<1> QED
    BY Zenon, <1>7, <1>9, <1>10

\* recv.
LEMMA RecvOK ==
    ASSUME Inv, NEW c \in Consumers, Recv(c)
    PROVE  Inv'
<1>1. source[c].at = "Recv" /\ UNCHANGED Shared /\ UNCHANGED <<offset, forwarded>>
    BY DEF Recv, tables, Shared
<1>2. CASE Buffered(c) # {} /\ Deliver(c, Buffered(c))
  <2>1. Buffered(c) = source[c].buffer /\ ~source[c].nacked
      BY <1>2 DEF Buffered
  <2>2. source[c] \in Places /\ source[c].epoch \in Epochs
      BY Zenon, <1>1, TypesOK DEF Inv, Placed
  <2>3. source[c].buffer \in SUBSET Row
      BY Zenon, <2>2 DEF Places
  <2>4. ASSUME NEW r \in source[c].buffer PROVE Known(source[c].epoch, r.seq, r.message)
    <3>1. r = [seq |-> r.seq, message |-> r.message]
        BY <2>3 DEF Row
    <3> QED
        BY <2>4, <3>1 DEF Known, Read, ReadIn
  <2>5. source[c].epoch = minted =>
            \A r \in source[c].buffer : \A s \in Before(GroupOf[c], r.seq) :
                Settled(GroupOf[c], minted, s) \/ \E q \in source[c].buffer : q.seq = s
      BY Zenon, <1>1, <2>1 DEF Inv, InOrder
  <2> QED
      BY Zenon, <1>1, <1>2, <2>1, <2>2, <2>3, <2>4, <2>5, DeliverOK
<1>3. CASE source' = [source EXCEPT ![c].at = "Read", ![c].buffer = {}] /\ UNCHANGED seen
    BY Zenon, <1>1, <1>3, ToReadOK
<1>4. CASE EndRun(c) /\ UNCHANGED seen
    BY <1>1, <1>4, EndRunOK
<1> QED
    BY <1>2, <1>3, <1>4 DEF Recv

\* log_read.
LEMMA log_readOK ==
    ASSUME Inv, NEW c \in Consumers, log_read(c)
    PROVE  Inv'
<1>1. source[c].at = "Read" /\ UNCHANGED Shared /\ UNCHANGED <<offset, forwarded>>
    BY Zenon DEF log_read, tables, Shared
<1>2. CASE identity.epoch = source[c].epoch /\ Unread(c) # {} /\ Deliver(c, Unread(c))
  <2>1. source[c].epoch \in Epochs
      BY Zenon, <1>1 DEF Inv, Placed
  <2> QED
      BY Zenon, <1>1, <1>2, <2>1, UnreadOK, DeliverOK
<1>3. CASE EndRun(c) /\ UNCHANGED seen
    BY Zenon, <1>1, <1>3, EndRunOK
<1> QED
    BY Zenon, <1>2, <1>3 DEF log_read

\* An entry is settled: the offset moves on, and the rest of the buffer is still good.
LEMMA ForwardOK ==
    ASSUME Inv, NEW c \in Consumers, source[c].at = "Handler",
           identity.epoch = source[c].epoch, advance_offset(c),
           forwarded' = forwarded \cup {[group |-> GroupOf[c], epoch |-> source[c].epoch,
                                         seq |-> source[c].current.seq]},
           \/ source' = [source EXCEPT ![c].at = "Recv", ![c].current = NoRow, ![c].nacked = FALSE]
           \/ EndRun(c),
           UNCHANGED Shared, UNCHANGED seen
    PROVE  Inv'
<1> DEFINE g == GroupOf[c]
           n == source[c].current.seq
           f == [group |-> g, epoch |-> minted, seq |-> n]
<1>1. g \in Groups
    BY LogAssumption DEF LogAssumption
<1>2. /\ source[c] \in Places /\ source \in [Consumers -> Places] /\ source[c].epoch \in Epochs
      /\ source[c].current \in Row /\ source[c].epoch = minted /\ n \in Positions /\ minted \in Nat
  <2>1. source[c] \in Places /\ source \in [Consumers -> Places] /\ minted \in Nat
      BY Zenon, TypesOK DEF Inv, TypeOK, Places
  <2>2. source[c].epoch \in Epochs /\ source[c].current \in Row
      BY Zenon DEF Inv, Placed
  <2>3. source[c].epoch = minted
      BY <2>2, Numbers DEF Inv, LatestEpoch, NoEpoch
  <2> QED
      BY <2>1, <2>2, <2>3 DEF Row
<1>3. /\ Taken' = Taken /\ log_max' = log_max /\ log' = log /\ identity' = identity
      /\ minted' = minted /\ seen' = seen
    BY SameLog DEF Shared
<1>4. forwarded' = forwarded \cup {f} /\ f \in [group : Groups, epoch : Epochs, seq : Positions]
    BY <1>1, <1>2
<1>5. PICK new \in Places :
          /\ source' = [source EXCEPT ![c] = new]
          /\ \/ new = Stopped
             \/ /\ new.at = "Recv" /\ new.epoch = source[c].epoch /\ new.buffer = source[c].buffer
                /\ ~new.nacked
  <2>1. CASE EndRun(c)
    <3>1. Stopped \in Places
        BY DEF Stopped, Places
    <3> QED
        BY Zenon, <2>1, <3>1 DEF EndRun
  <2>2. CASE source' = [source EXCEPT ![c].at = "Recv", ![c].current = NoRow, ![c].nacked = FALSE]
    <3> DEFINE r == [source[c] EXCEPT !.at = "Recv", !.current = NoRow, !.nacked = FALSE]
    <3>1. /\ r \in Places /\ r.at = "Recv" /\ r.epoch = source[c].epoch /\ r.buffer = source[c].buffer
          /\ ~r.nacked
        BY Zenon, <1>2 DEF Places
    <3>2. source' = [source EXCEPT ![c] = r]
        BY Zenon, <2>2
    <3> HIDE DEF r
    <3> QED
        BY Zenon, <3>1, <3>2
  <2> QED
      BY <2>1, <2>2
<1>6. /\ source' \in [Consumers -> Places] /\ source'[c] = new
      /\ \A d \in Consumers : d # c => source'[d] = source[d]
    BY <1>2, <1>5
<1>7. Stopped.at = "Stopped" /\ Stopped.buffer = {} /\ Stopped.epoch = 0
    BY DEF Stopped, NoEpoch
<1>8. offset \in [Groups -> Offsets] /\ offset[g] \in Offsets /\ offset[g].seq \in Nat
    BY Zenon, <1>1, TypesOK, Numbers DEF Inv, TypeOK, Offsets
<1> DEFINE o == [epoch |-> minted,
                 seq |-> IF offset[g].epoch = minted THEN Larger(offset[g].seq, n) ELSE n]
<1>9. offset' = [offset EXCEPT ![g] = o] /\ o \in Offsets /\ o.epoch = minted
  <2>1. offset' = [offset EXCEPT ![g] = o]
      BY <1>1, <1>2, <1>8 DEF advance_offset
  <2>2. n \in 0..MaxSeq
      BY <1>2, Numbers
  <2>3. o \in Offsets
      BY Zenon, <1>2, <1>8, <2>2 DEF Offsets, Larger
  <2> QED
      BY <2>1, <2>3
<1>10. o.seq = n \/ (offset[g].epoch = minted /\ o.seq = offset[g].seq)
    BY SMTT(60), <1>2, <1>8 DEF Larger
<1> HIDE DEF o, f, n
<1>11. /\ offset' \in [Groups -> Offsets] /\ offset'[g] = o
       /\ \A h \in Groups : h # g => offset'[h] = offset[h]
    BY <1>1, <1>8, <1>9
<1>12. TypeOK'
    BY Zenon, <1>4, <1>6, <1>11 DEF Inv, TypeOK, Shared, Places, Offsets
<1>13. LatestEpoch'
  <2>1. f.epoch = minted
      BY DEF f
  <2> QED
      BY SMTT(60), <1>2, <1>3, <1>4, <1>5, <1>6, <1>7, <1>9, <1>11, <2>1 DEF Inv, LatestEpoch
<1>14. KnownOnce' /\ ReadIsBehind'
  <2>1. ReadsNothing
      BY <1>5, <1>6, <1>7 DEF ReadsNothing
  <2> QED
      BY SMTT(60), <1>3, <1>12, <2>1, SharedKeeps, CursorsKeep DEF Inv
<1>15. OffsetIsBehind'
  <2>1. minted # NoEpoch
      BY <1>2, Numbers DEF NoEpoch
  <2>2. ASSUME Intact PROVE o.seq <= log_max
    <3>1. n <= log_max
        BY <1>2, <2>2, RowsAreBehind DEF Inv, n
    <3>2. offset[g].epoch = minted => offset[g].seq <= log_max
        BY <1>1, <1>2, <2>2 DEF Inv, OffsetIsBehind
    <3> QED
        BY <1>10, <3>1, <3>2
  <2> QED
      BY SMTT(60), <1>3, <1>9, <1>11, <2>1, <2>2 DEF Inv, OffsetIsBehind, Intact
<1>16. \A s \in Before(g, n) : Settled(g, minted, s)
    BY Zenon, <1>2 DEF Inv, InOrder, n
<1>17. NothingSkipped'
  <2>1. ASSUME NEW h \in Groups, NEW s \in Taken, offset'[h].epoch = identity.epoch,
               s <= offset'[h].seq, log[s] \in Wanted[h]
        PROVE  [group |-> h, epoch |-> minted, seq |-> s] \in forwarded'
    <3>1. ASSUME offset[h].epoch = identity.epoch, s <= offset[h].seq
          PROVE  [group |-> h, epoch |-> minted, seq |-> s] \in forwarded
      <4>1. identity.epoch # NoEpoch /\ identity.epoch = minted
          BY <1>2, Numbers DEF NoEpoch
      <4>2. Done(h, s)
          BY <2>1, <3>1, <4>1 DEF Inv, NothingSkipped
      <4> QED
          BY <4>1, <4>2 DEF Done
    <3>2. CASE h # g
        BY <1>4, <1>11, <2>1, <3>1, <3>2
    <3>3. CASE h = g /\ o.seq = n
      <4>1. s \in Positions /\ s <= n
          BY <1>11, <2>1, <3>3 DEF Taken
      <4>2. CASE s = n
          BY <1>4, <3>3, <4>2 DEF f
      <4>3. CASE s < n
        <5>1. s \in Before(g, n)
            BY <2>1, <3>3, <4>3 DEF Before
        <5> QED
            BY <1>4, <1>16, <3>3, <5>1 DEF Settled
      <4> QED
          BY <1>2, <4>1, <4>2, <4>3, Numbers
    <3>4. CASE h = g /\ offset[g].epoch = minted /\ o.seq = offset[g].seq
        BY <1>2, <1>4, <1>11, <2>1, <3>1, <3>4
    <3> QED
        BY <1>10, <3>2, <3>3, <3>4
  <2> QED
      BY <1>2, <1>3, <2>1 DEF NothingSkipped, Done
<1>18. \A d \in Consumers : Placed(source[d])'
  <2>1. \A d \in Consumers : d # c => Placed(source[d])'
      BY ZenonT(60), <1>3, <1>6 DEF Placed, Inv
  <2>2. Placed(source[c])'
      BY <1>2, <1>3, <1>5, <1>6, <1>7 DEF Placed
  <2> QED
      BY <2>1, <2>2
<1>19. \A d \in Consumers : d # c => InOrder(d)'
    BY Zenon, <1>3, <1>4, <1>6, SameOrder DEF Inv
<1>20. InOrder(c)'
  <2>1. CASE new = Stopped
      BY <1>6, <1>7, <2>1 DEF InOrder
  <2>2. CASE new # Stopped
    <3>1. new.at = "Recv" /\ new.buffer = source[c].buffer
        BY <1>5, <2>2
    <3>2. ASSUME NEW r \in source[c].buffer, NEW s \in Before(g, r.seq)
          PROVE  \/ [group |-> g, epoch |-> minted, seq |-> s] \in forwarded'
                 \/ \E q \in source[c].buffer : q.seq = s
      <4>1. \/ Settled(g, minted, s)
            \/ \E q \in source[c].buffer : q.seq = s
            \/ s = n
          BY ZenonT(60), <1>2, <3>2 DEF Inv, InOrder, n
      <4> QED
          BY <1>4, <4>1 DEF Settled, f
    <3> QED
        BY SMTT(60), <1>3, <1>6, <3>1, <3>2 DEF InOrder, Before, Settled
  <2> QED
      BY <2>1, <2>2
<1> QED
    BY SMTT(60), <1>12, <1>13, <1>14, <1>15, <1>17, <1>18, <1>19, <1>20, SharedKeeps DEF Inv

\* Whatever settles an entry.
LEMMA SettleOK ==
    ASSUME Inv, NEW c \in Consumers, NEW verdict, Settle(c, verdict)
    PROVE  Inv'
<1>1. source[c].at = "Handler" /\ UNCHANGED Shared /\ UNCHANGED seen
    BY DEF Settle, settle_forward, Shared
<1>2. CASE settle_forward(c)
  <2>1. CASE identity.epoch = source[c].epoch
      BY Zenon, <1>1, <1>2, <2>1, ForwardOK DEF settle_forward
  <2>2. CASE identity.epoch # source[c].epoch
      BY <1>1, <1>2, <2>2, EndRunOK DEF settle_forward
  <2> QED
      BY <2>1, <2>2
<1>3. CASE /\ source' = [source EXCEPT ![c].at = "Recv", ![c].current = NoRow]
           /\ UNCHANGED <<deployment, offset, forwarded>>
    BY Zenon, <1>1, <1>3, NackOK
<1>4. CASE EndRun(c) /\ UNCHANGED <<deployment, offset, forwarded>>
    BY <1>1, <1>4, EndRunOK
<1> QED
    BY <1>2, <1>3, <1>4 DEF Settle

\* A consumer dies.
LEMMA CrashOK ==
    ASSUME Inv, NEW c \in Consumers, Crash(c)
    PROVE  Inv'
BY EndRunOK DEF Crash, tables, history, Shared

-----------------------------------------------------------------------------
(* Steps of publishers.                                                    *)

\* What a transaction that goes on finds or installs.
LEMMA ReconciledOK ==
    ASSUME Inv, NEW e \in Configured, Reconciles(e)
    PROVE  /\ Intact
           /\ Reconciled(e).epoch \in Epochs /\ Reconciled(e).highWater = log_max
           /\ Reconciled(e).epoch \in {minted, minted + 1}
           /\ identity.epoch # NoEpoch => Reconciled(e).epoch = identity.epoch
           /\ Reconciled(e) \in [epoch : Epochs, highWater : 0..MaxSeq]
<1>1. identity.epoch \in {NoEpoch, minted} /\ e \in {NoEpoch, minted, minted + 1}
    BY DEF Inv, LatestEpoch, Configured
<1>2. Intact /\ Reconciled(e).epoch \in Epochs /\ Reconciled(e).highWater = log_max
    BY DEF Reconciles, Intact, Reconciled
<1>3. Reconciled(e).epoch = IF identity.epoch = NoEpoch
                            THEN IF e = NoEpoch THEN minted + 1 ELSE e
                            ELSE identity.epoch
    BY DEF Reconciled
<1>4. Reconciled(e) \in [epoch : Epochs, highWater : 0..MaxSeq]
    BY Zenon, <1>2, LogMaxOK DEF Reconciled
<1> QED
    BY <1>1, <1>2, <1>3, <1>4

\* Consumers do not move.
LEMMA NoneMoves ==
    ASSUME Inv, UNCHANGED <<source, seen>>
    PROVE  Quiet /\ \A c \in Consumers : Placed(source[c])'
BY Zenon DEF Quiet, Placed, Inv

\* An append takes a position after every entry.
LEMMA AppendBeginOK ==
    ASSUME Inv, NEW p \in Publishers, NEW m \in Messages, NEW e \in Configured, AppendBegin(p, m, e)
    PROVE  Inv'
<1> DEFINE t == [seq |-> nextSeq, message |-> m, locks |-> TRUE,
                 identity |-> Reconciled(e), installs |-> identity.epoch = NoEpoch]
<1>1. /\ nextSeq \in Positions /\ Reconciles(e) /\ nextSeq' = nextSeq + 1
      /\ tx' = [tx EXCEPT ![p] = t]
      /\ UNCHANGED <<deployment, log, identity, offset, minted, source, seen, forwarded, acked>>
    BY Zenon DEF AppendBegin, history
<1>2. Taken' = Taken /\ log_max' = log_max /\ log_max \in Nat /\ Intact' = Intact
    BY Zenon, <1>1, SameLog, LogMaxOK, Numbers DEF Intact
<1>3. t \in Txs /\ t # NoTx /\ t.seq = nextSeq /\ t.locks /\ t.identity = Reconciled(e)
      /\ t.installs = (identity.epoch = NoEpoch)
    BY Zenon, <1>1, ReconciledOK, Numbers DEF Txs, NoTx
<1> HIDE DEF t
<1>4. \A q \in Publishers : tx[q] = NoTx
    BY Zenon, UnlockedOK DEF AppendBegin, Inv
<1>5. tx \in [Publishers -> {NoTx} \cup Txs]
    BY Zenon DEF Inv, TypeOK, Txs
<1>6. /\ tx' \in [Publishers -> {NoTx} \cup Txs] /\ tx'[p] = t
      /\ \A q \in Publishers : q # p => tx'[q] = NoTx
    BY Zenon, <1>1, <1>3, <1>4, <1>5
<1>7. nextSeq' \in 1..(MaxSeq + 1) /\ nextSeq \in Nat
    BY <1>1, Numbers
<1>8. TypeOK'
    BY Zenon, <1>1, <1>6, <1>7 DEF Inv, TypeOK, Txs
<1>9. AppendOK(p)'
    BY ZenonT(60), <1>1, <1>2, <1>3, <1>6, ReconciledOK DEF AppendOK, Inv, HighWater
<1>10. OneAppend'
    BY <1>6, <1>9 DEF OneAppend
<1>11. HighWater'
  <2>1. \A s \in Taken : s < nextSeq'
      BY Zenon, <1>1, <1>7, Numbers, Successor DEF Inv, HighWater, Taken
  <2> QED
      BY Zenon, <1>1, <1>2, <2>1 DEF Inv, HighWater
<1>12. LatestEpoch' /\ Acknowledged'
    BY Zenon, <1>1, <1>2 DEF Inv, LatestEpoch, Acknowledged
<1>13. Extends /\ OffsetsStay
    BY <1>1, <1>2 DEF Extends, OffsetsStay
<1> QED
    BY Zenon, <1>1, <1>8, <1>10, <1>11, <1>12, <1>13, NoneMoves, TableStep

\* An append that is given up leaves what was there.
LEMMA AppendAbortOK ==
    ASSUME Inv, NEW p \in Publishers, AppendAbort(p)
    PROVE  Inv'
<1>1. /\ tx[p] # NoTx /\ nextSeq' \in {nextSeq, tx[p].seq} /\ tx' = [tx EXCEPT ![p] = NoTx]
      /\ UNCHANGED <<deployment, log, identity, offset, minted, source, seen, forwarded, acked>>
    BY DEF AppendAbort, history
<1>2. Taken' = Taken /\ log_max' = log_max /\ log_max \in Nat /\ Intact' = Intact
    BY Zenon, <1>1, SameLog, LogMaxOK, Numbers DEF Intact
<1>3. AppendOK(p) /\ \A q \in Publishers : q # p => tx[q] = NoTx
    BY Zenon, <1>1 DEF Inv, OneAppend
<1>4. tx \in [Publishers -> {NoTx} \cup Txs]
    BY Zenon DEF Inv, TypeOK, Txs
<1>5. tx' \in [Publishers -> {NoTx} \cup Txs] /\ \A q \in Publishers : tx'[q] = NoTx
    BY <1>1, <1>3, <1>4
<1>6. /\ nextSeq' \in 1..(MaxSeq + 1)
      /\ \A s \in Taken : s < nextSeq'
  <2>1. tx[p].seq \in Positions /\ \A s \in Taken : s < tx[p].seq
      BY Zenon, <1>3 DEF AppendOK, Txs
  <2>2. tx[p].seq \in 1..(MaxSeq + 1)
      BY Zenon, <2>1, Bounds
  <2> QED
      BY ZenonT(60), <1>1, <2>1, <2>2 DEF Inv, TypeOK, HighWater
<1>7. TypeOK'
    BY Zenon, <1>1, <1>5, <1>6 DEF Inv, TypeOK, Txs
<1>8. OneAppend'
    BY <1>5 DEF OneAppend
<1>9. HighWater'
    BY Zenon, <1>1, <1>2, <1>6 DEF Inv, HighWater
<1>10. LatestEpoch' /\ Acknowledged'
    BY Zenon, <1>1, <1>2 DEF Inv, LatestEpoch, Acknowledged
<1>11. Extends /\ OffsetsStay
    BY <1>1, <1>2 DEF Extends, OffsetsStay
<1> QED
    BY Zenon, <1>1, <1>7, <1>8, <1>9, <1>10, <1>11, NoneMoves, TableStep

\* The entry of a commit: a new one at the end, or the one with the same id.
LEMMA CommitLog ==
    ASSUME Inv, NEW p \in Publishers, AppendCommit(p)
    PROVE  \E seq \in Positions :
               /\ log' \in [Positions -> Messages \cup {NoMessage}]
               /\ Taken' = Taken \cup {seq} /\ log'[seq] = tx[p].message
               /\ \A s \in Taken : log'[s] = log[s]
               /\ seq \in Taken \/ seq > log_max
               /\ seq < nextSeq
               /\ log_max' = Larger(log_max, seq)
               /\ identity' = [tx[p].identity EXCEPT !.highWater = Larger(@, seq)]
               /\ \A s \in Taken : StableId[log[s]] # NoId /\ StableId[log[s]] = StableId[tx[p].message]
                                   => s = seq
<1> DEFINE m == tx[p].message
<1>1. AppendOK(p)
    BY DEF AppendCommit, Inv, OneAppend
<1>2. m \in Messages /\ tx[p].seq \in Positions /\ m # NoMessage
    BY Zenon, <1>1, LogAssumption DEF AppendOK, Txs, LogAssumption
<1>3. log \in [Positions -> Messages \cup {NoMessage}] /\ log_max \in Nat
    BY Zenon, LogMaxOK, Numbers DEF Inv, TypeOK
<1>4. CASE SameId(m) = {}
  <2>1. /\ log' = [log EXCEPT ![tx[p].seq] = m]
        /\ identity' = [tx[p].identity EXCEPT !.highWater = Larger(@, tx[p].seq)]
      BY <1>4 DEF AppendCommit
  <2>2. log' \in [Positions -> Messages \cup {NoMessage}] /\ log'[tx[p].seq] = m
      BY <1>2, <1>3, <2>1
  <2>3. \A s \in Taken : s < tx[p].seq /\ s \in Positions
      BY Zenon, <1>1 DEF AppendOK, Taken
  <2>4. \A s \in Taken : log'[s] = log[s]
      BY <1>2, <1>3, <2>1, <2>3, Numbers
  <2>5. Taken' = Taken \cup {tx[p].seq}
      BY <1>2, <1>3, <2>1 DEF Taken
  <2>6. tx[p].seq > log_max
      BY Zenon, <1>2, <1>3, <2>3, LogMaxOK, Numbers DEF log_max
  <2>7. log_max' = Larger(log_max, tx[p].seq)
    <3>1. log_max' \in Taken' /\ tx[p].seq <= log_max' /\ log_max' \in Nat
        BY Zenon, <2>5, LogMaxOKNext, Numbers
    <3>2. log_max' = tx[p].seq
        BY Zenon, <1>2, <2>3, <2>5, <3>1, Numbers, LessOrNot
    <3>3. tx[p].seq \in Nat
        BY Zenon, <1>2, Numbers
    <3>4. log_max <= tx[p].seq
        BY <1>3, <2>6, <3>3
    <3> QED
        BY Zenon, <1>3, <3>2, <3>3, <3>4, LargerOK
  <2>8. tx[p].seq < nextSeq
      BY Zenon, <1>1, <1>2, Numbers, Successor DEF AppendOK
  <2>9. \A s \in Taken : ~(StableId[log[s]] # NoId /\ StableId[log[s]] = StableId[m])
      BY Zenon, <1>4 DEF SameId
  <2> QED
      BY Zenon, <1>2, <2>1, <2>2, <2>4, <2>5, <2>6, <2>7, <2>8, <2>9
<1>5. CASE SameId(m) # {}
  <2>1. PICK seq : /\ seq = CHOOSE s \in SameId(m) : TRUE
                   /\ log' = [log EXCEPT ![seq] = m]
                   /\ identity' = [tx[p].identity EXCEPT !.highWater = Larger(@, seq)]
      BY Zenon, <1>5 DEF AppendCommit
  <2>2. seq \in SameId(m) /\ log[seq] = m
    <3>1. seq \in SameId(m)
        BY <1>5, <2>1
    <3> QED
        BY <3>1 DEF AppendCommit, ValidRetry
  <2>3. seq \in Taken /\ seq \in Positions /\ StableId[m] # NoId
      BY Zenon, <2>2 DEF SameId, Taken
  <2>4. log' = log
      BY <1>3, <2>1, <2>2, <2>3
  <2>5. Taken' = Taken /\ log_max' = log_max
      BY <2>4, SameLog
  <2>6. log_max = Larger(log_max, seq)
    <3>1. seq <= log_max
        BY <2>3, LogMaxOK
    <3> QED
        BY Zenon, <1>3, <2>3, <3>1, Numbers DEF Larger
  <2>7. seq < nextSeq
      BY Zenon, <2>3 DEF Inv, HighWater
  <2>8. \A s \in Taken : StableId[log[s]] # NoId /\ StableId[log[s]] = StableId[m] => s = seq
    <3>1. \A s, t \in Taken : StableId[log[s]] # NoId /\ StableId[log[s]] = StableId[log[t]] => s = t
        BY Zenon DEF Inv, Acknowledged
    <3> QED
        BY Zenon, <2>2, <2>3, <3>1
  <2>9. Taken' = Taken \cup {seq} /\ log'[seq] = m /\ \A s \in Taken : log'[s] = log[s]
      BY Zenon, <2>2, <2>3, <2>4, <2>5
  <2>10. log' \in [Positions -> Messages \cup {NoMessage}]
      BY <1>3, <2>4
  <2> HIDE DEF m
  <2> QED
      BY Zenon, <2>1, <2>3, <2>5, <2>6, <2>7, <2>8, <2>9, <2>10 DEF m
<1> QED
    BY <1>4, <1>5

\* An append commits.
LEMMA AppendCommitOK ==
    ASSUME Inv, NEW p \in Publishers, AppendCommit(p)
    PROVE  Inv'
<1> DEFINE m == tx[p].message
           e == tx[p].identity.epoch
<1>1. PICK seq \in Positions :
               /\ log' \in [Positions -> Messages \cup {NoMessage}]
               /\ Taken' = Taken \cup {seq} /\ log'[seq] = m
               /\ \A s \in Taken : log'[s] = log[s]
               /\ seq \in Taken \/ seq > log_max
               /\ seq < nextSeq
               /\ log_max' = Larger(log_max, seq)
               /\ identity' = [tx[p].identity EXCEPT !.highWater = Larger(@, seq)]
               /\ \A s \in Taken : StableId[log[s]] # NoId /\ StableId[log[s]] = StableId[m] => s = seq
    BY CommitLog
<1>2. /\ tx[p] # NoTx /\ tx' = [tx EXCEPT ![p] = NoTx]
      /\ minted' = Larger(minted, identity'.epoch)
      /\ offset' = IF tx[p].installs THEN NoOffsets ELSE offset
      /\ acked' = acked \cup {m}
      /\ UNCHANGED <<deployment, nextSeq, source, seen, forwarded>>
    BY DEF AppendCommit
<1>3. AppendOK(p) /\ \A q \in Publishers : q # p => tx[q] = NoTx
    BY Zenon, <1>2 DEF Inv, OneAppend
<1>4. /\ m \in Messages /\ e \in Epochs /\ tx[p].identity.highWater = log_max /\ Intact
      /\ tx[p].identity \in [epoch : Epochs, highWater : 0..MaxSeq]
      /\ e \in {minted, minted + 1}
      /\ identity.epoch # NoEpoch => e = identity.epoch /\ ~tx[p].installs
      /\ identity.epoch = NoEpoch => tx[p].installs
    BY Zenon, <1>3 DEF AppendOK, Txs
<1>5. log_max \in Nat /\ log_max \in 0..MaxSeq /\ minted \in Nat /\ seq \in Nat /\ seq \in 0..MaxSeq
    BY Zenon, LogMaxOK, TypesOK, Numbers, Bounds DEF Inv
<1> HIDE DEF m
<1>6. identity'.epoch = e /\ identity'.highWater = log_max' /\ identity' \in [epoch : Epochs, highWater : 0..MaxSeq]
    BY <1>1, <1>4, <1>5 DEF Larger
<1> HIDE DEF e
<1>7. minted' = e /\ minted' \in 0..MaxEpoch
  <2>1. e \in Nat /\ minted <= e
      BY Zenon, <1>4, <1>5, Numbers, Successor
  <2>2. Larger(minted, e) = e
      BY Zenon, <1>5, <2>1, LargerOK
  <2> QED
      BY Zenon, <1>2, <1>4, <1>6, <2>2, Bounds
<1>8. tx \in [Publishers -> {NoTx} \cup Txs]
    BY Zenon DEF Inv, TypeOK, Txs
<1>9. tx' \in [Publishers -> {NoTx} \cup Txs] /\ \A q \in Publishers : tx'[q] = NoTx
    BY Zenon, <1>2, <1>3, <1>8
<1>10. offset' \in [Groups -> Offsets]
    BY Zenon, <1>2, NoOffsetsOK DEF Offsets, Inv, TypeOK
<1>11. TypeOK'
    BY Zenon, <1>1, <1>2, <1>4, <1>6, <1>7, <1>9, <1>10 DEF Inv, TypeOK, Txs, Offsets
<1>12. OneAppend'
    BY <1>9 DEF OneAppend
<1>13. LatestEpoch'
  <2>1. minted <= minted'
      BY Zenon, <1>4, <1>5, <1>7, Successor
  <2>2. \A g \in Groups : offset'[g].epoch <= minted'
    <3>1. CASE tx[p].installs
      <4>1. offset' = NoOffsets /\ minted' \in Nat
          BY Zenon, <1>2, <1>4, <1>7, <3>1, Numbers
      <4>2. 0 <= minted'
          BY Zenon, <4>1, LessOrNot
      <4> QED
          BY Zenon, <4>1, <4>2, NoOffsetsOK DEF NoEpoch
    <3>2. CASE ~tx[p].installs
      <4>1. minted' = minted /\ offset' = offset
          BY Zenon, <1>2, <1>4, <1>7, <3>2 DEF Inv, LatestEpoch
      <4> QED
          BY Zenon, <4>1 DEF Inv, LatestEpoch
    <3> QED
        BY Zenon, <3>1, <3>2
  <2>3. \A x \in Epochs \cup {NoEpoch} : x <= minted => x <= minted'
      BY <1>5, <1>7, <2>1, Numbers DEF NoEpoch
  <2>4. /\ \A c \in Consumers : source[c].epoch \in Epochs \cup {NoEpoch}
        /\ \A v \in seen : v.epoch \in Epochs
        /\ \A f \in forwarded : f.epoch \in Epochs
      BY Zenon DEF Inv, TypeOK
  <2> QED
      BY Zenon, <1>2, <1>6, <1>7, <2>2, <2>3, <2>4 DEF Inv, LatestEpoch
<1>14. Intact'
    BY SMTT(60), <1>1, <1>5, <1>6 DEF Intact, Larger
<1>15. HighWater'
  <2>1. identity'.epoch # NoEpoch /\ log_max' <= identity'.highWater
      BY <1>1, <1>4, <1>5, <1>6, Numbers DEF NoEpoch, Larger
  <2>2. \A s \in Taken' : s < nextSeq'
      BY <1>1, <1>2 DEF Inv, HighWater
  <2> QED
      BY <1>14, <2>1, <2>2 DEF HighWater
<1>16. Acknowledged'
  <2>1. \A s, t \in Taken' : StableId[log'[s]] # NoId /\ StableId[log'[s]] = StableId[log'[t]] => s = t
      BY SMTT(60), <1>1 DEF Inv, Acknowledged
  <2>2. \A n \in acked' : StableId[n] # NoId => \E s \in Taken' : log'[s] = n
      BY SMTT(60), <1>1, <1>2 DEF Inv, Acknowledged
  <2> QED
      BY Zenon, <2>1, <2>2 DEF Acknowledged
<1>17. (Extends /\ OffsetsStay) \/ Begins
  <2>1. CASE e = minted
    <3>1. Extends
        BY <1>1, <1>4, <1>5, <1>7, <2>1 DEF Extends, Larger
    <3>2. OffsetsStay
        BY Zenon, <1>2, <1>4, <1>6 DEF OffsetsStay
    <3> QED
        BY <3>1, <3>2
  <2>2. CASE e # minted
      BY Zenon, <1>2, <1>4, <1>7, <2>2 DEF Begins, Inv, LatestEpoch
  <2> QED
      BY <2>1, <2>2
<1> QED
    BY Zenon, <1>2, <1>11, <1>12, <1>13, <1>15, <1>16, <1>17, NoneMoves, TableStep

-----------------------------------------------------------------------------
(* Steps that install an identity, reset the log or lose a table.          *)

\* Nothing has a later epoch after the epochs have gone on.
LEMMA EpochsGoOn ==
    ASSUME Inv, minted' \in {minted, minted + 1}, UNCHANGED <<seen, forwarded>>
    PROVE  /\ \A c \in Consumers : source[c].epoch <= minted'
           /\ \A v \in seen' : v.epoch <= minted'
           /\ \A f \in forwarded' : f.epoch <= minted'
           /\ \A g \in Groups : offset[g].epoch <= minted'
<1>1. minted \in Nat
    BY Zenon, TypesOK DEF Inv
<1>2. \A x \in Epochs \cup {NoEpoch} : x <= minted => x <= minted'
    BY <1>1, Numbers DEF NoEpoch
<1>3. /\ \A c \in Consumers : source[c].epoch \in Epochs \cup {NoEpoch}
      /\ \A v \in seen : v.epoch \in Epochs
      /\ \A f \in forwarded : f.epoch \in Epochs
      /\ \A g \in Groups : offset[g].epoch \in Epochs \cup {NoEpoch}
    BY Zenon DEF Inv, TypeOK
<1> QED
    BY Zenon, <1>2, <1>3 DEF Inv, LatestEpoch

\* A consumer subscribes.
LEMMA SubscribeOK ==
    ASSUME Inv, NEW c \in Consumers, NEW e \in Configured, Subscribe(c, e)
    PROVE  Inv'
<1> DEFINE found == Reconciled(e)
           new == [Stopped EXCEPT !.at = "Recv", !.epoch = found.epoch]
<1>1. /\ Reconciles(e) /\ identity' = found /\ minted' = Larger(minted, found.epoch)
      /\ offset' = IF identity.epoch = NoEpoch THEN NoOffsets ELSE offset
      /\ source' = [source EXCEPT ![c] = new]
      /\ UNCHANGED <<deployment, log, nextSeq, tx, seen, forwarded, acked>>
    BY DEF Subscribe, Install, history
<1>2. /\ Intact /\ found.epoch \in Epochs /\ found.highWater = log_max
      /\ found.epoch \in {minted, minted + 1}
      /\ identity.epoch # NoEpoch => found.epoch = identity.epoch
      /\ found \in [epoch : Epochs, highWater : 0..MaxSeq]
    BY <1>1, ReconciledOK
<1> HIDE DEF found
<1>3. /\ new \in Places /\ new.at = "Recv" /\ new.epoch = found.epoch /\ new.buffer = {}
    BY Zenon, <1>2 DEF Stopped, Places
<1> HIDE DEF new
<1>4. minted \in Nat /\ log_max \in Nat /\ Taken' = Taken /\ log_max' = log_max
    BY Zenon, <1>1, TypesOK, LogMaxOK, Numbers, SameLog DEF Inv
<1>5. minted' = found.epoch /\ minted' \in 0..MaxEpoch /\ minted' \in {minted, minted + 1}
  <2>1. found.epoch \in Nat /\ minted <= found.epoch
      BY Zenon, <1>2, <1>4, Numbers, Successor
  <2>2. Larger(minted, found.epoch) = found.epoch
      BY Zenon, <1>4, <2>1, LargerOK
  <2> QED
      BY Zenon, <1>1, <1>2, <2>2, Bounds
<1>6. source \in [Consumers -> Places]
    BY Zenon DEF Inv, TypeOK, Places
<1>7. /\ source' \in [Consumers -> Places] /\ source'[c] = new
      /\ \A d \in Consumers : d # c => source'[d] = source[d]
    BY Zenon, <1>1, <1>3, <1>6
<1>8. offset' \in [Groups -> Offsets]
    BY Zenon, <1>1, NoOffsetsOK DEF Offsets, Inv, TypeOK
<1>9. TypeOK'
    BY Zenon, <1>1, <1>2, <1>5, <1>7, <1>8 DEF Inv, TypeOK, Places, Offsets
<1>10. OneAppend'
  <2>1. \A p \in Publishers : tx[p] = NoTx
      BY UnlockedOK DEF Subscribe, Inv
  <2> QED
      BY Zenon, <1>1, <2>1 DEF OneAppend
<1>11. LatestEpoch'
  <2>1. \A g \in Groups : offset'[g].epoch <= minted'
    <3>1. 0 <= minted'
        BY Zenon, <1>2, <1>5, Numbers, LessOrNot
    <3>2. \A g \in Groups : offset[g].epoch <= minted'
        BY Zenon, <1>1, <1>5, EpochsGoOn
    <3> QED
        BY Zenon, <1>1, <3>1, <3>2, NoOffsetsOK DEF NoEpoch
  <2>2. \A d \in Consumers : source'[d].epoch <= minted'
    <3>1. \A d \in Consumers : source[d].epoch <= minted'
        BY Zenon, <1>1, <1>5, EpochsGoOn
    <3>2. new.epoch <= minted'
      <4>1. new.epoch = minted' /\ minted' \in Nat
          BY Zenon, <1>2, <1>3, <1>5, Numbers
      <4> QED
          BY Zenon, <4>1, Successor
    <3> QED
        BY Zenon, <1>7, <3>1, <3>2
  <2> QED
      BY Zenon, <1>1, <1>5, <2>1, <2>2, EpochsGoOn DEF LatestEpoch
<1>12. Intact' /\ log_max' <= identity'.highWater
    BY Zenon, <1>1, <1>2, <1>4, Successor DEF Intact
<1>13. HighWater'
    BY Zenon, <1>1, <1>2, <1>4, <1>12, Bounds DEF HighWater, Inv
<1>14. Acknowledged'
    BY Zenon, <1>1, <1>4 DEF Acknowledged, Inv
<1>15. (Extends /\ OffsetsStay) \/ Begins
  <2>1. CASE found.epoch = minted
    <3>1. Extends
        BY Zenon, <1>1, <1>2, <1>4, <1>5, <2>1, Successor DEF Extends
    <3>2. OffsetsStay
        BY Zenon, <1>1, <1>2 DEF OffsetsStay
    <3> QED
        BY <3>1, <3>2
  <2>2. CASE found.epoch # minted
      BY Zenon, <1>1, <1>2, <1>5, <2>2 DEF Begins, Inv, LatestEpoch
  <2> QED
      BY <2>1, <2>2
<1>16. Quiet
    BY Zenon, <1>3, <1>7 DEF Quiet
<1>17. \A d \in Consumers : Placed(source[d])'
  <2>1. \A d \in Consumers : d # c => Placed(source[d])'
      BY Zenon, <1>1, <1>7 DEF Placed, Inv
  <2>2. Placed(source[c])'
      BY Zenon, <1>2, <1>3, <1>7 DEF Placed
  <2> QED
      BY <2>1, <2>2
<1> QED
    BY Zenon, <1>1, <1>9, <1>10, <1>11, <1>13, <1>14, <1>15, <1>16, <1>17, TableStep

\* reset_ordered_log.
LEMMA ResetOK ==
    ASSUME Inv, Reset
    PROVE  Inv'
<1>1. /\ minted + 1 \in Epochs /\ log' = [s \in Positions |-> NoMessage] /\ nextSeq' = 1
      /\ offset' = NoOffsets /\ identity' = [epoch |-> minted + 1, highWater |-> 0]
      /\ minted' = minted + 1 /\ acked' = {}
      /\ UNCHANGED <<deployment, tx, source, seen, forwarded>>
    BY Zenon DEF Reset
<1>2. Taken' = {} /\ log_max' = 0 /\ minted \in Nat
    BY Zenon, <1>1, TypesOK DEF Taken, log_max, Inv
<1>3. TypeOK'
  <2>1. /\ log' \in [Positions -> Messages \cup {NoMessage}] /\ nextSeq' \in 1..(MaxSeq + 1)
        /\ minted' \in 0..MaxEpoch
    <3>1. 1 \in 1..(MaxSeq + 1)
        BY Numbers
    <3>2. log' \in [Positions -> Messages \cup {NoMessage}]
        BY Zenon, <1>1
    <3> QED
        BY Zenon, <1>1, <3>1, <3>2, Bounds
  <2>2. identity' \in [epoch : Epochs \cup {NoEpoch}, highWater : 0..MaxSeq] /\ offset' \in [Groups -> Offsets]
      BY Zenon, <1>1, Bounds, NoOffsetsOK
  <2> QED
      BY Zenon, <1>1, <2>1, <2>2 DEF Inv, TypeOK, Offsets
<1>4. OneAppend'
  <2>1. \A p \in Publishers : tx[p] = NoTx
      BY Zenon, UnlockedOK DEF Reset, Inv
  <2> QED
      BY Zenon, <1>1, <2>1 DEF OneAppend
<1>5. LatestEpoch'
  <2>1. \A g \in Groups : offset'[g].epoch <= minted'
    <3>1. 0 <= minted'
        BY Zenon, <1>1, Numbers, LessOrNot
    <3> QED
        BY Zenon, <1>1, <3>1, NoOffsetsOK DEF NoEpoch
  <2> QED
      BY Zenon, <1>1, <2>1, EpochsGoOn DEF LatestEpoch
<1>6. HighWater' /\ Acknowledged'
  <2>1. identity'.highWater = 0 /\ 0 <= 0
      BY <1>1
  <2> QED
      BY Zenon, <1>1, <1>2, <2>1 DEF HighWater, Intact, Acknowledged
<1>7. Begins
    BY <1>1 DEF Begins
<1> QED
    BY Zenon, <1>1, <1>3, <1>4, <1>5, <1>6, <1>7, NoneMoves, TableStep

\* The log loses its end: it is not intact, for the mark remembers the end.
LEMMA LoseTailOK ==
    ASSUME Inv, LoseTail
    PROVE  Inv'
<1>1. PICK k \in Taken \cup {0} :
          /\ k < log_max /\ nextSeq' = k + 1
          /\ log' = [s \in Positions |-> IF s > k THEN NoMessage ELSE log[s]]
    BY DEF LoseTail
<1>2. /\ deployment.lost = "Tail" /\ acked' = {}
      /\ UNCHANGED <<deployment, identity, offset, minted, tx, source, seen, forwarded>>
    BY DEF LoseTail
<1>3. log_max \in 0..MaxSeq /\ log_max \in Nat /\ k \in Nat /\ log_max > 0 /\ Taken # {}
  <2>1. log_max \in 0..MaxSeq /\ log_max \in Nat
      BY Zenon, LogMaxOK, Numbers
  <2>2. k \in Positions \/ k = 0
      BY Zenon, <1>1 DEF Taken
  <2>3. k \in Nat
      BY <2>2, Numbers
  <2>4. log_max > 0
      BY <1>1, <2>1, <2>3
  <2>5. log_max # 0
      BY <2>1, <2>4
  <2> QED
      BY Zenon, <2>1, <2>3, <2>4, <2>5 DEF log_max
<1>4. log \in [Positions -> Messages \cup {NoMessage}]
    BY Zenon DEF Inv, TypeOK
<1>5. \A s \in Taken' : s \in Taken /\ log'[s] = log[s] /\ s <= k /\ s \in Positions
  <2>1. ASSUME NEW s \in Taken' PROVE s \in Taken /\ log'[s] = log[s] /\ s <= k /\ s \in Positions
    <3>1. s \in Positions /\ log'[s] # NoMessage
        BY Zenon DEF Taken
    <3>2. log'[s] = IF s > k THEN NoMessage ELSE log[s]
        BY Zenon, <1>1, <3>1
    <3>3. ~(s > k) /\ log'[s] = log[s]
        BY Zenon, <3>1, <3>2
    <3> QED
        BY Zenon, <1>3, <3>1, <3>3, Numbers, LessOrNot DEF Taken
  <2> QED
      BY Zenon, <2>1
<1>6. log_max' \in Nat /\ log_max' <= k
  <2>1. log_max' \in Nat /\ (Taken' # {} => log_max' \in Taken')
      BY Zenon, LogMaxOKNext, Numbers
  <2>2. Taken' = {} => log_max' = 0
      BY Zenon DEF log_max
  <2> QED
      BY Zenon, <1>3, <1>5, <2>1, <2>2, LessOrNot
<1>7. identity.epoch # NoEpoch /\ log_max <= identity.highWater
    BY Zenon, <1>2, <1>3 DEF Inv, HighWater
<1>8. identity.highWater \in Nat
    BY Zenon, TypesOK, Numbers DEF Inv
<1>9. ~Intact'
  <2>1. k < identity.highWater
      BY <1>1, <1>3, <1>7, <1>8
  <2>2. ~(identity.highWater <= log_max')
      BY SMTT(60), <1>3, <1>6, <1>8, <2>1
  <2> QED
      BY Zenon, <1>2, <2>2 DEF Intact
<1>10. TypeOK'
  <2>1. log' \in [Positions -> Messages \cup {NoMessage}] /\ nextSeq' \in 1..(MaxSeq + 1)
    <3>1. log' \in [Positions -> Messages \cup {NoMessage}]
        BY Zenon, <1>1, <1>4
    <3>2. nextSeq' \in 1..(MaxSeq + 1)
        BY SMTT(60), <1>1, <1>3, Numbers
    <3> QED
        BY Zenon, <3>1, <3>2
  <2> QED
      BY Zenon, <1>2, <2>1 DEF Inv, TypeOK
<1>11. OneAppend'
  <2>1. \A p \in Publishers : tx[p] = NoTx
      BY Zenon, UnlockedOK DEF LoseTail, Inv
  <2> QED
      BY SMTT(60), <1>2, <2>1 DEF OneAppend
<1>12. LatestEpoch'
    BY Zenon, <1>2 DEF Inv, LatestEpoch
<1>13. HighWater'
  <2>1. \A s \in Taken' : s < nextSeq'
      BY Zenon, <1>1, <1>3, <1>5, Numbers, Successor
  <2>2. log_max' <= identity'.highWater
    <3>1. k <= log_max
        BY <1>1, <1>3
    <3> QED
        BY Zenon, <1>2, <1>3, <1>6, <1>7, <1>8, <3>1, LessTrans
  <2> QED
      BY SMTT(60), <1>2, <1>7, <2>1, <2>2 DEF HighWater
<1>14. Acknowledged'
  <2>1. \A s, t \in Taken : StableId[log[s]] # NoId /\ StableId[log[s]] = StableId[log[t]] => s = t
      BY Zenon DEF Inv, Acknowledged
  <2>2. \A s, t \in Taken' : StableId[log'[s]] # NoId /\ StableId[log'[s]] = StableId[log'[t]] => s = t
      BY ZenonT(60), <1>5, <2>1
  <2> QED
      BY Zenon, <1>2, <2>2 DEF Acknowledged
<1>15. Extends /\ OffsetsStay
    BY Zenon, <1>2, <1>5, <1>9 DEF Extends, OffsetsStay
<1> QED
    BY SMTT(60), <1>2, <1>10, <1>11, <1>12, <1>13, <1>14, <1>15, NoneMoves, TableStep

\* The identity is lost, of a log that is intact.
LEMMA LoseIdentityOK ==
    ASSUME Inv, LoseIdentity
    PROVE  Inv'
<1>1. /\ deployment.lost = "Identity" /\ identity' = [epoch |-> NoEpoch, highWater |-> 0]
      /\ UNCHANGED <<deployment, log, nextSeq, offset, minted, tx, source, seen, forwarded, acked>>
    BY Zenon DEF LoseIdentity, history
<1>2. log_max \in Nat /\ Taken' = Taken /\ log_max' = log_max
    BY Zenon, <1>1, LogMaxOK, Numbers, SameLog
<1>3. TypeOK'
  <2>1. identity' \in [epoch : Epochs \cup {NoEpoch}, highWater : 0..MaxSeq]
      BY Zenon, <1>1, Bounds
  <2> QED
      BY Zenon, <1>1, <2>1 DEF Inv, TypeOK
<1>4. OneAppend'
  <2>1. \A p \in Publishers : tx[p] = NoTx
      BY Zenon, UnlockedOK DEF LoseIdentity, Inv
  <2> QED
      BY Zenon, <1>1, <2>1 DEF OneAppend
<1>5. Intact' /\ Intact
  <2>1. identity'.highWater = 0
      BY Zenon, <1>1
  <2>2. 0 <= log_max'
      BY Zenon, <1>2, LessOrNot
  <2> QED
      BY Zenon, <1>1, <2>1, <2>2 DEF Inv, HighWater, Intact
<1>6. LatestEpoch' /\ HighWater' /\ Acknowledged'
    BY ZenonT(60), <1>1, <1>2, <1>5 DEF Inv, LatestEpoch, HighWater, Acknowledged
<1>7. Extends /\ OffsetsStay
  <2>1. identity'.epoch = NoEpoch
      BY Zenon, <1>1
  <2> QED
      BY Zenon, <1>1, <1>2, <1>5, <2>1, Successor DEF Extends, OffsetsStay
<1> QED
    BY Zenon, <1>1, <1>3, <1>4, <1>6, <1>7, NoneMoves, TableStep

-----------------------------------------------------------------------------
(* The invariant.                                                          *)

\* The invariant holds of an empty log without an identity.
LEMMA InvInit == Init => Inv
<1> SUFFICES ASSUME Init PROVE Inv
    OBVIOUS
<1>1. Taken = {} /\ log_max = 0
    BY Zenon DEF Init, Taken, log_max
<1>2. TypeOK
  <2>1. Stopped \in Places /\ NoTx \in {NoTx} \cup Txs
      BY Zenon DEF Stopped, Places
  <2>2. source \in [Consumers -> Places] /\ tx \in [Publishers -> {NoTx} \cup Txs]
      BY Zenon, <2>1 DEF Init
  <2>3. /\ log \in [Positions -> Messages \cup {NoMessage}] /\ nextSeq \in 1..(MaxSeq + 1)
        /\ identity \in [epoch : Epochs \cup {NoEpoch}, highWater : 0..MaxSeq]
        /\ offset \in [Groups -> Offsets] /\ minted \in 0..MaxEpoch
    <3>1. 1 \in 1..(MaxSeq + 1)
        BY SMTT(60), Numbers
    <3>2. identity \in [epoch : Epochs \cup {NoEpoch}, highWater : 0..MaxSeq]
        BY Zenon, Bounds DEF Init
    <3>3. log \in [Positions -> Messages \cup {NoMessage}]
        BY Zenon DEF Init
    <3>4. offset = NoOffsets
        BY Zenon DEF Init, NoOffsets
    <3> QED
        BY Zenon, <3>1, <3>2, <3>3, <3>4, NoOffsetsOK, Bounds DEF Init
  <2> QED
      BY Zenon, <2>2, <2>3 DEF Init, TypeOK, Places, Txs, Offsets
<1>3. deployment \in Deployments /\ OneAppend /\ LatestEpoch /\ HighWater
  <2>1. Stopped.epoch = NoEpoch
      BY Zenon DEF Stopped
  <2>2. 0 <= 0 /\ identity.epoch = NoEpoch /\ identity.highWater = 0 /\ minted = 0
      BY SMTT(60) DEF Init
  <2>3. OneAppend
      BY Zenon DEF Init, OneAppend
  <2>4. \A g \in Groups : offset[g].epoch = NoEpoch
      BY Zenon DEF Init
  <2>5. \A c \in Consumers : source[c].epoch = NoEpoch
      BY Zenon, <2>1 DEF Init
  <2>6. LatestEpoch
      BY Zenon, <2>2, <2>4, <2>5 DEF Init, LatestEpoch, NoEpoch
  <2>7. HighWater
      BY Zenon, <1>1, <2>2 DEF HighWater, Intact
  <2> QED
      BY Zenon, <2>3, <2>6, <2>7 DEF Init
<1>4. \A e, s, m : ~Read(e, s, m)
  <2>1. Stopped.buffer = {}
      BY Zenon DEF Stopped
  <2> QED
      BY Zenon, <2>1 DEF Init, Read, ReadIn
<1>5. KnownOnce /\ ReadIsBehind
    BY SMTT(60), <1>1, <1>4 DEF KnownOnce, Known, ReadIsBehind
<1>6. OffsetIsBehind /\ NothingSkipped /\ Acknowledged
  <2>1. \A g \in Groups : offset[g].seq = 0
      BY Zenon DEF Init
  <2>2. 0 <= 0
      OBVIOUS
  <2> QED
      BY Zenon, <1>1, <2>1, <2>2 DEF Init, OffsetIsBehind, NothingSkipped, Acknowledged
<1>7. \A c \in Consumers : Placed(source[c]) /\ InOrder(c)
  <2>1. Stopped.at = "Stopped"
      BY Zenon DEF Stopped
  <2> QED
      BY Zenon, <2>1 DEF Init, Placed, InOrder
<1> QED
    BY SMTT(60), <1>2, <1>3, <1>5, <1>6, <1>7 DEF Inv

\* Every step keeps the invariant.
LEMMA InvNext == Inv /\ [Next]_vars => Inv'
<1> SUFFICES ASSUME Inv, [Next]_vars PROVE Inv'
    OBVIOUS
<1>1. deployment.messages \subseteq Messages /\ deployment.consumers \subseteq Consumers
    BY Zenon, LogAssumption DEF LogAssumption, Inv
<1>2. CASE \E p \in Publishers : Publish(p)
    BY Zenon, <1>1, <1>2, AppendBeginOK, AppendCommitOK, AppendAbortOK DEF Publish
<1>3. CASE \E c \in deployment.consumers : Consume(c) \/ Crash(c)
    BY Zenon, <1>1, <1>3, SubscribeOK, RecvOK, log_readOK, SettleOK, CrashOK DEF Consume
<1>4. CASE Reset \/ LoseTail \/ LoseIdentity
    BY <1>4, ResetOK, LoseTailOK, LoseIdentityOK
<1>5. CASE UNCHANGED vars
  <2>1. UNCHANGED Shared /\ UNCHANGED <<offset, source, seen, forwarded>>
      BY Zenon, <1>5 DEF vars, tables, history, Shared
  <2>2. TypeOK' /\ LatestEpoch'
      BY ZenonT(60), <2>1 DEF Inv, TypeOK, LatestEpoch, Shared
  <2>3. OffsetsStay /\ UNCHANGED deployment
      BY SMTT(60), <2>1 DEF OffsetsStay, Shared
  <2> QED
      BY Zenon, <2>1, <2>2, <2>3, NoneMoves, SharedKeeps, TableStep
<1> QED
    BY Zenon, <1>2, <1>3, <1>4, <1>5 DEF Next

\* The invariant holds in every reachable state of the ordered log.
THEOREM LogInvariant == Spec => []Inv
BY InvInit, InvNext, PTL DEF Spec

\* The ordered log, its publishers and its subscribers keep their types.
THEOREM LogTypes == Spec => []TypeOK
<1>1. Inv => TypeOK
    BY DEF Inv
<1> QED
    BY <1>1, LogInvariant, PTL

\* An epoch and a position that were given to a handler name one envelope for good,
\* through resets, retries and the loss of the log's end or of its identity.
THEOREM CursorsNameOneMessage == Spec => []CursorNamesOneMessage
<1>1. Inv => CursorNamesOneMessage
  <2> SUFFICES ASSUME Inv, NEW a \in seen, NEW b \in seen, a.epoch = b.epoch, a.seq = b.seq
               PROVE  a.message = b.message
      BY DEF CursorNamesOneMessage
  <2>1. /\ a \in [epoch : Epochs, seq : Positions, message : Messages]
        /\ b \in [epoch : Epochs, seq : Positions, message : Messages]
      BY Zenon DEF Inv, TypeOK
  <2>2. /\ a = [epoch |-> a.epoch, seq |-> a.seq, message |-> a.message]
        /\ b = [epoch |-> a.epoch, seq |-> a.seq, message |-> b.message]
      BY Zenon, <2>1
  <2>3. Known(a.epoch, a.seq, a.message) /\ Known(a.epoch, a.seq, b.message)
      BY Zenon, <2>2 DEF Known, Read, ReadIn
  <2> QED
      BY Zenon, <2>1, <2>3 DEF Inv, KnownOnce
<1> QED
    BY <1>1, LogInvariant, PTL

\* No entry that a group wants is behind its offset without having been settled,
\* whichever append committed first and however its consumers interleave.
THEOREM NoEntryIsSkipped == Spec => []NothingSkipped
<1>1. Inv => NothingSkipped
    BY SMTT(60) DEF Inv
<1> QED
    BY <1>1, LogInvariant, PTL

\* While a handler works on an entry of the current epoch, its group has settled
\* every entry before it: a nack drops the read-ahead.
THEOREM NackedEntriesAreReread == Spec => []NackedIsReread
<1>1. Inv => NackedIsReread
  <2> SUFFICES ASSUME Inv, NEW c \in Consumers, source[c].at = "Handler",
                      source[c].epoch = identity.epoch, NEW s \in Taken,
                      s < source[c].current.seq, log[s] \in Wanted[GroupOf[c]]
               PROVE  Done(GroupOf[c], s)
      BY Zenon DEF NackedIsReread
  <2>1. source[c].epoch = minted
    <3>1. source[c].epoch \in Epochs
        BY Zenon DEF Inv, Placed
    <3> QED
        BY Zenon, <3>1, Bounds DEF Inv, LatestEpoch
  <2>2. s \in Before(GroupOf[c], source[c].current.seq)
      BY Zenon DEF Before
  <2>3. Settled(GroupOf[c], minted, s)
      BY Zenon, <2>1, <2>2 DEF Inv, InOrder
  <2> QED
      BY Zenon, <2>1, <2>3 DEF Settled, Done
<1> QED
    BY <1>1, LogInvariant, PTL

\* However often a publish is retried, a confirmed message with a stable id is in
\* the log, once.
THEOREM AckedMessagesAreLoggedOnce == Spec => []AckedIsLoggedOnce
<1>1. Inv => AckedIsLoggedOnce
  <2> SUFFICES ASSUME Inv, NEW m \in acked, StableId[m] # NoId
               PROVE  \E s \in Taken : SameId(m) = {s} /\ log[s] = m
      BY Zenon DEF AckedIsLoggedOnce
  <2>1. PICK s \in Taken : log[s] = m
      BY Zenon DEF Inv, Acknowledged
  <2>2. SameId(m) = {s}
      BY Zenon, <2>1 DEF SameId, Inv, Acknowledged
  <2> QED
      BY Zenon, <2>1, <2>2
<1> QED
    BY <1>1, LogInvariant, PTL

\* The offsets after a step are those of no rows, or those there were, or one of them
\* is moved on by advance_offset.
LEMMA OffsetSteps ==
    ASSUME Inv, [Next]_vars
    PROVE  \/ offset' = NoOffsets \/ offset' = offset
           \/ \E c \in Consumers : source[c].at = "Handler" /\ advance_offset(c)
<1>1. deployment.consumers \subseteq Consumers
    BY Zenon, LogAssumption DEF LogAssumption, Inv
<1>2. CASE \E p \in Publishers : Publish(p)
    BY SMTT(60), <1>2 DEF Publish, AppendBegin, AppendCommit, AppendAbort
<1>3. CASE \E c \in deployment.consumers : Consume(c) \/ Crash(c)
    BY Zenon, <1>1, <1>3 DEF Consume, Subscribe, Install, Recv, log_read, Settle, settle_forward, Crash, tables
<1>4. CASE Reset \/ LoseTail \/ LoseIdentity
    BY Zenon, <1>4 DEF Reset, LoseTail, LoseIdentity
<1>5. CASE UNCHANGED vars
    BY Zenon, <1>5 DEF vars, tables
<1> QED
    BY Zenon, <1>2, <1>3, <1>4, <1>5 DEF Next

\* Within an epoch the offset of a group does not go back, whoever settles last.
THEOREM OffsetsNeverGoBack == Spec => OffsetNeverGoesBack
<1>1. ASSUME Inv, [Next]_vars, NEW g \in Groups, offset'[g].epoch = offset[g].epoch
      PROVE  offset'[g].seq >= offset[g].seq
  <2>1. offset \in [Groups -> Offsets] /\ offset[g].seq \in Nat
      BY Zenon, <1>1, Numbers DEF Inv, TypeOK, Offsets
  <2>2. CASE offset' = NoOffsets
    <3>1. offset'[g].epoch = NoEpoch /\ offset'[g].seq = 0
        BY Zenon, <2>2 DEF NoOffsets
    <3>2. offset[g].epoch = NoEpoch
        BY <1>1, <3>1, Zenon
    <3>3. offset[g].seq = 0
        BY <1>1, <3>2, Zenon DEF Inv, OffsetIsBehind
    <3>4. 0 >= 0
        OBVIOUS
    <3> QED
        BY Zenon, <3>1, <3>3, <3>4
  <2>3. CASE offset' = offset
      BY <2>1, <2>3
  <2>4. ASSUME NEW c \in Consumers, source[c].at = "Handler", advance_offset(c)
        PROVE  offset'[g].seq >= offset[g].seq
    <3>1. source[c].current.seq \in Nat
        BY Zenon, <1>1, <2>4, Numbers DEF Inv, Placed, Row
    <3>2. CASE g # GroupOf[c]
      <4>1. offset'[g] = offset[g]
          BY Zenon, <2>1, <2>4, <3>2 DEF advance_offset
      <4>2. offset[g].seq >= offset[g].seq
          BY <2>1
      <4> QED
          BY Zenon, <4>1, <4>2
    <3>3. CASE g = GroupOf[c]
      <4>1. /\ offset'[g].epoch = source[c].epoch
            /\ offset'[g].seq = IF offset[g].epoch = source[c].epoch
                                THEN Larger(offset[g].seq, source[c].current.seq)
                                ELSE source[c].current.seq
          BY Zenon, <2>1, <2>4, <3>3 DEF advance_offset
      <4>2. offset[g].epoch = source[c].epoch
          BY <1>1, <4>1, Zenon
      <4> QED
          BY SMTT(60), <2>1, <3>1, <4>1, <4>2, LargerOK
    <3> QED
        BY Zenon, <3>2, <3>3
  <2> QED
      BY Zenon, <1>1, <2>2, <2>3, <2>4, OffsetSteps
<1>2. Inv /\ [Next]_vars =>
          [\A g \in Groups : offset'[g].epoch = offset[g].epoch => offset'[g].seq >= offset[g].seq]_vars
    BY Zenon, <1>1
<1> QED
    BY <1>2, LogInvariant, PTL DEF Spec, OffsetNeverGoesBack
=============================================================================
