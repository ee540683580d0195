------------------------- MODULE SqlBusQueueProofs --------------------------
(***************************************************************************)
(* Proofs about the command queue, for any number of rows and listeners,   *)
(* any batch size and any number of lost leases and settlements.           *)
(*                                                                         *)
(* The argument for HandledOnce is a budget.  A row may be handled once    *)
(* while it is in the queue, and once more by every listener that still    *)
(* has a claim on it which does not count any more; a claim stops counting *)
(* while it is held only when its lease is overrun, which is an excuse.    *)
(***************************************************************************)
EXTENDS SqlBusQueue, FiniteSetTheorems, TLAPS

Rows == [state : {"Absent", "Queued", "Gone"}, token : Tokens \cup {0}, leased : BOOLEAN]
Places == [at : {"Stopped", "Recv", "Handler"}, buffer : SUBSET Claim,
           current : Claim \cup {NoClaim}]

\* A listener has one claim on a row, and has taken it out of its buffer when it works on it.
Distinct ==
    \A w \in Workers :
        /\ \A c, d \in worker[w].buffer : c.seq = d.seq => c = d
        /\ \A c \in worker[w].buffer : c.seq # worker[w].current.seq

OnlyQueuedHaveTokens == \A s \in Seqs : row[s].state # "Queued" => row[s].token = 0

\* Row s is w's, for the time being.
Counts(c) == Current(c) /\ row[c.seq].leased

\* Listeners that may still handle row s although their claim does not count.
Spent(s) == {w \in Workers : \E c \in Held(w) : c.seq = s /\ ~Counts(c)}

Open(s) == IF row[s].state = "Gone" THEN 0 ELSE 1

Budget == \A s \in Seqs : handled[s] + Cardinality(Spent(s)) + Open(s) <= 1 + excuse[s]

Inv ==
    /\ TypeOK
    /\ Distinct
    /\ OnlyQueuedHaveTokens
    /\ OneClaimCounts
    /\ Budget

-----------------------------------------------------------------------------
(* Claims.                                                                 *)

\* What a listener holds are claims, one for each row at most.
LEMMA HeldOK ==
    ASSUME TypeOK, Distinct, NEW w \in Workers
    PROVE  /\ Held(w) \subseteq Claim
           /\ worker[w].buffer \subseteq Held(w)
           /\ worker[w].current # NoClaim => worker[w].current \in Held(w)
           /\ \A c, d \in Held(w) : c.seq = d.seq => c = d
<1>1. worker[w] \in Places
    BY DEF TypeOK, Places
<1>2. worker[w].buffer \subseteq Claim /\ worker[w].current \in Claim \cup {NoClaim}
    BY <1>1 DEF Places
<1> QED
    BY <1>2 DEF Held, Distinct

\* A claim is a row's number and a token.
LEMMA ClaimOK ==
    ASSUME NEW c \in Claim
    PROVE  /\ c.seq \in Seqs /\ c.token \in Tokens /\ c.token # 0 /\ c # NoClaim /\ c.seq # 0
           /\ c = [seq |-> c.seq, token |-> c.token]
<1>1. c.seq \in Seqs /\ c.token \in Tokens /\ c = [seq |-> c.seq, token |-> c.token]
    BY DEF Claim
<1>2. c.seq # 0 /\ c.token # 0
    BY <1>1, QueueAssumption DEF QueueAssumption, Tokens
<1>3. c # NoClaim
    BY <1>2 DEF NoClaim
<1> QED
    BY <1>1, <1>2, <1>3

\* There is one token more than there are listeners.
LEMMA TokensOK == IsFiniteSet(Tokens) /\ Cardinality(Tokens) = Cardinality(Workers) + 1
<1>1. Cardinality(Workers) \in Nat
    BY FS_CardinalityType, QueueAssumption DEF QueueAssumption
<1> DEFINE n == Cardinality(Workers) + 1
<1>2. n \in Nat /\ 1 <= n /\ n - 1 + 1 = n
    BY <1>1
<1>3. IsFiniteSet(1..n) /\ Cardinality(1..n) = n
  <2> HIDE DEF n
  <2> QED
      BY <1>2, FS_Interval
<1> QED
    BY Zenon, <1>3 DEF Tokens

\* There are more tokens than listeners, so one of them is free.
LEMMA FreshTokenOK ==
    ASSUME TypeOK, Distinct, NEW s \in Seqs
    PROVE  /\ FreshToken(s) \in Tokens
           /\ \A w \in Workers : [seq |-> s, token |-> FreshToken(s)] \notin Held(w)
<1> DEFINE Free(t) == \A w \in Workers : [seq |-> s, token |-> t] \notin Held(w)
<1>1. \E t \in Tokens : Free(t)
  <2>1. SUFFICES ASSUME \A t \in Tokens : ~Free(t) PROVE FALSE
      OBVIOUS
  <2> DEFINE holder == [t \in Tokens |-> CHOOSE w \in Workers : [seq |-> s, token |-> t] \in Held(w)]
  <2>2. \A t \in Tokens : holder[t] \in Workers /\ [seq |-> s, token |-> t] \in Held(holder[t])
      BY <2>1
  <2>3. holder \in [Tokens -> Workers]
      BY <2>2
  <2>4. IsFiniteSet(Workers) /\ Cardinality(Workers) \in Nat
      BY FS_CardinalityType, QueueAssumption DEF QueueAssumption
  <2>5. PICK t, u \in Tokens : t # u /\ holder[t] = holder[u]
    <3>1. Cardinality(Workers) < Cardinality(Tokens)
        BY <2>4, TokensOK
    <3> HIDE DEF holder
    <3> QED
        BY <2>3, <2>4, <3>1, TokensOK, FS_PigeonHole
  <2>6. [seq |-> s, token |-> t] = [seq |-> s, token |-> u]
    <3> DEFINE c == [seq |-> s, token |-> t]
               d == [seq |-> s, token |-> u]
    <3>1. c.seq = d.seq
        OBVIOUS
    <3>2. c \in Held(holder[t]) /\ d \in Held(holder[t]) /\ holder[t] \in Workers
        BY Zenon, <2>2, <2>5
    <3> HIDE DEF c, d, holder
    <3>3. c = d
        BY Zenon, <3>1, <3>2, HeldOK
    <3> QED
        BY <3>3 DEF c, d
  <2> QED
      BY <2>5, <2>6
<1>2. FreshToken(s) = CHOOSE t \in Tokens : Free(t)
    BY DEF FreshToken
<1> QED
    BY Zenon, <1>1, <1>2

\* The listeners that may handle a row are finitely many; fewer of them count for less.
LEMMA SpentCounts ==
    ASSUME NEW s
    PROVE  /\ IsFiniteSet(Spent(s)) /\ Cardinality(Spent(s)) \in Nat
           /\ IsFiniteSet(Spent(s)') /\ Cardinality(Spent(s)') \in Nat
           /\ Spent(s)' \subseteq Spent(s) => Cardinality(Spent(s)') <= Cardinality(Spent(s))
           /\ \A w \in Spent(s) : Spent(s)' \subseteq Spent(s) \ {w} =>
                  Cardinality(Spent(s)') + 1 <= Cardinality(Spent(s))
           /\ \A w : Spent(s)' \subseteq Spent(s) \cup {w} =>
                  Cardinality(Spent(s)') <= Cardinality(Spent(s)) + 1
<1> DEFINE A == Spent(s)
           B == Spent(s)'
<1>1. IsFiniteSet(Workers) /\ A \subseteq Workers /\ B \subseteq Workers
    BY QueueAssumption DEF QueueAssumption, Spent
<1> HIDE DEF A, B
<1>2. /\ IsFiniteSet(A) /\ Cardinality(A) \in Nat
      /\ IsFiniteSet(B) /\ Cardinality(B) \in Nat
    BY <1>1, FS_Subset, FS_CardinalityType
<1>3. B \subseteq A => Cardinality(B) <= Cardinality(A)
    BY <1>2, FS_Subset
<1>4. ASSUME NEW w \in A, B \subseteq A \ {w}
      PROVE  Cardinality(B) + 1 <= Cardinality(A)
  <2>1. IsFiniteSet(A \ {w}) /\ Cardinality(A \ {w}) = Cardinality(A) - 1
      BY <1>2, <1>4, FS_RemoveElement
  <2>2. Cardinality(B) <= Cardinality(A \ {w})
      BY <1>4, <2>1, FS_Subset
  <2> QED
      BY <1>2, <2>1, <2>2
<1>5. ASSUME NEW w, B \subseteq A \cup {w}
      PROVE  Cardinality(B) <= Cardinality(A) + 1
  <2>1. /\ IsFiniteSet(A \cup {w})
        /\ \/ Cardinality(A \cup {w}) = Cardinality(A)
           \/ Cardinality(A \cup {w}) = Cardinality(A) + 1
      BY <1>2, FS_AddElement
  <2>2. Cardinality(B) <= Cardinality(A \cup {w})
      BY <1>5, <2>1, FS_Subset
  <2> QED
      BY <1>2, <2>1, <2>2
<1> QED
    BY <1>2, <1>3, <1>4, <1>5 DEF A, B

-----------------------------------------------------------------------------
(* Steps other than a claim: nobody gains a claim.                         *)

HeldOf(p) == p.buffer \cup ({p.current} \ {NoClaim})

PlaceOK(p) ==
    /\ p \in Places
    /\ (p.at = "Handler") = (p.current # NoClaim)
    /\ \A c, d \in p.buffer : c.seq = d.seq => c = d
    /\ \A c \in p.buffer : c.seq # p.current.seq

PlacesOK == worker \in [Workers -> Places] /\ \A w \in Workers : PlaceOK(worker[w])

RowsOK == row \in [Seqs -> Rows] /\ handled \in [Seqs -> Nat] /\ excuse \in [Seqs -> Nat]

\* The types, taken apart into those of listeners and of rows.
LEMMA TypesAre == (TypeOK /\ Distinct) <=> (PlacesOK /\ RowsOK)
BY DEF TypeOK, Distinct, PlacesOK, PlaceOK, RowsOK, Rows, Places

\* A listener that goes to a proper place leaves the others in theirs.
LEMMA WorkerMoves ==
    ASSUME PlacesOK, NEW w \in Workers, NEW p, PlaceOK(p), worker' = [worker EXCEPT ![w] = p]
    PROVE  /\ PlacesOK'
           /\ Held(w)' = HeldOf(p)
           /\ \A v \in Workers \ {w} : Held(v)' = Held(v)
<1>1. /\ worker'[w] = p /\ \A v \in Workers \ {w} : worker'[v] = worker[v]
      /\ worker' \in [Workers -> Places]
    BY DEF PlacesOK, PlaceOK
<1>2. \A v \in Workers : PlaceOK(worker'[v])
    BY <1>1 DEF PlacesOK
<1> QED
    BY <1>1, <1>2 DEF PlacesOK, PlaceOK, Held, HeldOf

\* A stopped listener holds nothing.
LEMMA StoppedOK == PlaceOK(Stopped) /\ HeldOf(Stopped) = {}
BY DEF PlaceOK, Places, Stopped, HeldOf, NoClaim

\* Such a step leaves at most one claim on a row that counts.
LEMMA OneClaimKept ==
    ASSUME Inv, \A w \in Workers : Held(w)' \subseteq Held(w),
           \A c \in Claim : Current(c)' => Current(c)
    PROVE  OneClaimCounts'
<1>1. ASSUME NEW v \in Workers, NEW w \in Workers, NEW c \in Held(v)' \cap Held(w)', Current(c)'
      PROVE  v = w
  <2>1. c \in Held(v) /\ c \in Held(w) /\ c \in Claim
      BY <1>1, HeldOK DEF Inv
  <2> QED
      BY <1>1, <2>1 DEF Inv, OneClaimCounts
<1> QED
    BY <1>1 DEF OneClaimCounts

\* A row that does not change has no new spent claims.
LEMMA SpentKept ==
    ASSUME NEW s, \A w \in Workers : \A c \in Held(w)' : c.seq = s => c \in Held(w),
           row'[s] = row[s]
    PROVE  Spent(s)' \subseteq Spent(s)
<1>1. \A c : c.seq = s => Counts(c)' = Counts(c)
    BY DEF Counts, Current
<1> QED
    BY <1>1 DEF Spent

\* What is left of Inv once the types are known.
LEMMA InvIs == Inv <=> PlacesOK /\ RowsOK /\ OnlyQueuedHaveTokens /\ OneClaimCounts /\ Budget
BY TypesAre DEF Inv

\* A step of one listener that lets go of claims, or moves one out of its buffer.
LEMMA LetsGo ==
    ASSUME Inv, NEW w \in Workers, NEW p, PlaceOK(p), worker' = [worker EXCEPT ![w] = p],
           HeldOf(p) \subseteq Held(w), UNCHANGED <<row, handled, excuse>>
    PROVE  Inv'
<1>1. PlacesOK /\ RowsOK /\ OnlyQueuedHaveTokens /\ Budget
    BY InvIs
<1>2. PlacesOK' /\ \A v \in Workers : Held(v)' \subseteq Held(v)
    BY Zenon, <1>1, WorkerMoves
<1>3. RowsOK' /\ OnlyQueuedHaveTokens'
    BY <1>1 DEF RowsOK, OnlyQueuedHaveTokens
<1>4. OneClaimCounts'
    BY <1>2, OneClaimKept DEF Current
<1>5. Budget'
  <2>1. ASSUME NEW s \in Seqs
        PROVE  handled[s] + Cardinality(Spent(s)') + Open(s) <= 1 + excuse[s]
    <3>1. Cardinality(Spent(s)') <= Cardinality(Spent(s))
        BY <1>2, SpentKept, SpentCounts
    <3>2. handled[s] + Cardinality(Spent(s)) + Open(s) <= 1 + excuse[s]
        BY <1>1 DEF Budget
    <3>3. handled[s] \in Nat /\ excuse[s] \in Nat /\ Open(s) \in Nat
        BY <1>1 DEF RowsOK, Open
    <3> QED
        BY <3>1, <3>2, <3>3, SpentCounts
  <2> QED
      BY <2>1 DEF Budget, Open
<1>6. PlacesOK' /\ RowsOK' /\ OnlyQueuedHaveTokens' /\ OneClaimCounts' /\ Budget' => Inv'
    BY InvIs, PTL
<1> QED
    BY <1>2, <1>3, <1>4, <1>5, <1>6

\* Starting keeps the invariant.
LEMMA ListenKeeps ==
    ASSUME Inv, NEW w \in Workers, Listen(w)
    PROVE  Inv'
<1> DEFINE p == [Stopped EXCEPT !.at = "Recv"]
<1>1. PlaceOK(p) /\ HeldOf(p) = {}
    BY DEF PlaceOK, Places, Stopped, HeldOf, NoClaim
<1>2. worker' = [worker EXCEPT ![w] = p] /\ UNCHANGED <<row, handled, excuse>>
    BY DEF Listen
<1> QED
    BY Zenon, <1>1, <1>2, LetsGo

\* So does losing everything that is held.
LEMMA CrashKeeps ==
    ASSUME Inv, NEW w \in Workers, worker' = [worker EXCEPT ![w] = Stopped],
           UNCHANGED <<row, handled, excuse>>
    PROVE  Inv'
BY Zenon, StoppedOK, LetsGo

\* Taking the next row of the buffer keeps the invariant.
LEMMA RecvKeeps ==
    ASSUME Inv, NEW w \in Workers, Recv(w)
    PROVE  Inv'
<1>1. PICK c \in worker[w].buffer :
          worker' = [worker EXCEPT ![w] = [at |-> "Handler", buffer |-> @.buffer \ {c},
                                           current |-> c]]
    BY Zenon DEF Recv
<1> DEFINE p == [at |-> "Handler", buffer |-> worker[w].buffer \ {c}, current |-> c]
<1>2. worker[w] \in Places /\ PlaceOK(worker[w])
    BY InvIs DEF PlacesOK
<1>3. c \in Claim /\ c # NoClaim
    BY <1>2, ClaimOK DEF Places
<1>4. PlaceOK(p)
    BY <1>2, <1>3 DEF PlaceOK, Places
<1>5. HeldOf(p) \subseteq Held(w)
    BY DEF HeldOf, Held
<1>6. worker' = [worker EXCEPT ![w] = p] /\ UNCHANGED <<row, handled, excuse>>
    BY Zenon, <1>1 DEF Recv
<1> HIDE DEF p
<1> QED
    BY Zenon, <1>4, <1>5, <1>6, LetsGo

\* The budget of a row, as numbers.
LEMMA BudgetOf ==
    ASSUME Inv, NEW s \in Seqs
    PROVE  /\ handled[s] + Cardinality(Spent(s)) + Open(s) <= 1 + excuse[s]
           /\ handled[s] \in Nat /\ excuse[s] \in Nat /\ Open(s) \in Nat
           /\ Cardinality(Spent(s)) \in Nat /\ Cardinality(Spent(s)') \in Nat
BY InvIs, SpentCounts DEF Budget, RowsOK, Open

\* A row is put in place of another.
LEMMA RowMoves ==
    ASSUME RowsOK, OnlyQueuedHaveTokens, NEW s \in Seqs, NEW r \in Rows,
           r.state # "Queued" => r.token = 0, row' = [row EXCEPT ![s] = r]
    PROVE  /\ row' \in [Seqs -> Rows] /\ OnlyQueuedHaveTokens'
           /\ row'[s] = r /\ \A t \in Seqs \ {s} : row'[t] = row[t]
BY DEF RowsOK, OnlyQueuedHaveTokens

\* A new row has no claim.
LEMMA SendKeeps ==
    ASSUME Inv, NEW s \in Seqs, Send(s)
    PROVE  Inv'
<1> DEFINE r == [row[s] EXCEPT !.state = "Queued"]
<1>1. PlacesOK /\ RowsOK /\ OnlyQueuedHaveTokens
    BY InvIs
<1>2. row[s] \in Rows /\ row[s].token = 0 /\ row[s].state = "Absent"
    BY <1>1 DEF RowsOK, OnlyQueuedHaveTokens, Send
<1>3. r \in Rows /\ r.state = "Queued" /\ r.token = 0
    BY <1>2 DEF Rows
<1>4. row' = [row EXCEPT ![s] = r] /\ UNCHANGED <<worker, handled, excuse>>
    BY DEF Send
<1> HIDE DEF r
<1>5. /\ row' \in [Seqs -> Rows] /\ OnlyQueuedHaveTokens'
      /\ row'[s] = r /\ \A t \in Seqs \ {s} : row'[t] = row[t]
    BY Zenon, <1>1, <1>3, <1>4, RowMoves
<1>6. PlacesOK' /\ RowsOK' /\ \A w : Held(w)' = Held(w)
    BY <1>1, <1>4, <1>5 DEF PlacesOK, RowsOK, Held
<1>7. OneClaimCounts'
  <2>1. ASSUME NEW c \in Claim, Current(c)' PROVE Current(c)
      BY <1>3, <1>5, <2>1, ClaimOK DEF Current
  <2> QED
      BY <1>6, <2>1, OneClaimKept
<1>8. Budget'
  <2>1. ASSUME NEW t \in Seqs
        PROVE  /\ Spent(t)' \subseteq Spent(t)
               /\ Open(t)' <= Open(t) /\ Open(t)' \in Nat
    <3>1. CASE t # s
        BY <1>5, <1>6, <3>1, SpentKept DEF Open
    <3>2. CASE t = s
      <4>1. \A c \in Claim : c.seq = s => ~Counts(c)
          BY <1>2, ClaimOK DEF Counts, Current
      <4>2. Spent(t)' \subseteq Spent(t)
          BY <1>6, <3>2, <4>1, InvIs, TypesAre, HeldOK DEF Spent
      <4> QED
          BY <1>2, <3>2, <4>2 DEF Open
    <3> QED
        BY <3>1, <3>2
  <2>2. ASSUME NEW t \in Seqs
        PROVE  handled'[t] + Cardinality(Spent(t)') + Open(t)' <= 1 + excuse'[t]
      BY <1>4, <2>1, BudgetOf, SpentCounts
  <2> QED
      BY <2>2 DEF Budget
<1>9. PlacesOK' /\ RowsOK' /\ OnlyQueuedHaveTokens' /\ OneClaimCounts' /\ Budget' => Inv'
    BY InvIs, PTL
<1> QED
    BY <1>5, <1>6, <1>7, <1>8, <1>9

\* A lease that runs out on a claim somebody holds is an excuse.
LEMMA ExpireKeeps ==
    ASSUME Inv, NEW s \in Seqs, Expire(s)
    PROVE  Inv'
<1> DEFINE r == [row[s] EXCEPT !.leased = FALSE]
           held == \E w \in Workers : \E c \in Held(w) : c.seq = s /\ Current(c)
<1>1. PlacesOK /\ RowsOK /\ OnlyQueuedHaveTokens /\ OneClaimCounts
    BY InvIs
<1>2. row[s] \in Rows /\ (row[s].state # "Queued" => row[s].token = 0)
    BY <1>1 DEF RowsOK, OnlyQueuedHaveTokens
<1>3. r \in Rows /\ r.state = row[s].state /\ r.token = row[s].token
    BY Zenon, <1>2 DEF Rows
<1>4. row' = [row EXCEPT ![s] = r] /\ UNCHANGED <<worker, handled>>
    BY DEF Expire
<1>5. /\ held => excuse' = [excuse EXCEPT ![s] = @ + 1]
      /\ ~held => UNCHANGED excuse
    BY DEF Expire
<1> HIDE DEF r, held
<1>6. /\ row' \in [Seqs -> Rows] /\ OnlyQueuedHaveTokens'
      /\ row'[s] = r /\ \A t \in Seqs \ {s} : row'[t] = row[t]
    BY Zenon, <1>1, <1>2, <1>3, <1>4, RowMoves
<1>7. PlacesOK' /\ RowsOK' /\ \A w : Held(w)' = Held(w)
    BY <1>1, <1>4, <1>5, <1>6 DEF PlacesOK, RowsOK, Held
<1>8. \A c \in Claim : Current(c)' <=> Current(c)
    BY <1>3, <1>6, ClaimOK DEF Current
<1>9. OneClaimCounts'
    BY <1>7, <1>8, OneClaimKept
<1>10. Budget'
  <2>1. ASSUME NEW t \in Seqs
        PROVE  handled'[t] + Cardinality(Spent(t)') + Open(t)' <= 1 + excuse'[t]
    <3>1. Open(t)' = Open(t)
        BY <1>3, <1>6 DEF Open
    <3>2. CASE t # s
      <4>1. Spent(t)' \subseteq Spent(t) /\ excuse'[t] = excuse[t]
          BY <1>1, <1>5, <1>6, <1>7, <3>2, SpentKept DEF RowsOK
      <4> QED
          BY <1>4, <3>1, <4>1, BudgetOf, SpentCounts
    <3>3. CASE t = s /\ held
      <4>1. PICK v \in Workers : \E c \in Held(v) : c.seq = s /\ Current(c)
          BY <3>3 DEF held
      <4>2. ASSUME NEW w \in Spent(s)', w # v
            PROVE  w \in Spent(s)
        <5>1. PICK c \in Held(w) : w \in Workers /\ c.seq = s
            BY <1>7, <4>2 DEF Spent
        <5>2. ~Current(c)
          <6>1. PICK d \in Held(v) : d.seq = s /\ Current(d)
              BY <4>1
          <6>2. c \in Claim /\ d \in Claim
              BY <5>1, <6>1, InvIs, TypesAre, HeldOK
          <6>3. Current(c) => c = d
              BY <5>1, <6>1, <6>2, ClaimOK DEF Current
          <6> QED
              BY <1>1, <4>2, <5>1, <6>1, <6>3 DEF OneClaimCounts
        <5> QED
            BY <5>1, <5>2 DEF Spent, Counts
      <4>3. Cardinality(Spent(s)') <= Cardinality(Spent(s)) + 1
        <5>1. Spent(s)' \subseteq Spent(s) \cup {v}
            BY <4>2
        <5> QED
            BY <5>1, SpentCounts
      <4>4. excuse'[s] = excuse[s] + 1
          BY <1>1, <1>5, <3>3 DEF RowsOK
      <4> QED
          BY <1>4, <3>1, <3>3, <4>3, <4>4, BudgetOf
    <3>4. CASE t = s /\ ~held
      <4>1. Spent(s)' \subseteq Spent(s)
          BY <1>7, <3>4 DEF Spent, Counts, held
      <4>2. excuse'[s] = excuse[s]
          BY ZenonT(60), <1>5, <3>4
      <4> QED
          BY <1>4, <3>1, <3>4, <4>1, <4>2, BudgetOf, SpentCounts
    <3> QED
        BY <3>2, <3>3, <3>4
  <2> QED
      BY <2>1 DEF Budget
<1>11. PlacesOK' /\ RowsOK' /\ OnlyQueuedHaveTokens' /\ OneClaimCounts' /\ Budget' => Inv'
    BY InvIs, PTL
<1> QED
    BY <1>6, <1>7, <1>9, <1>10, <1>11

\* A settlement touches the row only under the token it carries, and ends the claim.
LEMMA ApplyMoves ==
    ASSUME RowsOK, OnlyQueuedHaveTokens, NEW w \in Workers, NEW v \in Verdicts,
           worker[w].current \in Claim, Apply(w, v)
    PROVE  LET c == worker[w].current
           IN  /\ row' \in [Seqs -> Rows] /\ OnlyQueuedHaveTokens'
               /\ \A t \in Seqs \ {c.seq} : row'[t] = row[t]
               /\ \/ row'[c.seq] = row[c.seq]
                  \/ /\ Current(c) /\ row'[c.seq].token = 0
                     /\ row'[c.seq].state \in {"Queued", "Gone"}
               /\ v = "Ok" /\ Current(c) => row'[c.seq].state = "Gone"
<1> DEFINE c == worker[w].current
           gone == [row[c.seq] EXCEPT !.state = "Gone", !.token = 0, !.leased = FALSE]
           free == [row[c.seq] EXCEPT !.token = 0, !.leased = FALSE]
<1>1. c.seq \in Seqs /\ row[c.seq] \in Rows
    BY ClaimOK DEF RowsOK
<1>2. /\ gone \in Rows /\ gone.state = "Gone" /\ gone.token = 0
      /\ free \in Rows /\ free.state = row[c.seq].state /\ free.token = 0
    BY Zenon, <1>1 DEF Rows
<1>3. \/ UNCHANGED row
      \/ Current(c) /\ row' = [row EXCEPT ![c.seq] = gone]
      \/ Current(c) /\ row' = [row EXCEPT ![c.seq] = free]
    BY DEF Apply, delete_claimed, release_claim
<1>4. v = "Ok" /\ Current(c) => row' = [row EXCEPT ![c.seq] = gone]
  <2>1. Settlement("Ok") = "Ack"
      BY DEF Settlement
  <2> QED
      BY <2>1 DEF Apply, delete_claimed, Forward
<1>5. Current(c) => row[c.seq].state = "Queued"
    BY DEF Current
<1> HIDE DEF c, gone, free
<1>6. CASE UNCHANGED row
  <2>1. v = "Ok" /\ Current(c) => row'[c.seq].state = "Gone"
      BY <1>1, <1>2, <1>4 DEF RowsOK
  <2> QED
      BY <1>6, <2>1 DEF RowsOK, OnlyQueuedHaveTokens, c
<1>7. CASE Current(c) /\ row' = [row EXCEPT ![c.seq] = gone]
  <2>1. /\ row' \in [Seqs -> Rows] /\ OnlyQueuedHaveTokens'
        /\ row'[c.seq] = gone /\ \A t \in Seqs \ {c.seq} : row'[t] = row[t]
      BY Zenon, <1>1, <1>2, <1>7, RowMoves
  <2> QED
      BY Zenon, <1>2, <1>7, <2>1 DEF c
<1>8. CASE Current(c) /\ row' = [row EXCEPT ![c.seq] = free]
  <2>1. /\ row' \in [Seqs -> Rows] /\ OnlyQueuedHaveTokens'
        /\ row'[c.seq] = free /\ \A t \in Seqs \ {c.seq} : row'[t] = row[t]
      BY Zenon, <1>1, <1>2, <1>5, <1>8, RowMoves
  <2>2. v = "Ok" => row'[c.seq].state = "Gone"
      BY <1>1, <1>2, <1>4, <1>8 DEF RowsOK
  <2> QED
      BY Zenon, <1>2, <1>5, <1>8, <2>1, <2>2 DEF c
<1> QED
    BY Zenon, <1>3, <1>6, <1>7, <1>8

\* Once a listener has done with the row it works on, it has no claim on it.
LEMMA CurrentGone ==
    ASSUME Inv, NEW w \in Workers, worker[w].at = "Handler", NEW p, PlaceOK(p),
           p.buffer \subseteq worker[w].buffer, p.current = NoClaim,
           worker' = [worker EXCEPT ![w] = p]
    PROVE  LET c == worker[w].current
           IN  /\ c \in Claim /\ c \in Held(w)
               /\ PlacesOK' /\ \A v \in Workers : Held(v)' \subseteq Held(v)
               /\ \A v \in Workers \ {w} : Held(v)' = Held(v)
               /\ \A d \in Held(w)' : d.seq # c.seq
<1>1. PlacesOK /\ PlaceOK(worker[w]) /\ worker[w] \in Places
    BY InvIs DEF PlacesOK
<1>2. worker[w].current \in Claim /\ worker[w].current # NoClaim
    BY <1>1 DEF PlaceOK, Places
<1>3. /\ PlacesOK' /\ Held(w)' = HeldOf(p)
      /\ \A v \in Workers \ {w} : Held(v)' = Held(v)
    BY Zenon, <1>1, WorkerMoves
<1>4. HeldOf(p) \subseteq worker[w].buffer
    BY DEF HeldOf
<1> QED
    BY Zenon, <1>1, <1>2, <1>3, <1>4 DEF Held, PlaceOK

\* A settlement spends no claim of another listener.
LEMMA SettleSpends ==
    ASSUME Inv, NEW w \in Workers, NEW c \in Claim, c \in Held(w),
           \A v \in Workers : Held(v)' \subseteq Held(v), \A d \in Held(w)' : d.seq # c.seq,
           \A t \in Seqs \ {c.seq} : row'[t] = row[t],
           row'[c.seq] = row[c.seq] \/ Current(c),
           NEW s \in Seqs
    PROVE  Spent(s)' \subseteq Spent(s)
<1>1. CASE row'[s] = row[s]
    BY <1>1, SpentKept
<1>2. CASE row'[s] # row[s]
  <2>1. s = c.seq /\ Current(c)
      BY <1>2
  <2>2. ASSUME NEW v \in Spent(s)' PROVE v \in Spent(s)
    <3>1. PICK d \in Held(v)' : v \in Workers /\ d.seq = s
        BY <2>2 DEF Spent
    <3>2. v # w /\ d \in Held(v) /\ d \in Claim
        BY <2>1, <3>1, InvIs, TypesAre, HeldOK
    <3>3. Current(d) => d = c
        BY <2>1, <3>1, <3>2, ClaimOK DEF Current
    <3>4. ~Current(d)
        BY <2>1, <3>1, <3>2, <3>3, InvIs DEF OneClaimCounts
    <3> QED
        BY <3>1, <3>2, <3>4 DEF Spent, Counts
  <2> QED
      BY <2>2
<1> QED
    BY <1>1, <1>2

\* A settlement frees the row of its own claim or nothing.
LEMMA SettleKeeps ==
    ASSUME Inv, NEW w \in Workers, NEW v \in Verdicts, Settle(w, v)
    PROVE  Inv'
<1> DEFINE c == worker[w].current
           p == IF Settlement(v) \in {"NackAndStop", "Stop"} THEN Stopped
                ELSE [worker[w] EXCEPT !.at = "Recv", !.current = NoClaim]
<1>1. PlacesOK /\ RowsOK /\ OnlyQueuedHaveTokens /\ PlaceOK(worker[w]) /\ worker[w] \in Places
    BY InvIs DEF PlacesOK
<1>2. /\ worker[w].at = "Handler" /\ Apply(w, v)
      /\ worker' = [worker EXCEPT ![w] = p]
      /\ handled' = [handled EXCEPT ![c.seq] = IF v = "Ok" THEN @ + 1 ELSE @]
      /\ UNCHANGED excuse
    BY DEF Settle
<1>3. PlaceOK(p) /\ p.buffer \subseteq worker[w].buffer /\ p.current = NoClaim
  <2>1. CASE Settlement(v) \in {"NackAndStop", "Stop"}
    <3>1. PlaceOK(Stopped) /\ Stopped.buffer = {} /\ Stopped.current = NoClaim
        BY StoppedOK DEF Stopped
    <3> QED
        BY <2>1, <3>1
  <2>2. CASE Settlement(v) \notin {"NackAndStop", "Stop"}
    <3> DEFINE q == [worker[w] EXCEPT !.at = "Recv", !.current = NoClaim]
    <3>1. /\ q \in Places /\ q.at = "Recv" /\ q.current = NoClaim
          /\ q.buffer = worker[w].buffer /\ q.buffer \subseteq Claim
        BY Zenon, <1>1 DEF Places
    <3>2. p = q
        BY <2>2
    <3> HIDE DEF q, p
    <3>3. \A d \in q.buffer : d.seq # q.current.seq
        BY <3>1, ClaimOK DEF NoClaim
    <3> QED
        BY <1>1, <3>1, <3>2, <3>3 DEF PlaceOK
  <2> QED
      BY <2>1, <2>2
<1> HIDE DEF p
<1>4. /\ c \in Claim /\ c \in Held(w)
      /\ PlacesOK' /\ \A u \in Workers : Held(u)' \subseteq Held(u)
      /\ \A d \in Held(w)' : d.seq # c.seq
    BY ZenonT(60), <1>2, <1>3, CurrentGone
<1>5. /\ row' \in [Seqs -> Rows] /\ OnlyQueuedHaveTokens'
      /\ \A t \in Seqs \ {c.seq} : row'[t] = row[t]
      /\ \/ row'[c.seq] = row[c.seq]
         \/ Current(c) /\ row'[c.seq].token = 0 /\ row'[c.seq].state \in {"Queued", "Gone"}
      /\ v = "Ok" /\ Current(c) => row'[c.seq].state = "Gone"
    BY Zenon, <1>1, <1>2, <1>4, ApplyMoves
<1> HIDE DEF c
<1>6. RowsOK'
  <2>1. handled \in [Seqs -> Nat] /\ excuse \in [Seqs -> Nat]
      BY <1>1 DEF RowsOK
  <2>2. CASE v = "Ok"
    <3>1. handled' = [handled EXCEPT ![c.seq] = @ + 1]
        BY <1>2, <2>2
    <3>2. handled' \in [Seqs -> Nat] /\ excuse' \in [Seqs -> Nat]
      <4>1. UNCHANGED excuse /\ c.seq \in Seqs
          BY <1>2, <1>4, ClaimOK
      <4>2. handled[c.seq] + 1 \in Nat
          BY <2>1, <4>1
      <4> QED
          BY <2>1, <3>1, <4>1, <4>2
    <3> QED
        BY Zenon, <1>5, <3>2 DEF RowsOK
  <2>3. CASE v # "Ok"
    <3>1. handled' = [handled EXCEPT ![c.seq] = @]
        BY Zenon, <1>2, <2>3
    <3>2. handled' \in [Seqs -> Nat] /\ excuse' \in [Seqs -> Nat]
      <4>1. UNCHANGED excuse
          BY <1>2
      <4> QED
          BY Zenon, <2>1, <3>1, <4>1
    <3> QED
        BY <1>5, <3>2 DEF RowsOK
  <2> QED
      BY <2>2, <2>3
<1>7. OneClaimCounts'
  <2>1. ASSUME NEW d \in Claim, Current(d)' PROVE Current(d)
      BY <1>5, <2>1, ClaimOK DEF Current
  <2> QED
      BY <1>4, <2>1, OneClaimKept
<1>8. ASSUME NEW s \in Seqs
      PROVE  handled'[s] + Cardinality(Spent(s)') + Open(s)' <= 1 + excuse'[s]
  <2>1. Spent(s)' \subseteq Spent(s)
      BY Zenon, <1>4, <1>5, SettleSpends
  <2>2. Open(s)' <= Open(s) /\ Open(s)' \in Nat
      BY <1>5 DEF Open, Current
  <2>3. CASE s = c.seq /\ v = "Ok" /\ Current(c)
    <3>1. Open(s)' = 0 /\ Open(s) = 1 /\ handled'[s] = handled[s] + 1
        BY <1>1, <1>2, <1>5, <2>3 DEF Open, Current, RowsOK
    <3>2. /\ handled[s] + Cardinality(Spent(s)) + Open(s) <= 1 + excuse[s]
          /\ handled[s] \in Nat /\ excuse[s] \in Nat /\ Cardinality(Spent(s)) \in Nat
        BY Zenon, BudgetOf
    <3>3. Cardinality(Spent(s)') \in Nat /\ Cardinality(Spent(s)') <= Cardinality(Spent(s))
        BY Zenon, <2>1, SpentCounts
    <3> QED
        BY SMTT(60), <1>2, <3>1, <3>2, <3>3
  <2>4. CASE s = c.seq /\ v = "Ok" /\ ~Current(c)
    <3>1. w \in Spent(s) /\ w \notin Spent(s)'
        BY Zenon, <1>4, <2>4 DEF Spent, Counts
    <3>2. Cardinality(Spent(s)') + 1 <= Cardinality(Spent(s))
      <4>1. Spent(s)' \subseteq Spent(s) \ {w}
          BY <2>1, <3>1
      <4> QED
          BY <3>1, <4>1, SpentCounts
    <3>3. handled'[s] = handled[s] + 1
        BY <1>1, <1>2, <2>4 DEF RowsOK
    <3> QED
        BY SMTT(60), <1>2, <2>2, <3>2, <3>3, BudgetOf
  <2>5. CASE ~(s = c.seq /\ v = "Ok")
    <3>1. handled'[s] = handled[s]
        BY <1>1, <1>2, <2>5 DEF RowsOK
    <3>2. /\ handled[s] + Cardinality(Spent(s)) + Open(s) <= 1 + excuse[s]
          /\ handled[s] \in Nat /\ excuse[s] \in Nat /\ Cardinality(Spent(s)) \in Nat
          /\ Open(s) \in Nat
        BY Zenon, BudgetOf
    <3>3. Cardinality(Spent(s)') \in Nat /\ Cardinality(Spent(s)') <= Cardinality(Spent(s))
        BY Zenon, <2>1, SpentCounts
    <3> QED
        BY SMTT(60), <1>2, <2>2, <3>1, <3>2, <3>3
  <2> QED
      BY <2>3, <2>4, <2>5
<1>9. Budget'
    BY <1>8 DEF Budget
<1>10. PlacesOK' /\ RowsOK' /\ OnlyQueuedHaveTokens' /\ OneClaimCounts' /\ Budget' => Inv'
    BY InvIs, PTL
<1> QED
    BY <1>4, <1>5, <1>6, <1>7, <1>9, <1>10

\* A settlement that is lost leaves its row to the lease.
LEMMA SettleLostKeeps ==
    ASSUME Inv, NEW w \in Workers, SettleLost(w)
    PROVE  Inv'
<1> DEFINE c == worker[w].current
<1>1. PlacesOK /\ RowsOK /\ OnlyQueuedHaveTokens
    BY InvIs
<1>2. /\ worker[w].at = "Handler" /\ worker' = [worker EXCEPT ![w] = Stopped]
      /\ handled' = [handled EXCEPT ![c.seq] = @ + 1]
      /\ excuse' = [excuse EXCEPT ![c.seq] = @ + 1]
      /\ UNCHANGED row
    BY DEF SettleLost
<1>3. PlaceOK(Stopped) /\ Stopped.buffer \subseteq worker[w].buffer /\ Stopped.current = NoClaim
    BY StoppedOK DEF Stopped
<1>4. /\ c \in Claim /\ PlacesOK' /\ \A u \in Workers : Held(u)' \subseteq Held(u)
    BY Zenon, <1>2, <1>3, CurrentGone
<1> HIDE DEF c
<1>5. RowsOK' /\ OnlyQueuedHaveTokens'
    BY <1>1, <1>2, <1>4, ClaimOK DEF RowsOK, OnlyQueuedHaveTokens
<1>6. OneClaimCounts'
    BY SMTT(60), <1>2, <1>4, OneClaimKept DEF Current
<1>7. ASSUME NEW s \in Seqs
      PROVE  handled'[s] + Cardinality(Spent(s)') + Open(s)' <= 1 + excuse'[s]
  <2>1. Spent(s)' \subseteq Spent(s) /\ Open(s)' = Open(s)
      BY <1>2, <1>4, SpentKept DEF Open
  <2>2. \/ handled'[s] = handled[s] /\ excuse'[s] = excuse[s]
        \/ handled'[s] = handled[s] + 1 /\ excuse'[s] = excuse[s] + 1
      BY <1>1, <1>2 DEF RowsOK
  <2> QED
      BY <2>1, <2>2, BudgetOf, SpentCounts
<1>8. Budget'
    BY <1>7 DEF Budget
<1>9. PlacesOK' /\ RowsOK' /\ OnlyQueuedHaveTokens' /\ OneClaimCounts' /\ Budget' => Inv'
    BY InvIs, PTL
<1> QED
    BY <1>4, <1>5, <1>6, <1>8, <1>9

-----------------------------------------------------------------------------
(* The claim.                                                              *)

\* A claim takes rows without a lease, under tokens nobody has for them.
LEMMA ClaimMoves ==
    ASSUME Inv, NEW w \in Workers, worker[w].at = "Recv", worker[w].buffer = {},
           NEW S \in SUBSET Claimable, claim(w, S)
    PROVE  /\ PlacesOK' /\ row' \in [Seqs -> Rows] /\ OnlyQueuedHaveTokens'
           /\ \A v \in Workers \ {w} : Held(v)' = Held(v)
           /\ Held(w) = {} /\ Held(w)' = {[seq |-> s, token |-> FreshToken(s)] : s \in S}
           /\ \A s \in Seqs \ S : row'[s] = row[s]
           /\ \A s \in S : /\ row'[s].state = "Queued" /\ row[s].state = "Queued"
                           /\ row'[s].token = FreshToken(s)
                           /\ row'[s].leased /\ ~row[s].leased
<1> DEFINE new(s) == [row[s] EXCEPT !.leased = TRUE, !.token = FreshToken(s)]
           mine == {[seq |-> s, token |-> FreshToken(s)] : s \in S}
           p == [worker[w] EXCEPT !.buffer = mine]
<1>1. PlacesOK /\ RowsOK /\ OnlyQueuedHaveTokens /\ PlaceOK(worker[w]) /\ worker[w] \in Places
    BY InvIs DEF PlacesOK
<1>2. TypeOK /\ Distinct
    BY DEF Inv
<1>3. \A s \in S : s \in Seqs /\ FreshToken(s) \in Tokens /\ row[s].state = "Queued" /\ ~row[s].leased
    BY Zenon, <1>2, FreshTokenOK DEF Claimable
<1>4. row' = [s \in Seqs |-> IF s \in S THEN new(s) ELSE row[s]]
    BY ZenonT(60), <1>3 DEF claim
<1>5. worker' = [worker EXCEPT ![w] = p]
    BY ZenonT(60), <1>3 DEF claim
<1>6. ASSUME NEW s \in S
      PROVE  /\ new(s) \in Rows /\ new(s).state = "Queued"
             /\ new(s).token = FreshToken(s) /\ new(s).leased
    BY Zenon, <1>1, <1>3 DEF RowsOK, Rows
<1>7. /\ row' \in [Seqs -> Rows]
      /\ \A s \in Seqs \ S : row'[s] = row[s]
      /\ \A s \in S : row'[s] = new(s)
    <2> HIDE DEF new
    <2> QED
      BY <1>1, <1>3, <1>4, <1>6 DEF RowsOK
<1> HIDE DEF new
<1>8. OnlyQueuedHaveTokens'
    BY <1>1, <1>6, <1>7 DEF OnlyQueuedHaveTokens
<1>9. mine \subseteq Claim /\ \A c, d \in mine : c.seq = d.seq => c = d
    BY SMTT(60), <1>3 DEF Claim
<1> HIDE DEF mine
<1>10. worker[w].current = NoClaim
    BY <1>1 DEF PlaceOK
<1>11. p \in Places /\ p.buffer = mine /\ p.at = "Recv" /\ p.current = NoClaim
    BY <1>1, <1>9, <1>10 DEF Places
<1> HIDE DEF p
<1>12. PlaceOK(p) /\ HeldOf(p) = mine
  <2>1. \A c \in mine : c.seq # NoClaim.seq
      BY <1>9, ClaimOK DEF NoClaim
  <2> QED
      BY <1>9, <1>11, <2>1 DEF PlaceOK, HeldOf
<1>13. /\ PlacesOK' /\ Held(w)' = mine
       /\ \A v \in Workers \ {w} : Held(v)' = Held(v)
    BY Zenon, <1>1, <1>5, <1>12, WorkerMoves
<1>14. Held(w) = {}
    BY <1>10 DEF Held
<1> QED
    BY Zenon, <1>3, <1>6, <1>7, <1>8, <1>13, <1>14 DEF mine

\* A claim is under a token that no listener holds for the row.
LEMMA ClaimKeeps ==
    ASSUME Inv, NEW w \in Workers, worker[w].at = "Recv", worker[w].buffer = {},
           NEW S \in SUBSET Claimable, claim(w, S), UNCHANGED <<handled, excuse>>
    PROVE  Inv'
<1>1. /\ PlacesOK' /\ row' \in [Seqs -> Rows] /\ OnlyQueuedHaveTokens'
      /\ \A v \in Workers \ {w} : Held(v)' = Held(v)
      /\ Held(w) = {} /\ Held(w)' = {[seq |-> s, token |-> FreshToken(s)] : s \in S}
      /\ \A s \in Seqs \ S : row'[s] = row[s]
      /\ \A s \in S : /\ row'[s].state = "Queued" /\ row[s].state = "Queued"
                      /\ row'[s].token = FreshToken(s)
                      /\ row'[s].leased /\ ~row[s].leased
    BY Zenon, ClaimMoves
<1>2. TypeOK /\ Distinct /\ RowsOK /\ OneClaimCounts /\ S \subseteq Seqs
    BY Zenon, InvIs, TypesAre DEF Claimable
<1>3. RowsOK'
    BY Zenon, <1>1, <1>2 DEF RowsOK
\* No claim on a row of S that was there before counts any more.
<1>4. ASSUME NEW v \in Workers \ {w}, NEW c \in Held(v), c.seq \in S
      PROVE  ~Current(c)'
  <2>1. c = [seq |-> c.seq, token |-> c.token]
      BY <1>2, HeldOK, ClaimOK
  <2>2. [seq |-> c.seq, token |-> FreshToken(c.seq)] \notin Held(v)
      BY <1>2, <1>4, FreshTokenOK
  <2>3. c.token # FreshToken(c.seq)
      BY Zenon, <2>1, <2>2
  <2> QED
      BY Zenon, <1>1, <1>4, <2>3 DEF Current
<1>5. ASSUME NEW c \in Held(w)'
      PROVE  c.seq \in S /\ Counts(c)' /\ \A v \in Workers : c \notin Held(v)
  <2>1. PICK s \in S : c = [seq |-> s, token |-> FreshToken(s)]
      BY Zenon, <1>1
  <2>2. c.seq = s /\ c.token = FreshToken(s)
      BY SMTT(60), <2>1
  <2>3. \A v \in Workers : c \notin Held(v)
      BY Zenon, <1>2, <2>1, FreshTokenOK
  <2> QED
      BY Zenon, <1>1, <2>2, <2>3 DEF Counts, Current
<1>6. OneClaimCounts'
  <2>1. ASSUME NEW u \in Workers, NEW v \in Workers, NEW c \in Held(u)' \cap Held(v)', Current(c)'
        PROVE  u = v
    <3>1. CASE u = w /\ v = w
        BY Zenon, <3>1
    <3>2. CASE u = w /\ v # w
        BY ZenonT(60), <1>1, <1>5, <3>2
    <3>4. CASE u # w /\ v = w
        BY ZenonT(60), <1>1, <1>5, <3>4
    <3>3. CASE u # w /\ v # w
      <4>1. c \in Held(u) /\ c \in Held(v)
          BY Zenon, <1>1, <3>3
      <4>2. c.seq \notin S
          BY Zenon, <1>4, <2>1, <3>3, <4>1
      <4>3. c.seq \in Seqs
          BY <1>2, <4>1, HeldOK, ClaimOK
      <4>4. Current(c)
          BY Zenon, <1>1, <2>1, <4>2, <4>3 DEF Current
      <4> QED
          BY ZenonT(60), <1>2, <4>1, <4>4 DEF OneClaimCounts
    <3> QED
        BY Zenon, <3>1, <3>2, <3>3, <3>4
  <2> QED
      BY <2>1 DEF OneClaimCounts
<1>7. ASSUME NEW s \in Seqs
      PROVE  handled'[s] + Cardinality(Spent(s)') + Open(s)' <= 1 + excuse'[s]
  <2>1. Spent(s)' \subseteq Spent(s)
    <3>1. ASSUME NEW v \in Spent(s)' PROVE v \in Spent(s)
      <4>1. PICK c \in Held(v)' : v \in Workers /\ c.seq = s /\ ~Counts(c)'
          BY Zenon, <3>1 DEF Spent
      <4>2. v # w
          BY Zenon, <1>5, <4>1
      <4>3. c \in Held(v)
          BY Zenon, <1>1, <4>1, <4>2
      <4>4. ~Counts(c)
          BY Zenon, <1>1, <4>1 DEF Counts, Current
      <4> QED
          BY Zenon, <4>1, <4>3, <4>4 DEF Spent
    <3> QED
        BY <3>1
  <2>2. Open(s)' = Open(s)
      BY Zenon, <1>1 DEF Open
  <2> QED
      BY SMTT(60), <2>1, <2>2, BudgetOf, SpentCounts
<1>8. Budget'
    BY <1>7 DEF Budget
<1>9. PlacesOK' /\ RowsOK' /\ OnlyQueuedHaveTokens' /\ OneClaimCounts' /\ Budget' => Inv'
    BY InvIs, PTL
<1> QED
    BY SMTT(60), <1>1, <1>3, <1>6, <1>8, <1>9

-----------------------------------------------------------------------------
(* The invariant, and what follows from it.                                *)

\* The invariant holds of an empty queue.
LEMMA InvInit == Init => Inv
<1> SUFFICES ASSUME Init PROVE Inv
    OBVIOUS
<1>1. PlacesOK
    BY Zenon, StoppedOK DEF Init, PlacesOK, PlaceOK
<1>2. RowsOK /\ OnlyQueuedHaveTokens
    BY DEF Init, RowsOK, Rows, OnlyQueuedHaveTokens
<1>3. \A w \in Workers : Held(w) = {}
    BY DEF Init, Held, Stopped
<1>4. OneClaimCounts
    BY <1>3 DEF OneClaimCounts
<1>5. Budget
  <2>1. \A s \in Seqs : Spent(s) = {}
      BY <1>3 DEF Spent
  <2>2. \A s \in Seqs : handled[s] = 0 /\ excuse[s] = 0 /\ Open(s) = 1
      BY DEF Init, Open
  <2> QED
      BY <2>1, <2>2, FS_EmptySet DEF Budget
<1> QED
    BY <1>1, <1>2, <1>4, <1>5, InvIs

\* Every step keeps the invariant.
LEMMA InvNext == Inv /\ [Next]_vars => Inv'
<1> SUFFICES ASSUME Inv, [Next]_vars PROVE Inv'
    OBVIOUS
<1>1. ASSUME NEW s \in Seqs, Send(s) \/ Expire(s) PROVE Inv'
    BY <1>1, SendKeeps, ExpireKeeps
<1>2. ASSUME NEW w \in Workers, Refill(w) PROVE Inv'
  <2>1. worker[w].at = "Recv" /\ worker[w].buffer = {} /\ UNCHANGED <<handled, excuse>>
      BY <1>2 DEF Refill
  <2>2. \/ \E S \in SUBSET Claimable : claim(w, S)
        \/ worker' = [worker EXCEPT ![w] = Stopped] /\ UNCHANGED row
      BY Zenon, <1>2 DEF Refill
  <2> QED
      BY <2>1, <2>2, ClaimKeeps, CrashKeeps
<1>3. ASSUME NEW w \in Workers, Listen(w) \/ Recv(w) \/ (\E v \in Verdicts : Settle(w, v))
      PROVE  Inv'
    BY <1>3, ListenKeeps, RecvKeeps, SettleKeeps
<1>4. ASSUME NEW w \in Workers, SettleLost(w) \/ Crash(w) PROVE Inv'
  <2>1. CASE Crash(w)
      BY Zenon, <2>1, CrashKeeps DEF Crash
  <2> QED
      BY <1>4, <2>1, SettleLostKeeps
<1>5. CASE UNCHANGED vars
  <2>1. UNCHANGED <<row, worker, handled, excuse>>
      BY <1>5 DEF vars
  <2>2. TypeOK' /\ Distinct' /\ OnlyQueuedHaveTokens' /\ OneClaimCounts'
      BY ZenonT(60), <2>1 DEF Inv, TypeOK, Distinct, OnlyQueuedHaveTokens, OneClaimCounts, Held, Current
  <2>3. Budget'
      BY ZenonT(60), <2>1 DEF Inv, Budget, Spent, Counts, Held, Current, Open
  <2> QED
      BY <2>2, <2>3 DEF Inv
<1> QED
    BY <1>1, <1>2, <1>3, <1>4, <1>5 DEF Next, Work

\* The invariant holds in every reachable state.
LEMMA Invariance == Spec => []Inv
BY InvInit, InvNext, PTL DEF Spec

\* Type correctness of the queue and its listeners.
THEOREM TypeCorrect == Spec => []TypeOK
<1>1. Inv => TypeOK
    BY DEF Inv
<1> QED
    BY <1>1, Invariance, PTL

\* Of all the claims on a row that listeners hold, one at most still counts:
\* FOR UPDATE SKIP LOCKED and the token of each claim together.
THEOREM OneClaimCountsHolds == Spec => []OneClaimCounts
<1>1. Inv => OneClaimCounts
    BY DEF Inv
<1> QED
    BY <1>1, Invariance, PTL

\* A command is handled again only for an overrun lease or a lost settlement,
\* and at most once for each.
THEOREM HandledOnceHolds == Spec => []HandledOnce
<1>1. Inv => HandledOnce
  <2> SUFFICES ASSUME Inv, NEW s \in Seqs PROVE handled[s] <= 1 + excuse[s]
      BY DEF HandledOnce
  <2> QED
      BY BudgetOf
<1> QED
    BY <1>1, Invariance, PTL

\* Nothing takes a row from a listener before the lease of its claim is over; of
\* the token in delete_claimed and release_claim, and of locked_until in claim.
THEOREM LeasedClaimStandsHolds == Spec => LeasedClaimStands
<1> DEFINE Stands == \A w \in Workers : \A c \in Held(w) :
                        Current(c) /\ row[c.seq].leased /\ c \in Held(w)' => Current(c)'
<1>1. ASSUME Inv, Next PROVE Stands
  <2> SUFFICES ASSUME NEW u \in Workers, NEW c \in Held(u), Current(c), row[c.seq].leased,
                      c \in Held(u)'
               PROVE  Current(c)'
      BY Zenon
  <2>1. c \in Claim /\ c.seq \in Seqs
      BY <1>1, HeldOK, ClaimOK DEF Inv
  <2>2. RowsOK /\ OnlyQueuedHaveTokens /\ OneClaimCounts
      BY <1>1, InvIs
  <2>3. CASE UNCHANGED row
      BY <2>3 DEF Current
  <2>4. ASSUME NEW s \in Seqs, Send(s) \/ Expire(s) PROVE Current(c)'
    <3>1. row'[c.seq].state = row[c.seq].state /\ row'[c.seq].token = row[c.seq].token
      <4>1. row[s] \in Rows /\ row[c.seq] \in Rows
          BY Zenon, <2>1, <2>2 DEF RowsOK
      <4>2. \/ c.seq # s /\ row'[c.seq] = row[c.seq]
            \/ c.seq = s /\ row'[s] = [row[s] EXCEPT !.leased = FALSE]
          BY Zenon, <2>1, <2>2, <2>4 DEF Send, Expire, RowsOK, Current
      <4> QED
          BY <4>1, <4>2 DEF Rows
    <3> QED
        BY Zenon, <3>1 DEF Current
  <2>5. ASSUME NEW w \in Workers, Refill(w) PROVE Current(c)'
    <3>1. worker[w].at = "Recv" /\ worker[w].buffer = {}
        BY <2>5 DEF Refill
    <3>2. CASE \E S \in SUBSET Claimable : claim(w, S)
      <4>1. PICK S \in SUBSET Claimable : claim(w, S)
          BY <3>2
      <4>2. c.seq \notin S
          BY DEF Claimable
      <4>3. \A s \in Seqs \ S : row'[s] = row[s]
          BY ZenonT(60), <1>1, <3>1, <4>1, ClaimMoves
      <4>4. row'[c.seq] = row[c.seq]
          BY Zenon, <2>1, <4>2, <4>3
      <4> QED
          BY <4>4 DEF Current
    <3> QED
        BY Zenon, <2>3, <2>5, <3>2 DEF Refill
  <2>6. ASSUME NEW w \in Workers, NEW v \in Verdicts, Settle(w, v) PROVE Current(c)'
    <3> DEFINE d == worker[w].current
    <3>1. d \in Claim /\ d \in Held(w)
      <4>1. PlaceOK(worker[w]) /\ worker[w] \in Places /\ worker[w].at = "Handler"
          BY <1>1, <2>6, InvIs DEF PlacesOK, Settle
      <4> QED
          BY Zenon, <4>1 DEF PlaceOK, Places, Held
    <3>2. /\ \A t \in Seqs \ {d.seq} : row'[t] = row[t]
          /\ row'[d.seq] = row[d.seq] \/ Current(d)
        BY Zenon, <2>2, <2>6, <3>1, ApplyMoves DEF Settle
    <3>3. CASE row'[c.seq] = row[c.seq]
        BY Zenon, <3>3 DEF Current
    <3>4. CASE row'[c.seq] # row[c.seq]
      <4>1. c.seq = d.seq /\ Current(d)
          BY SMTT(60), <2>1, <3>2, <3>4
      <4>2. c = d
          BY Zenon, <2>1, <3>1, <4>1, ClaimOK DEF Current
      <4>3. u = w
          BY <2>2, <3>1, <4>2 DEF OneClaimCounts
      <4>4. FALSE
        <5>1. Inv' /\ c \notin worker'[w].buffer /\ worker'[w].current = NoClaim
          <6>1. PlaceOK(worker[w]) /\ worker[w] \in Places /\ worker \in [Workers -> Places]
              BY SMTT(60), <1>1, InvIs DEF PlacesOK
          <6>2. c \notin worker[w].buffer
              BY SMTT(60), <4>2, <6>1 DEF PlaceOK
          <6>3. \/ worker'[w] = Stopped
                \/ worker'[w] = [worker[w] EXCEPT !.at = "Recv", !.current = NoClaim]
              BY <2>6, <6>1 DEF Settle
          <6>4. worker'[w].current = NoClaim /\ worker'[w].buffer \in {{}, worker[w].buffer}
            <7> DEFINE p == [worker[w] EXCEPT !.at = "Recv", !.current = NoClaim]
            <7>1. Stopped.current = NoClaim /\ Stopped.buffer = {}
                BY DEF Stopped
            <7>2. p.current = NoClaim /\ p.buffer = worker[w].buffer
                BY <6>1 DEF Places
            <7> HIDE DEF p
            <7> QED
                BY Zenon, <6>3, <7>1, <7>2 DEF p
          <6>5. Inv'
              BY <1>1, <2>6, SettleKeeps
          <6> QED
              BY <6>2, <6>4, <6>5
        <5> QED
            BY <4>3, <5>1 DEF Held
      <4> QED
          BY Zenon, <4>4
    <3> QED
        BY <3>3, <3>4
  <2>7. ASSUME NEW w \in Workers, Listen(w) \/ Recv(w) \/ SettleLost(w) \/ Crash(w)
        PROVE  Current(c)'
      BY <2>3, <2>7 DEF Listen, Recv, SettleLost, Crash
  <2> QED
      BY Zenon, <1>1, <2>4, <2>5, <2>6, <2>7 DEF Next, Work
<1>2. Inv /\ [Next]_vars => [Stands]_vars
    BY <1>1
<1>3. Spec => [][Stands]_vars
    BY <1>2, Invariance, PTL DEF Spec
<1> QED
    BY ZenonT(60), <1>3 DEF LeasedClaimStands
=============================================================================
