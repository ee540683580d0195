---------------------------- MODULE SqlBusQueue -----------------------------
(***************************************************************************)
(* The command queue of the SQL buses (bus_queue): competing listeners     *)
(* claim batches of rows under a lease, work through them one by one with  *)
(* run_source, and settle each row under the token of its claim.           *)
(*                                                                         *)
(* A claim mints a random token.  All that matters of it is that nobody    *)
(* holds a claim on the row with the same one.                             *)
(***************************************************************************)
EXTENDS ReceiveLoop, Integers, FiniteSets

CONSTANTS
    Seqs,        \* numbers of the rows, in the order of bus_queue.seq
    Workers,     \* listening processes
    SourceBatch, \* rows claimed at once
    MaxExcuses   \* bound on lost settlements and overrun leases

ASSUME QueueAssumption ==
    /\ Seqs \subseteq Nat \ {0} /\ IsFiniteSet(Seqs)
    /\ IsFiniteSet(Workers) /\ SourceBatch \in Nat \ {0} /\ MaxExcuses \in Nat

VARIABLES
    row,     \* bus_queue; leased: locked_until is in the future; token 0: NULL
    worker,  \* the SqlQueueSource of a listener, and its place in run_source
    handled, \* history: how often a handler succeeded on the row
    excuse   \* history: overrun leases and lost settlements, by row

vars == <<row, worker, handled, excuse>>

Tokens == 1..(Cardinality(Workers) + 1)

Claim == [seq : Seqs, token : Tokens]
NoClaim == [seq |-> 0, token |-> 0]

Stopped == [at |-> "Stopped", buffer |-> {}, current |-> NoClaim]

Init ==
    /\ row = [s \in Seqs |-> [state |-> "Absent", token |-> 0, leased |-> FALSE]]
    /\ worker = [w \in Workers |-> Stopped]
    /\ handled = [s \in Seqs |-> 0]
    /\ excuse = [s \in Seqs |-> 0]

\* The claim on row s a worker believes it has.
Held(w) == worker[w].buffer \cup ({worker[w].current} \ {NoClaim})

\* The claim is still the one the row carries.
Current(claim) == row[claim.seq].state = "Queued" /\ row[claim.seq].token = claim.token

Excuses == LET Sum[S \in SUBSET Seqs] ==
                   IF S = {} THEN 0
                   ELSE LET s == CHOOSE s \in S : TRUE IN excuse[s] + Sum[S \ {s}]
           IN  Sum[Seqs]

-----------------------------------------------------------------------------
\* insert_queue.  seq is the order in which rows become visible; a producer
\* that repeats a send adds a row.
Send(s) ==
    /\ row[s].state = "Absent"
    /\ row' = [row EXCEPT ![s].state = "Queued"]
    /\ UNCHANGED <<worker, handled, excuse>>

Listen(w) ==
    /\ worker[w] = Stopped
    /\ worker' = [worker EXCEPT ![w].at = "Recv"]
    /\ UNCHANGED <<row, handled, excuse>>

\* Faulty variant: only rows that were released, or never claimed.
OnlyReleased == {s \in Seqs : row[s].state = "Queued" /\ row[s].token = 0}

Claimable == {s \in Seqs : row[s].state = "Queued" /\ ~row[s].leased}

\* A token nobody has for row s.
FreshToken(s) ==
    CHOOSE t \in Tokens : \A w \in Workers : [seq |-> s, token |-> t] \notin Held(w)

\* Faulty variant: a claim takes the row over with the token it has.
ClaimKeepsToken(w, S) ==
    LET token == [s \in S |-> IF row[s].token = 0 THEN FreshToken(s) ELSE row[s].token]
    IN  /\ row' = [s \in Seqs |-> IF s \in S THEN [row[s] EXCEPT !.leased = TRUE, !.token = token[s]]
                                  ELSE row[s]]
        /\ worker' = [worker EXCEPT ![w].buffer = {[seq |-> s, token |-> token[s]] : s \in S}]

claim(w, S) ==
    LET token == [s \in S |-> FreshToken(s)]
    IN  /\ row' = [s \in Seqs |-> IF s \in S THEN [row[s] EXCEPT !.leased = TRUE, !.token = token[s]]
                                  ELSE row[s]]
        /\ worker' = [worker EXCEPT ![w].buffer = {[seq |-> s, token |-> token[s]] : s \in S}]

\* An empty buffer is filled with the first claimable rows.  Where there are
\* none the source polls again, or ends the run if no idle_poll is set.
Refill(w) ==
    /\ worker[w].at = "Recv"
    /\ worker[w].buffer = {}
    /\ \/ /\ Claimable # {}
          /\ claim(w, {s \in Claimable : Cardinality({t \in Claimable : t < s}) < SourceBatch})
       \/ /\ Claimable = {}
          /\ worker' = [worker EXCEPT ![w] = Stopped]
          /\ UNCHANGED row
    /\ UNCHANGED <<handled, excuse>>

\* The row with the smallest seq is handed to run_source.
Recv(w) ==
    /\ worker[w].at = "Recv"
    /\ \E claimed \in worker[w].buffer :
        /\ \A other \in worker[w].buffer : claimed.seq <= other.seq
        /\ worker' = [worker EXCEPT ![w] = [at |-> "Handler", buffer |-> @.buffer \ {claimed},
                                            current |-> claimed]]
    /\ UNCHANGED <<row, handled, excuse>>

-----------------------------------------------------------------------------
(* Settlement.                                                             *)

\* Faulty variant: the token is not compared.
DeleteUnfenced(c) == row' = [row EXCEPT ![c.seq] = [@ EXCEPT !.state = "Gone", !.token = 0,
                                                             !.leased = FALSE]]

\* Faulty variant: the row is released and not deleted.
DeleteReleases(c) ==
    row' = IF Current(c) THEN [row EXCEPT ![c.seq] = [@ EXCEPT !.token = 0, !.leased = FALSE]]
           ELSE row

delete_claimed(c) ==
    row' = IF Current(c)
           THEN [row EXCEPT ![c.seq] = [@ EXCEPT !.state = "Gone", !.token = 0, !.leased = FALSE]]
           ELSE row

release_claim(c) ==
    row' = IF Current(c) THEN [row EXCEPT ![c.seq] = [@ EXCEPT !.token = 0, !.leased = FALSE]]
           ELSE row

\* What a settlement does to the table; Stop does not settle.
Apply(w, verdict) ==
    \/ Settlement(verdict) \in Forward /\ delete_claimed(worker[w].current)
    \/ Settlement(verdict) \in {"Nack", "NackAndStop"} /\ release_claim(worker[w].current)
    \/ Settlement(verdict) = "Stop" /\ UNCHANGED row

\* The handler returns and the message is settled.
Settle(w, verdict) ==
    LET s == worker[w].current.seq
    IN  /\ worker[w].at = "Handler"
        /\ Apply(w, verdict)
        /\ worker' = [worker EXCEPT ![w] =
                          IF Settlement(verdict) \in {"NackAndStop", "Stop"} THEN Stopped
                          ELSE [@ EXCEPT !.at = "Recv", !.current = NoClaim]]
        /\ handled' = [handled EXCEPT ![s] = IF verdict = "Ok" THEN @ + 1 ELSE @]
        /\ UNCHANGED excuse

\* The handler succeeds and its settlement fails, or the process dies before
\* it: the run ends.
SettleLost(w) ==
    LET s == worker[w].current.seq
    IN  /\ worker[w].at = "Handler"
        /\ Excuses < MaxExcuses
        /\ handled' = [handled EXCEPT ![s] = @ + 1]
        /\ excuse' = [excuse EXCEPT ![s] = @ + 1]
        /\ worker' = [worker EXCEPT ![w] = Stopped]
        /\ UNCHANGED row

\* The process dies, or recv fails: what was claimed waits for its lease.
Crash(w) ==
    /\ worker[w] # Stopped
    /\ worker' = [worker EXCEPT ![w] = Stopped]
    /\ UNCHANGED <<row, handled, excuse>>

\* A lease runs out.  It is overrun if the claim is still being worked on.
Expire(s) ==
    /\ row[s].leased
    /\ row' = [row EXCEPT ![s].leased = FALSE]
    /\ IF \E w \in Workers : \E c \in Held(w) : c.seq = s /\ Current(c)
       THEN Excuses < MaxExcuses /\ excuse' = [excuse EXCEPT ![s] = @ + 1]
       ELSE UNCHANGED excuse
    /\ UNCHANGED <<worker, handled>>

-----------------------------------------------------------------------------
Work(w) == Listen(w) \/ Refill(w) \/ Recv(w) \/ \E v \in Verdicts : Settle(w, v)

Next ==
    \/ \E s \in Seqs : Send(s) \/ Expire(s)
    \/ \E w \in Workers : Work(w) \/ SettleLost(w) \/ Crash(w)

Spec == Init /\ [][Next]_vars

\* Supervisors restart their listeners, leases run out, and no listener is
\* killed, and no handler fails, for ever at the same point.
FairSpec ==
    /\ Spec
    /\ \A s \in Seqs : WF_vars(Expire(s))
    /\ \A w \in Workers :
        /\ WF_vars(Listen(w))
        /\ SF_vars(Refill(w))
        /\ SF_vars(Recv(w))
        /\ SF_vars(Settle(w, "Ok"))

-----------------------------------------------------------------------------
\* Type invariant of the queue and its listeners.
TypeOK ==
    /\ row \in [Seqs -> [state : {"Absent", "Queued", "Gone"}, token : Tokens \cup {0},
                         leased : BOOLEAN]]
    /\ worker \in [Workers -> [at : {"Stopped", "Recv", "Handler"}, buffer : SUBSET Claim,
                               current : Claim \cup {NoClaim}]]
    /\ \A w \in Workers : (worker[w].at = "Handler") = (worker[w].current # NoClaim)
    /\ handled \in [Seqs -> Nat]
    /\ excuse \in [Seqs -> Nat]

\* "A worker whose lease expired (and whose row was reclaimed under a new token)
\* cannot settle the newer claim": a worker keeps the row it holds a claim of
\* for as long as the lease lives, whatever the holders of older claims do.
LeasedClaimStands ==
    [][\A w \in Workers : \A c \in Held(w) :
         Current(c) /\ row[c.seq].leased /\ c \in Held(w)' => Current(c)']_vars

\* "Only one claims (and later settles) each row": of all the claims workers
\* hold on a row, buffered ones included, one at most still counts.
OneClaimCounts ==
    \A v \in Workers, w \in Workers :
        \A c \in Held(v) \cap Held(w) : Current(c) => v = w

\* A command is handled a second time only for a reason: a lease was overrun
\* (by the rows before it in the batch, too) or a settlement was lost.
HandledOnce == \A s \in Seqs : handled[s] <= 1 + excuse[s]

\* Every command that was sent leaves the queue in the end.
EventuallyGone == \A s \in Seqs : row[s].state = "Queued" ~> row[s].state = "Gone"
=============================================================================
