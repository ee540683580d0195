----------------------- MODULE QueuedRepositoryProofs -----------------------
(***************************************************************************)
(* Proofs about the queued repository, for any number of processes, tasks  *)
(* and streams, any number of loads and creations, and any number of       *)
(* faults.                                                                 *)
(*                                                                         *)
(* Exclusive rests on who owns what.  A task that holds a lock, or waits   *)
(* for the lease behind a gate it has passed, keeps the gate locked until  *)
(* a task of its process releases the lock under it; and until then, or    *)
(* until the lease runs out, the row and the slot of its process carry a   *)
(* token of its own that no release on its way names.  For the last, a     *)
(* task never asks for a stream under a token it has had that stream under *)
(* before.                                                                 *)
(*                                                                         *)
(* EventsBuildOnTheLast needs none of this: it rests on the version check  *)
(* alone, and on every snapshot holding the state of its version.          *)
(*                                                                         *)
(* NoCircularWait rests on the order of the locks: a load waits for a      *)
(* stream above all those it holds.  The one step that breaks this order   *)
(* is a read that finds its snapshot unusable and asks for the lock again; *)
(* among processes of one release that does not happen, for every snapshot *)
(* was saved by that release and is not ahead of its stream.               *)
(***************************************************************************)
EXTENDS QueuedRepository, FiniteSetTheorems, WellFoundedInduction, TLAPS

Points == {"Idle", "Gate", "Lease", "Read", "Work", "Unlock", "Open"}
Tokens == Tasks \X Nat
Records == [version : Nat, state : Nat, schema : Nat]
Entities == [version : Nat, snapshot : Nat, state : Nat]

TaskRecord ==
    [at : Points, wants : Seq(Streams), cached : Records,
     loaded : {<<>>} \cup UNION {[D -> Entities] : D \in SUBSET Streams},
     holds : SUBSET Streams, frees : SUBSET Streams, overrun : SUBSET Streams,
     robbed : SUBSET Streams, rounds : Nat]

Distinct(s) == \A m, n \in 1..Len(s) : m < n => s[m] # s[n]

\* What a task record must be whatever the other tasks do.
TaskOK(t) ==
    /\ t \in TaskRecord
    /\ t.at \in {"Gate", "Lease", "Open"} => t.wants # <<>>
    /\ t.at \in {"Gate", "Lease"} => Distinct(t.wants)
    /\ t.at = "Open" => Head(t.wants) \notin t.holds
    /\ t.at = "Work" => \E D \in SUBSET Streams : t.loaded \in [D -> Entities]

\* The types of the variables.
Types ==
    /\ gate \in [Processes -> [Streams -> BOOLEAN]]
    /\ slot \in [Processes -> [Streams -> Tokens \cup {NoToken}]]
    /\ lease \in [Streams -> Tokens \cup {NoToken}]
    /\ late \subseteq [stream : Streams, token : Tokens]
    /\ release \in [Processes -> Nat]
    /\ stream \in [Streams -> Seq(Nat)]
    /\ snapshot \in [Streams -> Records]
    /\ task \in [Tasks -> TaskRecord]
    /\ \A x \in Tasks : TaskOK(task[x])

\* A task owns the gate of what it holds and of what it waits for the lease of.
Owns(t, k) == k \in t.holds \/ (t.at = "Lease" /\ Head(t.wants) = k)

\* What a task holds and has not lost.
Kept(t) == t.holds \ (t.overrun \cup t.robbed)

GateIsLocked ==
    \A x \in Tasks, k \in Streams :
        Owns(task[x], k) => gate[Process(x)][k] \/ k \in task[x].robbed

OneOwner ==
    \A x, y \in Tasks, k \in Streams :
        Owns(task[x], k) /\ Owns(task[y], k) /\ Process(x) = Process(y) /\ x # y =>
            k \in task[x].robbed \/ k \in task[y].robbed

Secured(x, k) ==
    /\ slot[Process(x)][k] = lease[k]
    /\ \E n \in Nat : lease[k] = <<x, n>>
    /\ [stream |-> k, token |-> lease[k]] \notin late

LeaseIsItsHolders == \A x \in Tasks : \A k \in Kept(task[x]) : Secured(x, k)

TokensAreOld ==
    /\ \A p \in Processes, k \in Streams, x \in Tasks, n \in Nat :
           slot[p][k] = <<x, n>> => Process(x) = p /\ n <= task[x].rounds
    /\ \A r \in late, x \in Tasks, n \in Nat : r.token = <<x, n>> => n <= task[x].rounds

\* x has had the lock of k under the token it would ask for it with.
Spent(x, k) ==
    \/ slot[Process(x)][k] = mint_token(x)
    \/ [stream |-> k, token |-> mint_token(x)] \in late

NothingSpent ==
    \A x \in Tasks : task[x].at \in {"Gate", "Lease"} =>
        \A n \in 1..Len(task[x].wants) : ~Spent(x, task[x].wants[n])

LockInv == GateIsLocked /\ OneOwner /\ LeaseIsItsHolders /\ TokensAreOld /\ NothingSpent

\* A snapshot, or an entity, has the state that belongs to its version.
Sound(r) == r.state = r.version

EventInv ==
    /\ EventsBuildOnTheLast
    /\ \A k \in Streams : Sound(snapshot[k])
    /\ \A x \in Tasks : Sound(task[x].cached)
    /\ \A x \in Tasks : task[x].at = "Work" =>
           \A k \in DOMAIN task[x].loaded : Sound(task[x].loaded[k])

-----------------------------------------------------------------------------
(* Sequences of streams.                                                   *)

\* The first of a sequence, and the rest.
LEMMA TailIs ==
    ASSUME NEW s \in Seq(Streams), s # <<>>
    PROVE  /\ Head(s) \in Streams /\ Tail(s) \in Seq(Streams)
           /\ Head(s) = s[1] /\ 1 \in 1..Len(s)
           /\ \A n \in 1..Len(Tail(s)) : /\ n + 1 \in 1..Len(s) /\ Tail(s)[n] = s[n + 1]
                                         /\ 1 < n + 1
           /\ Tail(s) # <<>> => Head(Tail(s)) = Tail(s)[1] /\ 1 \in 1..Len(Tail(s))
<1>1. /\ Head(s) = s[1] /\ Head(s) \in Streams /\ Tail(s) \in Seq(Streams) /\ Len(s) \in Nat
      /\ Len(s) >= 1 /\ Len(Tail(s)) = Len(s) - 1
      /\ \A n \in 1..(Len(s) - 1) : Tail(s)[n] = s[n + 1]
    OBVIOUS
<1>2. Tail(s) # <<>> => Head(Tail(s)) = Tail(s)[1] /\ 1 \in 1..Len(Tail(s))
    BY <1>1
<1> QED
    BY <1>1, <1>2

\* Without its first, a sequence of different streams is one, and has it no more.
LEMMA DistinctTail ==
    ASSUME NEW s \in Seq(Streams), s # <<>>, Distinct(s)
    PROVE  /\ Distinct(Tail(s))
           /\ \A n \in 1..Len(Tail(s)) : Tail(s)[n] # Head(s)
<1>1. /\ Head(s) = s[1] /\ 1 \in 1..Len(s)
      /\ \A n \in 1..Len(Tail(s)) : n + 1 \in 1..Len(s) /\ Tail(s)[n] = s[n + 1] /\ 1 < n + 1
    BY Zenon, TailIs
<1>2. ASSUME NEW m \in 1..Len(Tail(s)), NEW n \in 1..Len(Tail(s)), m < n
      PROVE  Tail(s)[m] # Tail(s)[n]
  <2>1. m + 1 \in 1..Len(s) /\ n + 1 \in 1..Len(s) /\ m + 1 < n + 1
      BY <1>1, <1>2
  <2>2. s[m + 1] # s[n + 1]
      BY Zenon, <2>1 DEF Distinct
  <2> QED
      BY Zenon, <1>1, <2>2
<1>3. ASSUME NEW n \in 1..Len(Tail(s)) PROVE Tail(s)[n] # Head(s)
    BY Zenon, <1>1 DEF Distinct
<1> QED
    BY Zenon, <1>2, <1>3 DEF Distinct

\* The streams of a load, in order, are a sequence that is not empty.
LEMMA InOrderOK ==
    ASSUME NEW streams \in SUBSET Streams, Cardinality(streams) > 1, NEW s \in InOrder(streams)
    PROVE  s \in Seq(Streams) /\ s # <<>> /\ Distinct(s)
<1>1. IsFiniteSet(streams)
    BY ZenonT(60), RepositoryAssumption, FS_Subset DEF RepositoryAssumption
<1>2. Cardinality(streams) \in Nat
    BY <1>1, FS_CardinalityType
<1>3. s \in [1..Cardinality(streams) -> streams]
    BY DEF InOrder
<1>4. s \in Seq(Streams) /\ s # <<>> /\ DOMAIN s = 1..Len(s)
    BY <1>2, <1>3
<1>5. ASSUME NEW m \in 1..Len(s), NEW n \in 1..Len(s), m < n PROVE s[m] # s[n]
  <2>1. s[m] < s[n]
      BY Zenon, <1>4, <1>5 DEF InOrder
  <2>2. s[m] \in Nat /\ s[n] \in Nat
    <3>1. s[m] \in Streams /\ s[n] \in Streams
        BY <1>4
    <3> QED
        BY Zenon, <3>1, RepositoryAssumption DEF RepositoryAssumption
  <2> QED
      BY <2>1, <2>2
<1> QED
    BY Zenon, <1>4, <1>5 DEF Distinct

\* A sequence of one.
LEMMA OneStream ==
    ASSUME NEW k \in Streams
    PROVE  <<k>> \in Seq(Streams) /\ <<k>> # <<>> /\ Distinct(<<k>>) /\ Head(<<k>>) = k
BY DEF Distinct

-----------------------------------------------------------------------------
(* Types.                                                                  *)

\* What a step may do to a task that does not take it: it may be robbed.
Alike(s, t) ==
    /\ s.at = t.at /\ s.wants = t.wants /\ s.cached = t.cached /\ s.loaded = t.loaded
    /\ s.holds = t.holds /\ s.overrun = t.overrun /\ s.rounds = t.rounds
    /\ t.robbed \subseteq s.robbed

\* x becomes t, and the others may be robbed.
Becomes(x, t) == task'[x] = t /\ \A y \in Tasks \ {x} : Alike(task'[y], task[y])

TasksOK(tasks) == tasks \in [Tasks -> TaskRecord] /\ \A y \in Tasks : TaskOK(tasks[y])

\* There is no snapshot to begin with.
LEMMA NoSnapshotOK == NoSnapshot \in Records
BY DEF NoSnapshot, Records

\* An idle task is a task.
LEMMA IdleOK ==
    ASSUME NEW n \in Nat
    PROVE  /\ TaskOK(Idle(n))
           /\ Idle(n).at = "Idle" /\ Idle(n).holds = {} /\ Idle(n).rounds = n
           /\ Idle(n).cached = NoSnapshot
<1>1. Idle(n) \in TaskRecord
    BY NoSnapshotOK DEF Idle, TaskRecord, Points
<1>2. /\ Idle(n).at = "Idle" /\ Idle(n).holds = {} /\ Idle(n).rounds = n
      /\ Idle(n).cached = NoSnapshot
    BY DEF Idle
<1> QED
    BY <1>1, <1>2 DEF TaskOK

\* A task that starts a load is a task.
LEMMA LoadOK ==
    ASSUME NEW n \in Nat, NEW wants \in Seq(Streams), wants # <<>>, Distinct(wants),
           NEW cached \in Records
    PROVE  /\ TaskOK([Idle(n) EXCEPT !.at = "Gate", !.wants = wants, !.cached = cached])
           /\ TaskOK([Idle(n) EXCEPT !.at = "Gate", !.wants = wants])
BY ZenonT(60), NoSnapshotOK DEF TaskOK, Idle, TaskRecord, Points

\* One task changes, and what it becomes is a task.
LEMMA MoveTypes ==
    ASSUME Types, NEW x \in Tasks, NEW t, TaskOK(t), Moves(x, t)
    PROVE  TasksOK(task') /\ Becomes(x, t)
<1>1. t \in TaskRecord
    BY DEF TaskOK
<1>2. task' \in [Tasks -> TaskRecord] /\ task'[x] = t /\ \A y \in Tasks \ {x} : task'[y] = task[y]
    BY <1>1 DEF Types, Moves
<1>3. \A y \in Tasks : TaskOK(task'[y])
    BY Zenon, <1>2 DEF Types
<1>4. \A y \in Tasks \ {x} : Alike(task'[y], task[y])
    BY Zenon, <1>2 DEF Alike
<1> QED
    BY Zenon, <1>2, <1>3, <1>4 DEF TasksOK, Becomes

\* A robbed task is a task.
LEMMA RobbedOK ==
    ASSUME NEW t, TaskOK(t), NEW k \in Streams
    PROVE  /\ TaskOK([t EXCEPT !.robbed = @ \cup {k}])
           /\ Alike([t EXCEPT !.robbed = @ \cup {k}], t)
           /\ k \in [t EXCEPT !.robbed = @ \cup {k}].robbed
<1> DEFINE s == [t EXCEPT !.robbed = @ \cup {k}]
<1>1. t \in TaskRecord
    BY Zenon DEF TaskOK
<1>2. s \in TaskRecord
    BY SMTT(60), <1>1 DEF TaskRecord
<1>3. /\ s.at = t.at /\ s.wants = t.wants /\ s.cached = t.cached /\ s.loaded = t.loaded
      /\ s.holds = t.holds /\ s.overrun = t.overrun /\ s.rounds = t.rounds
      /\ s.robbed = t.robbed \cup {k}
    BY <1>1 DEF TaskRecord
<1> HIDE DEF s
<1>4. TaskOK(s)
    BY Zenon, <1>2, <1>3 DEF TaskOK
<1>5. Alike(s, t) /\ k \in s.robbed
    BY Zenon, <1>3 DEF Alike
<1> QED
    BY Zenon, <1>4, <1>5 DEF s

\* One task changes and robs the others.
LEMMA RobsTypes ==
    ASSUME Types, NEW x \in Tasks, NEW k \in Streams, NEW t, TaskOK(t), Robs(x, k, t)
    PROVE  /\ TasksOK(task') /\ Becomes(x, t)
           /\ \A y \in Tasks \ {x} :
                  Process(y) = Process(x) /\ Owns(task[y], k) => k \in task'[y].robbed
<1>1. task' = [y \in Tasks |->
        IF y = x THEN t
        ELSE IF Process(y) = Process(x) /\ Owns(task[y], k)
             THEN [task[y] EXCEPT !.robbed = @ \cup {k}]
             ELSE task[y]]
    BY Zenon DEF Robs, PassedTheGate, Owns, Wanted
<1>2. ASSUME NEW y \in Tasks
      PROVE  /\ TaskOK(task[y])
             /\ y = x => task'[y] = t
             /\ y # x => \/ /\ Process(y) = Process(x) /\ Owns(task[y], k)
                            /\ task'[y] = [task[y] EXCEPT !.robbed = @ \cup {k}]
                         \/ /\ ~(Process(y) = Process(x) /\ Owns(task[y], k))
                            /\ task'[y] = task[y]
    BY Zenon, <1>1 DEF Types
<1>3. ASSUME NEW y \in Tasks \ {x}
      PROVE  /\ TaskOK(task'[y]) /\ Alike(task'[y], task[y])
             /\ Process(y) = Process(x) /\ Owns(task[y], k) => k \in task'[y].robbed
  <2>1. CASE /\ Process(y) = Process(x) /\ Owns(task[y], k)
             /\ task'[y] = [task[y] EXCEPT !.robbed = @ \cup {k}]
    <3>1. TaskOK(task[y]) /\ y \in Tasks
        BY Zenon, <1>2
    <3>2. /\ TaskOK([task[y] EXCEPT !.robbed = @ \cup {k}])
          /\ Alike([task[y] EXCEPT !.robbed = @ \cup {k}], task[y])
          /\ k \in [task[y] EXCEPT !.robbed = @ \cup {k}].robbed
        BY <3>1, RobbedOK
    <3> QED
        BY <2>1, <3>2
  <2>2. CASE /\ ~(Process(y) = Process(x) /\ Owns(task[y], k)) /\ task'[y] = task[y]
      BY Zenon, <1>2, <2>2 DEF Alike
  <2> QED
      BY Zenon, <1>2, <2>1, <2>2
<1>4. \A y \in Tasks : TaskOK(task'[y])
    BY Zenon, <1>2, <1>3
<1>5. \A y \in Tasks : task'[y] \in TaskRecord
    BY Zenon, <1>4 DEF TaskOK
<1>6. task' = [y \in Tasks |-> task'[y]]
    BY Zenon, <1>1
<1>7. task' \in [Tasks -> TaskRecord]
    BY Zenon, <1>5, <1>6
<1>8. task'[x] = t
    BY Zenon, <1>2
<1> QED
    BY Zenon, <1>3, <1>4, <1>7, <1>8 DEF TasksOK, Becomes

\* The types hold at first.
LEMMA TypesInit == Init => Types
<1> SUFFICES ASSUME Init PROVE Types
    OBVIOUS
<1>1. TaskOK(Idle(0)) /\ Idle(0) \in TaskRecord
    BY IdleOK DEF TaskOK
<1> QED
    BY <1>1, NoSnapshotOK, RepositoryAssumption DEF Init, LockInit, Types, RepositoryAssumption

\* A task that is there is a task, with streams, tokens and a process of their kinds.
LEMMA TaskIs ==
    ASSUME Types, NEW x \in Tasks
    PROVE  /\ task[x] \in TaskRecord /\ TaskOK(task[x]) /\ task[x].rounds \in Nat
           /\ task[x].holds \subseteq Streams /\ task[x].frees \subseteq Streams
           /\ task[x].cached \in Records /\ task[x].wants \in Seq(Streams)
           /\ task[x].at \in {"Gate", "Lease", "Open"} => Wanted(x) \in Streams
           /\ Process(x) \in Processes /\ mint_token(x) \in Tokens
<1>1. /\ task[x] \in TaskRecord /\ TaskOK(task[x]) /\ task[x].rounds \in Nat
      /\ task[x].holds \subseteq Streams /\ task[x].frees \subseteq Streams
      /\ task[x].cached \in Records /\ task[x].wants \in Seq(Streams)
    BY ZenonT(60) DEF Types, TaskRecord
<1>2. Process(x) \in Processes
    BY Zenon, RepositoryAssumption DEF RepositoryAssumption, Process
<1>3. mint_token(x) \in Tokens
    BY <1>1 DEF mint_token, Tokens
<1>4. task[x].at \in {"Gate", "Lease", "Open"} => Wanted(x) \in Streams
  <2>1. task[x].wants # <<>> => Head(task[x].wants) \in Streams
      BY Zenon, <1>1, TailIs
  <2> QED
      BY Zenon, <1>1, <2>1 DEF TaskOK, Wanted
<1> QED
    BY Zenon, <1>1, <1>2, <1>3, <1>4

\* A load starts at the gate with nothing held.
LEMMA GetTypes ==
    ASSUME Types, NEW x \in Tasks,
           \/ \E k \in Streams : GetSnapshot(x, k)
           \/ \E streams \in Loads[x] : GetStreams(x, streams)
    PROVE  /\ Types'
           /\ \E t : /\ Becomes(x, t) /\ t.at = "Gate" /\ t.holds = {}
                     /\ t.rounds = task[x].rounds + 1
                     /\ \/ \E k \in Streams : t.wants = <<k>> /\ t.cached = snapshot[k]
                        \/ /\ t.cached = NoSnapshot
                           /\ \E streams \in SUBSET Streams :
                                  Cardinality(streams) > 1 /\ t.wants \in InOrder(streams)
           /\ UNCHANGED locks /\ UNCHANGED <<release, stream, snapshot>>
<1>1. task[x].rounds + 1 \in Nat
    BY TaskIs
<1>2. CASE \E k \in Streams : GetSnapshot(x, k)
  <2>1. PICK k \in Streams : GetSnapshot(x, k)
      BY <1>2
  <2> DEFINE t == [Idle(task[x].rounds + 1) EXCEPT !.at = "Gate", !.wants = <<k>>,
                                                   !.cached = snapshot[k]]
  <2>2. snapshot[k] \in Records
      BY DEF Types
  <2>3. TaskOK(t)
      BY ZenonT(60), <1>1, <2>2, LoadOK, OneStream
  <2>4. /\ t.at = "Gate" /\ t.holds = {} /\ t.rounds = task[x].rounds + 1
        /\ t.wants = <<k>> /\ t.cached = snapshot[k]
      BY DEF Idle
  <2>5. Moves(x, t) /\ UNCHANGED <<locks, release, stream, snapshot>>
      BY ZenonT(60), <2>1 DEF GetSnapshot
  <2> HIDE DEF t
  <2>6. TasksOK(task') /\ Becomes(x, t)
      BY Zenon, <2>3, <2>5, MoveTypes
  <2>7. Types' /\ UNCHANGED locks /\ UNCHANGED <<release, stream, snapshot>>
      BY Zenon, <2>5, <2>6 DEF Types, TasksOK, locks
  <2> QED
      BY Zenon, <2>4, <2>6, <2>7
<1>3. CASE \E streams \in Loads[x] : GetStreams(x, streams)
  <2>1. PICK streams \in Loads[x] : GetStreams(x, streams)
      BY <1>3
  <2>2. streams \in SUBSET Streams
      BY Zenon, RepositoryAssumption DEF RepositoryAssumption
  <2>3. PICK s \in InOrder(streams) :
            Moves(x, [Idle(task[x].rounds + 1) EXCEPT !.at = "Gate", !.wants = s])
      BY ZenonT(60), <2>1 DEF GetStreams
  <2>4. s \in Seq(Streams) /\ s # <<>> /\ Distinct(s)
      BY ZenonT(60), <2>1, <2>2, InOrderOK DEF GetStreams
  <2> DEFINE t == [Idle(task[x].rounds + 1) EXCEPT !.at = "Gate", !.wants = s]
  <2>6. TaskOK(t)
      BY ZenonT(60), <1>1, <2>4, LoadOK, NoSnapshotOK
  <2>7. /\ t.at = "Gate" /\ t.holds = {} /\ t.rounds = task[x].rounds + 1
        /\ t.wants = s /\ t.cached = NoSnapshot
      BY DEF Idle
  <2>8. Moves(x, t) /\ UNCHANGED <<locks, release, stream, snapshot>>
      BY ZenonT(60), <2>1, <2>3 DEF GetStreams
  <2> HIDE DEF t
  <2>9. TasksOK(task') /\ Becomes(x, t)
      BY Zenon, <2>6, <2>8, MoveTypes
  <2>10. Types' /\ UNCHANGED locks /\ UNCHANGED <<release, stream, snapshot>>
      BY Zenon, <2>8, <2>9 DEF Types, TasksOK, locks
  <2>11. Cardinality(streams) > 1
      BY Zenon, <2>1 DEF GetStreams
  <2> QED
      BY Zenon, <2>2, <2>3, <2>7, <2>9, <2>10, <2>11
<1> QED
    BY Zenon, <1>2, <1>3

\* An aggregate that is created: the task holds nothing.
LEMMA CreateTypes ==
    ASSUME Types, NEW x \in Tasks, NEW k \in Streams, Create(x, k)
    PROVE  /\ Types'
           /\ \E t : /\ Becomes(x, t) /\ t.at = "Work" /\ t.holds = {}
                     /\ t.rounds = task[x].rounds + 1 /\ t.cached = NoSnapshot
                     /\ \A j \in DOMAIN t.loaded : t.loaded[j] = [version |-> 0, snapshot |-> 0,
                                                                 state |-> 0]
           /\ UNCHANGED <<locks, release, stream, snapshot>>
<1> DEFINE new == [j \in {k} |-> [version |-> 0, snapshot |-> 0, state |-> 0]]
           t == [Idle(task[x].rounds + 1) EXCEPT !.at = "Work", !.loaded = new]
<1>1. task[x].rounds + 1 \in Nat
    BY TaskIs
<1>2. new \in [{k} -> Entities] /\ {k} \in SUBSET Streams
    BY DEF Entities
<1>3. \A j \in DOMAIN new : new[j] = [version |-> 0, snapshot |-> 0, state |-> 0]
    OBVIOUS
<1>4. Moves(x, t) /\ UNCHANGED <<locks, release, stream, snapshot>>
    BY Zenon DEF Create
<1> HIDE DEF new
<1>5. t \in TaskRecord
  <2>1. new \in UNION {[D -> Entities] : D \in SUBSET Streams}
      BY <1>2
  <2>2. Idle(task[x].rounds + 1) \in TaskRecord
      BY Zenon, <1>1, IdleOK DEF TaskOK
  <2> QED
      BY ZenonT(60), <2>1, <2>2 DEF TaskRecord, Points
<1>6. /\ t.at = "Work" /\ t.holds = {} /\ t.rounds = task[x].rounds + 1
      /\ t.cached = NoSnapshot /\ t.loaded = new
    BY DEF Idle
<1> HIDE DEF t
<1>9. TaskOK(t)
  <2>1. t.at \notin {"Gate", "Lease", "Open"} /\ t.at \notin {"Gate", "Lease"} /\ t.at # "Open"
      BY <1>6
  <2> QED
      BY Zenon, <1>2, <1>5, <1>6, <2>1 DEF TaskOK
<1>7. TasksOK(task') /\ Becomes(x, t)
    BY Zenon, <1>4, <1>9, MoveTypes
<1>8. Types'
    BY Zenon, <1>4, <1>7 DEF Types, TasksOK, locks
<1> QED
    BY Zenon, <1>3, <1>4, <1>6, <1>7, <1>8

\* The gate: what was wanted is owned from here on.
LEMMA GateTypes ==
    ASSUME Types, NEW x \in Tasks, Gate(x)
    PROVE  /\ Types'
           /\ \E t : /\ Becomes(x, t) /\ t.at = "Lease" /\ t.wants = task[x].wants
                     /\ t.holds = task[x].holds /\ t.overrun = task[x].overrun
                     /\ t.robbed = task[x].robbed /\ t.rounds = task[x].rounds
                     /\ t.cached = task[x].cached
<1> DEFINE t == [task[x] EXCEPT !.at = "Lease"]
<1>1. /\ task[x] \in TaskRecord /\ TaskOK(task[x]) /\ task[x].at = "Gate"
      /\ Process(x) \in Processes
    BY Zenon, TaskIs DEF Gate
<1>2. Wanted(x) \in Streams
    BY <1>1, TaskIs
<1>3. TaskOK(t)
    BY ZenonT(60), <1>1 DEF TaskOK, TaskRecord, Points
<1>4. Moves(x, t)
    BY DEF Gate
<1>5. gate' \in [Processes -> [Streams -> BOOLEAN]]
    BY <1>1, <1>2 DEF Gate, EnterGate, Types
<1>6. /\ t.at = "Lease" /\ t.wants = task[x].wants /\ t.holds = task[x].holds
      /\ t.overrun = task[x].overrun /\ t.robbed = task[x].robbed
      /\ t.rounds = task[x].rounds /\ t.cached = task[x].cached
    BY <1>1 DEF TaskRecord
<1> HIDE DEF t
<1>7. TasksOK(task') /\ Becomes(x, t)
    BY Zenon, <1>3, <1>4, MoveTypes
<1> QED
    BY Zenon, <1>5, <1>6, <1>7 DEF Types, TasksOK, Gate, EnterGate

\* The lease is won.
LEMMA AcquireTypes ==
    ASSUME Types, NEW x \in Tasks, Acquire(x)
    PROVE  /\ Types'
           /\ \E t : /\ Becomes(x, t) /\ t.wants = Tail(task[x].wants)
                     /\ t.at = IF Tail(task[x].wants) = <<>> THEN "Read" ELSE "Gate"
                     /\ t.holds = task[x].holds \cup {Wanted(x)}
                     /\ t.overrun = task[x].overrun /\ t.robbed = task[x].robbed
                     /\ t.rounds = task[x].rounds /\ t.cached = task[x].cached
<1> DEFINE rest == Tail(task[x].wants)
           t == [task[x] EXCEPT !.at = IF rest = <<>> THEN "Read" ELSE "Gate", !.wants = rest,
                                !.holds = @ \cup {Wanted(x)}]
<1>1. /\ task[x] \in TaskRecord /\ TaskOK(task[x]) /\ task[x].at = "Lease"
      /\ task[x].wants \in Seq(Streams) /\ task[x].wants # <<>> /\ Distinct(task[x].wants)
      /\ Process(x) \in Processes /\ mint_token(x) \in Tokens
    BY Zenon, TaskIs DEF Acquire, TaskOK
<1>2. Wanted(x) \in Streams /\ rest \in Seq(Streams) /\ Distinct(rest)
    BY Zenon, <1>1, TailIs, DistinctTail DEF Wanted
<1>3. Moves(x, t)
    BY Zenon DEF Acquire
<1> HIDE DEF rest
<1>4. TaskOK(t)
    BY ZenonT(60), <1>1, <1>2 DEF TaskOK, TaskRecord, Points
<1>5. /\ lease' \in [Streams -> Tokens \cup {NoToken}]
      /\ slot' \in [Processes -> [Streams -> Tokens \cup {NoToken}]]
    BY <1>1, <1>2 DEF Acquire, db_acquire, Types
<1>6. /\ t.at = IF rest = <<>> THEN "Read" ELSE "Gate"
      /\ t.wants = rest /\ t.holds = task[x].holds \cup {Wanted(x)}
      /\ t.overrun = task[x].overrun /\ t.robbed = task[x].robbed
      /\ t.rounds = task[x].rounds /\ t.cached = task[x].cached
    BY <1>1 DEF TaskRecord
<1> HIDE DEF t
<1>7. TasksOK(task') /\ Becomes(x, t)
    BY Zenon, <1>3, <1>4, MoveTypes
<1>8. Types'
    BY Zenon, <1>5, <1>7 DEF Types, TasksOK, Acquire, db_acquire
<1> QED
    BY Zenon, <1>6, <1>7, <1>8 DEF rest

\* A load that fails keeps the types.
LEMMA LoadFailsTypes ==
    ASSUME Types, NEW x \in Tasks, LoadFails(x)
    PROVE  /\ Types' /\ Becomes(x, Idle(task[x].rounds))
           /\ \/ UNCHANGED locks
              \/ /\ task[x].at = "Lease" /\ AcquireError(Process(x), Wanted(x), mint_token(x))
                 /\ \A y \in Tasks \ {x} : Process(y) = Process(x) /\ Owns(task[y], Wanted(x)) =>
                        Wanted(x) \in task'[y].robbed
           /\ UNCHANGED <<release, stream, snapshot>>
<1>1. /\ TaskOK(Idle(task[x].rounds)) /\ UNCHANGED <<release, stream, snapshot>>
      /\ Process(x) \in Processes /\ mint_token(x) \in Tokens
    BY Zenon, TaskIs, IdleOK DEF LoadFails
<1>2. CASE Moves(x, Idle(task[x].rounds)) /\ UNCHANGED locks
  <2>1. TasksOK(task') /\ Becomes(x, Idle(task[x].rounds))
      BY Zenon, <1>1, <1>2, MoveTypes
  <2> QED
      BY Zenon, <1>1, <1>2, <2>1 DEF Types, TasksOK, locks
<1>3. CASE /\ task[x].at = "Lease" /\ AcquireError(Process(x), Wanted(x), mint_token(x))
           /\ Robs(x, Wanted(x), Idle(task[x].rounds))
  <2>1. Wanted(x) \in Streams
      BY <1>3, TaskIs
  <2>2. /\ TasksOK(task') /\ Becomes(x, Idle(task[x].rounds))
        /\ \A y \in Tasks \ {x} : Process(y) = Process(x) /\ Owns(task[y], Wanted(x)) =>
               Wanted(x) \in task'[y].robbed
      BY Zenon, <1>1, <1>3, <2>1, RobsTypes
  <2>3. /\ gate' \in [Processes -> [Streams -> BOOLEAN]]
        /\ lease' \in [Streams -> Tokens \cup {NoToken}]
        /\ UNCHANGED <<slot, late>>
      BY ZenonT(60), <1>1, <1>3, <2>1 DEF AcquireError, Types
  <2> QED
      BY Zenon, <1>1, <1>3, <2>2, <2>3 DEF Types, TasksOK
<1> QED
    BY Zenon, <1>2, <1>3 DEF LoadFails

\* What is read of a stream and a snapshot that fits it is an entity, and its state
\* is that of its version if the snapshot's is.
LEMMA EntityOK ==
    ASSUME Types, NEW x \in Tasks, NEW k \in Streams, NEW record \in Records
    PROVE  /\ Entity(x, k, record) \in Entities
           /\ Entity(x, k, record).version = Len(stream[k])
           /\ Sound(record) => Sound(Entity(x, k, record))
<1> DEFINE version == Len(stream[k])
<1>1. version \in Nat /\ record.version \in Nat /\ record.state \in Nat
    BY DEF Types, Records
<1> HIDE DEF version
<1>2. CASE Usable(Process(x), record, version)
  <2>1. Decoded(Process(x), record) = record.state
      BY <1>2 DEF Usable, Decoded
  <2>2. record.version <= version
      BY <1>2 DEF Usable
  <2>3. version - record.version \in Nat
      BY <1>1, <2>2
  <2>4. record.state + (version - record.version) \in Nat
      BY <1>1, <2>3
  <2>5. Entity(x, k, record) = [version |-> version, snapshot |-> record.version,
                                state |-> record.state + (version - record.version)]
      BY <1>2, <2>1 DEF Entity, version
  <2>6. record.state = record.version => record.state + (version - record.version) = version
      BY <1>1
  <2> QED
      BY <1>1, <2>4, <2>5, <2>6 DEF Entities, Sound, version
<1>3. CASE ~Usable(Process(x), record, version)
    BY <1>1, <1>3 DEF Entity, Entities, Sound, version
<1> QED
    BY <1>2, <1>3

\* What a read makes of a task, and what its entities are made of.
ReadResult(x, t) ==
    /\ TaskOK(t) /\ Becomes(x, t)
    /\ t.holds = task[x].holds /\ t.overrun = task[x].overrun /\ t.robbed = task[x].robbed
    /\ \/ /\ t.at = "Gate" /\ t.cached = NoSnapshot /\ t.rounds = task[x].rounds + 1
       \/ /\ t.at = "Work" /\ t.cached = task[x].cached /\ t.rounds = task[x].rounds
          /\ DOMAIN t.loaded = t.holds
          /\ \A k \in t.holds : \E record \in {task[x].cached, snapshot[k]} :
                 t.loaded[k] = Entity(x, k, record)

\* A read keeps the types, whatever the snapshot was.
LEMMA ReadMoves ==
    ASSUME Types, NEW x \in Tasks, Read(x)
    PROVE  Types' /\ \E t : ReadResult(x, t)
<1>1. /\ task[x] \in TaskRecord /\ TaskOK(task[x])
      /\ task[x].holds \subseteq Streams /\ task[x].cached \in Records
      /\ task[x].rounds \in Nat
    BY Zenon, TaskIs
<1>2. ASSUME NEW t, TaskOK(t), Moves(x, t)
      PROVE  Types' /\ Becomes(x, t)
    BY ZenonT(60), <1>2, MoveTypes DEF Types, Read, locks, TasksOK
<1>3. CASE \E k \in task[x].holds :
               Moves(x, [task[x] EXCEPT !.at = "Gate", !.wants = <<k>>, !.cached = NoSnapshot,
                                        !.rounds = @ + 1])
  <2>1. PICK k \in task[x].holds :
               Moves(x, [task[x] EXCEPT !.at = "Gate", !.wants = <<k>>, !.cached = NoSnapshot,
                                        !.rounds = @ + 1])
      BY ZenonT(60), <1>3
  <2> DEFINE t == [task[x] EXCEPT !.at = "Gate", !.wants = <<k>>, !.cached = NoSnapshot,
                                  !.rounds = @ + 1]
  <2>2. /\ <<k>> \in Seq(Streams) /\ <<k>> # <<>> /\ Distinct(<<k>>)
        /\ NoSnapshot \in Records /\ task[x].rounds + 1 \in Nat
      BY <1>1, OneStream, NoSnapshotOK
  <2>3. TaskOK(t)
      BY ZenonT(60), <1>1, <2>2 DEF TaskOK, TaskRecord, Points
  <2>4. /\ t.holds = task[x].holds /\ t.overrun = task[x].overrun /\ t.robbed = task[x].robbed
        /\ t.at = "Gate" /\ t.cached = NoSnapshot /\ t.rounds = task[x].rounds + 1
      BY <1>1 DEF TaskRecord
  <2>5. Moves(x, t)
      BY <2>1
  <2> HIDE DEF t
  <2>6. Types' /\ Becomes(x, t)
      BY Zenon, <1>2, <2>3, <2>5
  <2>7. ReadResult(x, t)
      BY Zenon, <2>3, <2>4, <2>6 DEF ReadResult
  <2> QED
      BY Zenon, <2>6, <2>7
<1>4. CASE \E record \in [task[x].holds -> Records] :
               /\ \A k \in task[x].holds : record[k] \in {task[x].cached, snapshot[k]}
               /\ Moves(x, [task[x] EXCEPT !.at = "Work",
                               !.loaded = [k \in task[x].holds |-> Entity(x, k, record[k])]])
  <2>1. PICK record \in [task[x].holds -> Records] :
               /\ \A k \in task[x].holds : record[k] \in {task[x].cached, snapshot[k]}
               /\ Moves(x, [task[x] EXCEPT !.at = "Work",
                               !.loaded = [k \in task[x].holds |-> Entity(x, k, record[k])]])
      BY ZenonT(60), <1>4
  <2> DEFINE loaded == [k \in task[x].holds |-> Entity(x, k, record[k])]
             t == [task[x] EXCEPT !.at = "Work", !.loaded = loaded]
  <2>2. \A k \in task[x].holds : Entity(x, k, record[k]) \in Entities
      BY <1>1, EntityOK
  <2>3. loaded \in [task[x].holds -> Entities] /\ DOMAIN loaded = task[x].holds
      BY <2>2
  <2>4. \A k \in task[x].holds : loaded[k] = Entity(x, k, record[k])
      OBVIOUS
  <2>5. Moves(x, t)
      BY <2>1
  <2> HIDE DEF loaded
  <2>6. loaded \in UNION {[D -> Entities] : D \in SUBSET Streams}
      BY <1>1, <2>3
  <2>7. t \in TaskRecord
      BY ZenonT(60), <1>1, <2>3, <2>6 DEF TaskRecord, Points
  <2>8. /\ t.holds = task[x].holds /\ t.overrun = task[x].overrun /\ t.robbed = task[x].robbed
        /\ t.rounds = task[x].rounds
        /\ t.at = "Work" /\ t.cached = task[x].cached /\ t.loaded = loaded
      BY <1>1 DEF TaskRecord
  <2> HIDE DEF t
  <2>9. TaskOK(t)
    <3>1. t.at \notin {"Gate", "Lease", "Open"} /\ t.at \notin {"Gate", "Lease"} /\ t.at # "Open"
        BY <2>8
    <3> QED
        BY Zenon, <1>1, <2>3, <2>7, <2>8, <3>1 DEF TaskOK
  <2>10. Types' /\ Becomes(x, t)
      BY Zenon, <1>2, <2>5, <2>9
  <2>11. ReadResult(x, t)
      BY Zenon, <2>1, <2>3, <2>4, <2>8, <2>9, <2>10 DEF ReadResult
  <2> QED
      BY Zenon, <2>10, <2>11
<1>5. \/ \E k \in task[x].holds :
               Moves(x, [task[x] EXCEPT !.at = "Gate", !.wants = <<k>>, !.cached = NoSnapshot,
                                        !.rounds = @ + 1])
      \/ \E record \in [task[x].holds -> Records] :
               /\ \A k \in task[x].holds : record[k] \in {task[x].cached, snapshot[k]}
               /\ Moves(x, [task[x] EXCEPT !.at = "Work",
                               !.loaded = [k \in task[x].holds |-> Entity(x, k, record[k])]])
  <2> DEFINE record == [k \in task[x].holds |->
                          IF Cardinality(task[x].holds) = 1 THEN task[x].cached ELSE snapshot[k]]
  <2>1. record \in [task[x].holds -> Records]
      BY <1>1 DEF Types
  <2>2. \A k \in task[x].holds : record[k] \in {task[x].cached, snapshot[k]}
      OBVIOUS
  <2>3. \/ \E k \in task[x].holds :
               Moves(x, [task[x] EXCEPT !.at = "Gate", !.wants = <<k>>, !.cached = NoSnapshot,
                                        !.rounds = @ + 1])
        \/ Moves(x, [task[x] EXCEPT !.at = "Work",
                               !.loaded = [k \in task[x].holds |-> Entity(x, k, record[k])]])
      BY Zenon DEF Read
  <2> HIDE DEF record
  <2> QED
      BY ZenonT(60), <2>1, <2>2, <2>3
<1> QED
    BY ZenonT(60), <1>3, <1>4, <1>5

\* What is left of a task when its work is over.
Freed(x, streams) ==
    IF streams = {} THEN Idle(task[x].rounds)
    ELSE [task[x] EXCEPT !.at = "Unlock", !.frees = streams, !.loaded = <<>>,
                         !.cached = NoSnapshot]

\* A task that is done with its aggregates goes on to release locks.
LEMMA FreedOK ==
    ASSUME Types, NEW x \in Tasks, NEW streams \in SUBSET Streams
    PROVE  LET t == Freed(x, streams)
           IN  /\ TaskOK(t)
               /\ \/ t.holds = {}
                  \/ /\ t.holds = task[x].holds /\ t.overrun = task[x].overrun
                     /\ t.robbed = task[x].robbed
               /\ t.rounds = task[x].rounds /\ t.at \in {"Unlock", "Idle"}
               /\ t.cached = NoSnapshot
<1>1. task[x] \in TaskRecord /\ TaskOK(task[x]) /\ task[x].rounds \in Nat
    BY Zenon, TaskIs
<1>2. CASE streams = {}
  <2>1. Freed(x, streams) = Idle(task[x].rounds)
      BY Zenon, <1>2 DEF Freed
  <2>2. /\ TaskOK(Idle(task[x].rounds))
        /\ Idle(task[x].rounds).at = "Idle" /\ Idle(task[x].rounds).holds = {}
        /\ Idle(task[x].rounds).rounds = task[x].rounds
        /\ Idle(task[x].rounds).cached = NoSnapshot
      BY Zenon, <1>1, IdleOK
  <2> QED
      BY Zenon, <2>1, <2>2
<1>3. CASE streams # {}
  <2> DEFINE t == [task[x] EXCEPT !.at = "Unlock", !.frees = streams, !.loaded = <<>>,
                         !.cached = NoSnapshot]
  <2>1. Freed(x, streams) = t
      BY Zenon, <1>3 DEF Freed
  <2>2. t \in TaskRecord
      BY ZenonT(60), <1>1, NoSnapshotOK DEF TaskRecord, Points
  <2>3. /\ t.holds = task[x].holds /\ t.overrun = task[x].overrun /\ t.robbed = task[x].robbed
        /\ t.rounds = task[x].rounds /\ t.at = "Unlock" /\ t.cached = NoSnapshot
      BY <1>1 DEF TaskRecord
  <2> HIDE DEF t
  <2>4. TaskOK(t)
      BY <2>2, <2>3 DEF TaskOK
  <2> QED
      BY Zenon, <2>1, <2>3, <2>4
<1> QED
    BY Zenon, <1>2, <1>3

\* A task that works has entities of some streams.
LEMMA WorkIs ==
    ASSUME Types, NEW x \in Tasks, task[x].at = "Work"
    PROVE  /\ DOMAIN task[x].loaded \in SUBSET Streams
           /\ \A k \in DOMAIN task[x].loaded : task[x].loaded[k] \in Entities
<1>1. PICK D \in SUBSET Streams : task[x].loaded \in [D -> Entities]
    BY Zenon DEF Types, TaskOK
<1> QED
    BY <1>1

\* An abort, and a commit, end the work.
LEMMA EndsWork ==
    ASSUME Types, NEW x \in Tasks, Commit(x) \/ Abort(x)
    PROVE  /\ TasksOK(task') /\ task[x].at = "Work" /\ UNCHANGED <<locks, release>>
           /\ \E streams \in SUBSET Streams : Becomes(x, Freed(x, streams))
<1>1. task[x].at = "Work" /\ UNCHANGED <<locks, release>>
    BY Zenon DEF Commit, Abort
<1>2. \E streams \in {task[x].holds, DOMAIN task[x].loaded} : Moves(x, Freed(x, streams))
    BY Zenon DEF Commit, Abort, GivesUp, Frees, Freed
<1>3. PICK streams \in {task[x].holds, DOMAIN task[x].loaded} : Moves(x, Freed(x, streams))
    BY Zenon, <1>2
<1>4. streams \in SUBSET Streams
    BY Zenon, <1>1, TaskIs, WorkIs
<1>5. TaskOK(Freed(x, streams))
    BY Zenon, <1>4, FreedOK
<1>6. TasksOK(task') /\ Becomes(x, Freed(x, streams))
    BY Zenon, <1>3, <1>5, MoveTypes
<1> QED
    BY Zenon, <1>1, <1>4, <1>6

\* An abort keeps the types.
LEMMA AbortTypes ==
    ASSUME Types, NEW x \in Tasks, Abort(x)
    PROVE  Types'
<1>1. TasksOK(task') /\ UNCHANGED <<locks, release, stream, snapshot>>
    BY Zenon, EndsWork DEF Abort
<1> QED
    BY Zenon, <1>1 DEF Types, TasksOK, locks

\* What a commit appends and saves has the right type.
LEMMA CommitTypes ==
    ASSUME Types, NEW x \in Tasks, Commit(x)
    PROVE  Types'
<1> DEFINE D == DOMAIN task[x].loaded
<1>1. TasksOK(task') /\ UNCHANGED <<locks, release>> /\ task[x].at = "Work"
    BY Zenon, EndsWork
<1>2. /\ D \subseteq Streams /\ \A k \in D : task[x].loaded[k] \in Entities
    BY Zenon, <1>1, WorkIs
<1>3. Appended(x) \in [Streams -> Seq(Nat)]
  <2>1. \A k \in D : task[x].loaded[k].state \in Nat
      BY <1>2 DEF Entities
  <2>2. \A k \in Streams : stream[k] \in Seq(Nat)
      BY DEF Types
  <2>3. \A k \in D : Append(stream[k], task[x].loaded[k].state) \in Seq(Nat)
      BY <1>2, <2>1, <2>2
  <2> QED
      BY <1>2, <2>2, <2>3 DEF Appended
<1>4. Saved(x) \in [Streams -> Records]
  <2>1. release[Process(x)] \in Nat
      BY Zenon, TaskIs DEF Types
  <2>2. \A k \in D :
            [version |-> task[x].loaded[k].version + 1, state |-> task[x].loaded[k].state + 1,
             schema |-> release[Process(x)]] \in Records
      BY <1>2, <2>1 DEF Entities, Records
  <2>3. \A k \in Streams : snapshot[k] \in Records
      BY DEF Types
  <2> QED
      BY Zenon, <2>2, <2>3 DEF Saved
<1>5. stream' \in [Streams -> Seq(Nat)] /\ snapshot' \in [Streams -> Records]
    BY <1>3, <1>4 DEF Commit, Types
<1> QED
    BY Zenon, <1>1, <1>5 DEF Types, TasksOK, locks

\* A task that lets go of a stream holds it no more, and nothing new.
LEMMA UnlockedOK ==
    ASSUME Types, NEW x \in Tasks, NEW k \in Streams
    PROVE  LET t == Unlocked(x, k)
           IN  /\ TaskOK(t) /\ t.at = "Open" /\ t.rounds = task[x].rounds
               /\ t.cached = task[x].cached
               /\ t.holds = task[x].holds \ {k} /\ t.overrun = task[x].overrun \ {k}
               /\ t.robbed = task[x].robbed \ {k}
<1> DEFINE t == Unlocked(x, k)
<1>1. task[x] \in TaskRecord /\ TaskOK(task[x])
    BY Zenon, TaskIs
<1>2. t \in TaskRecord
    BY ZenonT(60), <1>1, OneStream DEF Unlocked, TaskRecord, Points
<1>3. /\ t.at = "Open" /\ t.rounds = task[x].rounds /\ t.cached = task[x].cached
      /\ t.holds = task[x].holds \ {k} /\ t.overrun = task[x].overrun \ {k}
      /\ t.robbed = task[x].robbed \ {k} /\ t.wants = <<k>>
    BY <1>1 DEF Unlocked, TaskRecord
<1> HIDE DEF t
<1>4. TaskOK(t)
  <2>1. t.at \notin {"Gate", "Lease"} /\ t.at # "Work"
      BY <1>3
  <2>2. Head(t.wants) \notin t.holds /\ t.wants # <<>>
      BY Zenon, <1>3, OneStream
  <2> QED
      BY Zenon, <1>2, <2>1, <2>2 DEF TaskOK
<1> QED
    BY Zenon, <1>3, <1>4 DEF t

\* An unlock keeps the types, failed or not.
LEMMA UnlockTypes ==
    ASSUME Types, NEW x \in Tasks, NEW k \in Streams, Unlock(x, k) \/ UnlockFails(x, k)
    PROVE  /\ Types' /\ Becomes(x, Unlocked(x, k)) /\ task[x].at = "Unlock"
           /\ \A y \in Tasks \ {x} :
                  Process(y) = Process(x) /\ Owns(task[y], k) => k \in task'[y].robbed
           /\ UNCHANGED <<gate, release, stream, snapshot>>
           /\ slot' = [slot EXCEPT ![Process(x)][k] = NoToken]
           /\ lease' = lease \/ lease' = Released(k, slot[Process(x)][k])
           /\ late' \subseteq late \cup {[stream |-> k, token |-> slot[Process(x)][k]]}
<1>1. /\ task[x].at = "Unlock" /\ Robs(x, k, Unlocked(x, k))
      /\ UNCHANGED <<gate, release, stream, snapshot>>
      /\ slot' = [slot EXCEPT ![Process(x)][k] = NoToken]
      /\ lease' = lease \/ lease' = Released(k, slot[Process(x)][k])
      /\ \/ late' = late
         \/ /\ slot[Process(x)][k] # NoToken
            /\ late' = late \cup {[stream |-> k, token |-> slot[Process(x)][k]]}
    BY ZenonT(60) DEF Unlock, UnlockFails, lease_unlock, UnlockError
<1>2. TaskOK(Unlocked(x, k)) /\ Process(x) \in Processes
    BY Zenon, UnlockedOK, TaskIs
<1>3. /\ TasksOK(task') /\ Becomes(x, Unlocked(x, k))
      /\ \A y \in Tasks \ {x} :
             Process(y) = Process(x) /\ Owns(task[y], k) => k \in task'[y].robbed
    BY Zenon, <1>1, <1>2, RobsTypes
<1>4. slot' \in [Processes -> [Streams -> Tokens \cup {NoToken}]]
    BY <1>1, <1>2 DEF Types
<1>5. lease' \in [Streams -> Tokens \cup {NoToken}]
    BY ZenonT(60), <1>1 DEF Released, Types
<1>6. late' \subseteq [stream : Streams, token : Tokens]
  <2>1. late \subseteq [stream : Streams, token : Tokens]
      BY Zenon DEF Types
  <2>2. slot[Process(x)][k] \in Tokens \cup {NoToken}
      BY Zenon, <1>2 DEF Types
  <2>3. slot[Process(x)][k] # NoToken =>
            [stream |-> k, token |-> slot[Process(x)][k]] \in [stream : Streams, token : Tokens]
      BY <2>2
  <2> QED
      BY Zenon, <1>1, <2>1, <2>3
<1>7. Types'
    BY Zenon, <1>1, <1>3, <1>4, <1>5, <1>6 DEF Types, TasksOK
<1>8. late' \subseteq late \cup {[stream |-> k, token |-> slot[Process(x)][k]]}
    BY Zenon, <1>1
<1> QED
    BY Zenon, <1>1, <1>3, <1>7, <1>8

\* The gate that is opened is of a stream the task does not hold.
LEMMA OpenTypes ==
    ASSUME Types, NEW x \in Tasks, Open(x)
    PROVE  /\ Types' /\ Wanted(x) \in Streams
           /\ gate' = [gate EXCEPT ![Process(x)][Wanted(x)] = FALSE]
           /\ \A y \in Tasks \ {x} :
                  Process(y) = Process(x) /\ Owns(task[y], Wanted(x)) =>
                      Wanted(x) \in task'[y].robbed
           /\ UNCHANGED <<slot, lease, late, release, stream, snapshot>>
           /\ \E t : /\ Becomes(x, t) /\ t.at \in {"Idle", "Unlock"}
                     /\ t.rounds = task[x].rounds /\ t.cached \in {NoSnapshot, task[x].cached}
                     /\ \/ t.holds = {}
                        \/ /\ t.holds = task[x].holds /\ t.overrun = task[x].overrun
                           /\ t.robbed = task[x].robbed /\ Wanted(x) \notin t.holds
<1> DEFINE t == IF task[x].frees = {} THEN Idle(task[x].rounds)
                ELSE [task[x] EXCEPT !.at = "Unlock", !.wants = <<>>]
<1>1. /\ task[x].at = "Open" /\ Robs(x, Wanted(x), t)
      /\ gate' = [gate EXCEPT ![Process(x)][Wanted(x)] = FALSE]
      /\ UNCHANGED <<slot, lease, late, release, stream, snapshot>>
    BY Zenon DEF Open, OpenGate
<1>2. /\ task[x] \in TaskRecord /\ TaskOK(task[x]) /\ task[x].rounds \in Nat
      /\ Process(x) \in Processes
    BY Zenon, TaskIs
<1>3. Wanted(x) \in Streams /\ Wanted(x) \notin task[x].holds
    BY SMTT(60), <1>1, <1>2, TaskIs DEF TaskOK, Wanted
<1>4. /\ TaskOK(t) /\ t.at \in {"Idle", "Unlock"}
      /\ t.rounds = task[x].rounds /\ t.cached \in {NoSnapshot, task[x].cached}
      /\ \/ t.holds = {}
         \/ /\ t.holds = task[x].holds /\ t.overrun = task[x].overrun
            /\ t.robbed = task[x].robbed
  <2>1. CASE task[x].frees = {}
    <3>1. t = Idle(task[x].rounds)
        BY Zenon, <2>1
    <3> HIDE DEF t
    <3> QED
        BY Zenon, <1>2, <3>1, IdleOK
  <2>2. CASE task[x].frees # {}
    <3> DEFINE s == [task[x] EXCEPT !.at = "Unlock", !.wants = <<>>]
    <3>1. t = s
        BY Zenon, <2>2
    <3> HIDE DEF t
    <3>2. <<>> \in Seq(Streams)
        OBVIOUS
    <3>3. s \in TaskRecord
        BY ZenonT(60), <1>2, <3>2 DEF TaskRecord, Points
    <3>4. /\ s.at = "Unlock" /\ s.rounds = task[x].rounds /\ s.cached = task[x].cached
          /\ s.holds = task[x].holds /\ s.overrun = task[x].overrun
          /\ s.robbed = task[x].robbed
        BY <1>2 DEF TaskRecord
    <3> HIDE DEF s
    <3>5. TaskOK(s)
        BY <3>3, <3>4 DEF TaskOK
    <3> QED
        BY Zenon, <3>1, <3>4, <3>5
  <2> QED
      BY Zenon, <2>1, <2>2
<1> HIDE DEF t
<1>5. /\ TasksOK(task') /\ Becomes(x, t)
      /\ \A y \in Tasks \ {x} :
             Process(y) = Process(x) /\ Owns(task[y], Wanted(x)) => Wanted(x) \in task'[y].robbed
    BY Zenon, <1>1, <1>3, <1>4, RobsTypes
<1>6. gate' \in [Processes -> [Streams -> BOOLEAN]]
    BY <1>1, <1>2, <1>3 DEF Types
<1>7. Types'
    BY Zenon, <1>1, <1>5, <1>6 DEF Types, TasksOK
<1> QED
    BY Zenon, <1>1, <1>3, <1>4, <1>5, <1>7

\* A lease that expires is marked in the record of its holder.
LEMMA OverrunTypes ==
    ASSUME Types, NEW k \in Streams, Overrun(k)
    PROVE  /\ Types'
           /\ \A x \in Tasks : /\ task'[x].at = task[x].at /\ task'[x].wants = task[x].wants
                               /\ task'[x].holds = task[x].holds
                               /\ task'[x].robbed = task[x].robbed
                               /\ task'[x].rounds = task[x].rounds
                               /\ task'[x].cached = task[x].cached
                               /\ task'[x].loaded = task[x].loaded
                               /\ task'[x].overrun =
                                    IF k \in task[x].holds /\ slot[Process(x)][k] = lease[k]
                                    THEN task[x].overrun \cup {k} ELSE task[x].overrun
<1>1. \A x \in Tasks : task[x] \in TaskRecord /\ TaskOK(task[x])
    BY DEF Types
<1>2. \A x \in Tasks : task'[x] = IF k \in task[x].holds /\ slot[Process(x)][k] = lease[k]
                                  THEN [task[x] EXCEPT !.overrun = @ \cup {k}] ELSE task[x]
    BY DEF Overrun
<1>3. \A x \in Tasks : /\ task'[x].at = task[x].at /\ task'[x].wants = task[x].wants
                       /\ task'[x].holds = task[x].holds
                       /\ task'[x].robbed = task[x].robbed
                       /\ task'[x].rounds = task[x].rounds
                       /\ task'[x].cached = task[x].cached
                       /\ task'[x].loaded = task[x].loaded
                       /\ task'[x].overrun =
                            IF k \in task[x].holds /\ slot[Process(x)][k] = lease[k]
                            THEN task[x].overrun \cup {k} ELSE task[x].overrun
    BY ZenonT(60), <1>1, <1>2 DEF TaskRecord
<1>4. \A x \in Tasks : task'[x] \in TaskRecord
  <2>1. ASSUME NEW t \in TaskRecord
        PROVE  [t EXCEPT !.overrun = @ \cup {k}] \in TaskRecord
      BY SMTT(60) DEF TaskRecord
  <2> QED
      BY ZenonT(60), <1>1, <1>2, <2>1
<1>5. \A x \in Tasks : TaskOK(task'[x])
    BY ZenonT(60), <1>1, <1>3, <1>4 DEF TaskOK
<1>6. task' \in [Tasks -> TaskRecord]
  <2>1. \E f : task' = [x \in Tasks |-> f[x]]
    <3>1. task' = [x \in Tasks |-> task'[x]]
        BY DEF Overrun
    <3> QED
        BY <3>1
  <2> QED
      BY <1>4, <2>1
<1>7. lease' \in [Streams -> Tokens \cup {NoToken}]
    BY DEF Overrun, Expire, Types
<1> QED
    BY ZenonT(60), <1>3, <1>5, <1>6, <1>7 DEF Types, Overrun, Expire

\* A late release keeps the types.
LEMMA LateTypes ==
    ASSUME Types, Late
    PROVE  Types'
<1>1. PICK r \in late : LateRelease(r)
    BY DEF Late
<1>2. r.stream \in Streams /\ r.token \in Tokens
    BY DEF Types
<1>3. lease' \in [Streams -> Tokens \cup {NoToken}]
    BY <1>1, <1>2 DEF LateRelease, Released, Types
<1> QED
    BY <1>1, <1>3 DEF Late, LateRelease, Types

\* A crash makes the tasks of the process idle.
LEMMA CrashTypes ==
    ASSUME Types, NEW p \in Processes, Crash(p)
    PROVE  /\ Types'
           /\ \A x \in Tasks : task'[x] = IF Process(x) = p THEN Idle(task[x].rounds) ELSE task[x]
<1>1. \A x \in Tasks : task'[x] = IF Process(x) = p THEN Idle(task[x].rounds) ELSE task[x]
    BY DEF Crash
<1>2. \A x \in Tasks : task[x] \in TaskRecord /\ TaskOK(task[x]) /\ task[x].rounds \in Nat
    BY Zenon, TaskIs
<1>3. \A x \in Tasks : TaskOK(Idle(task[x].rounds))
    BY <1>2, IdleOK
<1>4. \A x \in Tasks : TaskOK(task'[x])
    BY <1>1, <1>2, <1>3
<1>5. \A x \in Tasks : task'[x] \in TaskRecord
    BY <1>4 DEF TaskOK
<1>6. task' \in [Tasks -> TaskRecord]
  <2>1. task' = [x \in Tasks |-> task'[x]]
      BY DEF Crash
  <2> QED
      BY <1>5, <2>1
<1>7. /\ gate' \in [Processes -> [Streams -> BOOLEAN]]
      /\ slot' \in [Processes -> [Streams -> Tokens \cup {NoToken}]]
    BY DEF Crash, LockCrash, Types
<1> QED
    BY Zenon, <1>1, <1>4, <1>6, <1>7 DEF Types, Crash, LockCrash

\* A causal commit keeps the types.
LEMMA CausalCommitTypes ==
    ASSUME Types, NEW k \in Streams, CausalCommit(k)
    PROVE  Types'
<1>1. stream' \in [Streams -> Seq(Nat)]
    BY DEF CausalCommit, Types
<1> QED
    BY <1>1 DEF Types, CausalCommit, locks

\* The types hold after every step.
LEMMA TypesNext ==
    ASSUME Types, Next
    PROVE  Types'
<1>1. ASSUME NEW x \in Tasks,
             \/ \E k \in Streams : GetSnapshot(x, k)
             \/ \E streams \in Loads[x] : GetStreams(x, streams)
      PROVE  Types'
    BY Zenon, <1>1, GetTypes
<1>2. ASSUME NEW x \in Tasks, Step(x) \/ LoadFails(x) \/ Abort(x)
      PROVE  Types'
    BY Zenon, <1>2, GateTypes, AcquireTypes, LoadFailsTypes, ReadMoves, CommitTypes, AbortTypes,
       UnlockTypes, OpenTypes DEF Step
<1>3. ASSUME NEW x \in Tasks, NEW k \in Streams, UnlockFails(x, k) \/ Create(x, k)
      PROVE  Types'
    BY Zenon, <1>3, UnlockTypes, CreateTypes
<1> QED
    BY Zenon, <1>1, <1>2, <1>3, OverrunTypes, LateTypes, CrashTypes, CausalCommitTypes DEF Next

-----------------------------------------------------------------------------
(* Locks.                                                                  *)

\* A token can be told from no token, and the tokens of two tasks from each other.
LEMMA TokensDiffer ==
    /\ \A x, n : <<x, n>> # NoToken
    /\ \A x, y, m, n : <<x, m>> = <<y, n>> => x = y /\ m = n
BY DEF NoToken

\* A task that does not take the step owns, and keeps, nothing new.
LEMMA AlikeOwns ==
    ASSUME NEW s, NEW t, Alike(s, t)
    PROVE  /\ \A k : Owns(s, k) => Owns(t, k) /\ (k \in t.robbed => k \in s.robbed)
           /\ Kept(s) \subseteq Kept(t)
BY Zenon DEF Alike, Owns, Kept

\* Gates, when no task passes one.
LEMMA GatesStay ==
    ASSUME Types, LockInv,
           \A y \in Tasks, k \in Streams : Owns(task'[y], k) =>
               /\ Owns(task[y], k) /\ (k \in task[y].robbed => k \in task'[y].robbed)
               /\ gate[Process(y)][k] => gate'[Process(y)][k] \/ k \in task'[y].robbed
    PROVE  GateIsLocked' /\ OneOwner'
<1>1. GateIsLocked'
    BY Zenon DEF LockInv, GateIsLocked, Process
<1>2. OneOwner'
    BY Zenon DEF LockInv, OneOwner, Process
<1> QED
    BY Zenon, <1>1, <1>2

\* Rows and slots, where nothing is done to them.
LEMMA LeasesStay ==
    ASSUME LockInv,
           \A y \in Tasks : \A k \in Kept(task'[y]) :
               /\ k \in Kept(task[y])
               /\ slot'[Process(y)][k] = slot[Process(y)][k] /\ lease'[k] = lease[k]
               /\ [stream |-> k, token |-> lease[k]] \in late' =>
                      [stream |-> k, token |-> lease[k]] \in late
    PROVE  LeaseIsItsHolders'
<1>1. ASSUME NEW y \in Tasks, NEW k \in Kept(task'[y])
      PROVE  Secured(y, k)'
  <2>1. Secured(y, k)
      BY Zenon DEF LockInv, LeaseIsItsHolders
  <2>2. /\ slot'[Process(y)][k] = lease'[k] /\ \E n \in Nat : lease'[k] = <<y, n>>
      BY Zenon, <2>1 DEF Secured
  <2>3. [stream |-> k, token |-> lease'[k]] \notin late'
      BY Zenon, <2>1 DEF Secured
  <2> QED
      BY Zenon, <2>2, <2>3 DEF Secured, Process
<1> QED
    BY Zenon, <1>1 DEF LeaseIsItsHolders

\* Tokens in slots and in releases on their way are those of locks that were won.
LEMMA TokensStay ==
    ASSUME Types, LockInv,
           \A y \in Tasks : task'[y].rounds \in {task[y].rounds, task[y].rounds + 1},
           \A p \in Processes, k \in Streams :
               \/ slot'[p][k] \in {slot[p][k], NoToken}
               \/ \E z \in Tasks : Process(z) = p /\ slot'[p][k] = <<z, task[z].rounds>>,
           \A r \in late' : \/ r \in late
                            \/ r.stream \in Streams /\ \E p \in Processes : r.token = slot[p][r.stream]
    PROVE  TokensAreOld'
<1>1. \A y \in Tasks : task[y].rounds \in Nat
    BY Zenon, TaskIs
<1>2. ASSUME NEW y \in Tasks, NEW n \in Nat, n <= task[y].rounds
      PROVE  n <= task'[y].rounds
    BY <1>1, <1>2
<1>3. ASSUME NEW p \in Processes, NEW k \in Streams, NEW y \in Tasks, NEW n \in Nat,
             slot'[p][k] = <<y, n>>
      PROVE  Process(y) = p /\ n <= task[y].rounds
  <2>1. CASE slot'[p][k] = slot[p][k]
      BY Zenon, <1>3, <2>1 DEF LockInv, TokensAreOld
  <2>2. CASE slot'[p][k] = NoToken
      BY Zenon, <1>3, <2>2, TokensDiffer
  <2>3. ASSUME NEW z \in Tasks, Process(z) = p, slot'[p][k] = <<z, task[z].rounds>>
        PROVE  Process(y) = p /\ n <= task[y].rounds
    <3>1. y = z /\ n = task[y].rounds
      <4>1. <<y, n>> = <<z, task[z].rounds>>
          BY Zenon, <1>3, <2>3
      <4> QED
          BY <4>1
    <3> QED
        BY <1>1, <2>3, <3>1
  <2> QED
      BY Zenon, <2>1, <2>2, <2>3
<1>4. ASSUME NEW r \in late', NEW y \in Tasks, NEW n \in Nat, r.token = <<y, n>>
      PROVE  n <= task[y].rounds
  <2>1. CASE r \in late
      BY Zenon, <1>4, <2>1 DEF LockInv, TokensAreOld
  <2>2. ASSUME r.stream \in Streams, NEW p \in Processes, r.token = slot[p][r.stream]
        PROVE  n <= task[y].rounds
      BY ZenonT(60), <1>4, <2>2 DEF LockInv, TokensAreOld
  <2> QED
      BY Zenon, <2>1, <2>2
<1>5. ASSUME NEW p \in Processes, NEW k \in Streams, NEW y \in Tasks, NEW n \in Nat,
             slot'[p][k] = <<y, n>>
      PROVE  Process(y) = p /\ n <= task'[y].rounds
  <2>1. Process(y) = p /\ n <= task[y].rounds
      BY Zenon, <1>3, <1>5
  <2> QED
      BY Zenon, <1>2, <2>1
<1>6. \A r \in late', y \in Tasks, n \in Nat : r.token = <<y, n>> => n <= task'[y].rounds
    BY Zenon, <1>2, <1>4
<1> QED
    BY Zenon, <1>5, <1>6 DEF TokensAreOld, Process

\* A task that waits has a new token, or waits for streams it waited for before and
\* does not get.
LEMMA NothingSpends ==
    ASSUME Types, Types', LockInv,
           \A r \in late' : \/ r \in late
                            \/ r.stream \in Streams /\ \E p \in Processes : r.token = slot[p][r.stream],
           \A y \in Tasks : task'[y].at \in {"Gate", "Lease"} =>
               \/ task'[y].rounds = task[y].rounds + 1 /\ UNCHANGED <<slot, late>>
               \/ /\ task'[y].rounds = task[y].rounds /\ task[y].at \in {"Gate", "Lease"}
                  /\ \A n \in 1..Len(task'[y].wants) :
                         /\ \E m \in 1..Len(task[y].wants) : task'[y].wants[n] = task[y].wants[m]
                         /\ slot'[Process(y)][task'[y].wants[n]] = <<y, task[y].rounds>> =>
                                slot[Process(y)][task'[y].wants[n]] = <<y, task[y].rounds>>
    PROVE  NothingSpent'
<1>1. ASSUME NEW y \in Tasks, task'[y].at \in {"Gate", "Lease"},
             NEW n \in 1..Len(task'[y].wants)
      PROVE  /\ slot'[Process(y)][task'[y].wants[n]] # <<y, task'[y].rounds>>
             /\ [stream |-> task'[y].wants[n], token |-> <<y, task'[y].rounds>>] \notin late'
  <2>1. PICK k : k = task'[y].wants[n]
      BY SMTT(60)
  <2>2. k \in Streams /\ Process(y) \in Processes /\ task[y].rounds \in Nat
    <3>1. task'[y].wants \in Seq(Streams)
        BY Zenon DEF Types, TaskRecord
    <3>2. task'[y].wants[n] \in Streams
        BY SMTT(60), <3>1
    <3> QED
        BY Zenon, <2>1, <3>2, TaskIs
  <2>3. CASE task'[y].rounds = task[y].rounds + 1 /\ UNCHANGED <<slot, late>>
    <3>1. task[y].rounds + 1 \in Nat /\ ~(task[y].rounds + 1 <= task[y].rounds)
        BY SMTT(60), <2>2
    <3>2. slot[Process(y)][k] # <<y, task[y].rounds + 1>>
        BY Zenon, <2>2, <3>1 DEF LockInv, TokensAreOld
    <3>3. ASSUME NEW r \in late PROVE r.token # <<y, task[y].rounds + 1>>
        BY Zenon, <2>2, <3>1 DEF LockInv, TokensAreOld
    <3>4. [stream |-> k, token |-> <<y, task[y].rounds + 1>>] \notin late
        BY SMTT(60), <3>3
    <3> QED
        BY Zenon, <2>1, <2>3, <3>2, <3>4
  <2>4. CASE /\ task'[y].rounds = task[y].rounds /\ task[y].at \in {"Gate", "Lease"}
             /\ \E m \in 1..Len(task[y].wants) : k = task[y].wants[m]
             /\ slot'[Process(y)][k] = <<y, task[y].rounds>> =>
                    slot[Process(y)][k] = <<y, task[y].rounds>>
    <3>1. ~Spent(y, k)
        BY Zenon, <2>4 DEF LockInv, NothingSpent
    <3>2. /\ slot[Process(y)][k] # <<y, task[y].rounds>>
          /\ [stream |-> k, token |-> <<y, task[y].rounds>>] \notin late
        BY Zenon, <3>1 DEF Spent, mint_token
    <3>3. ASSUME [stream |-> k, token |-> <<y, task[y].rounds>>] \in late' PROVE FALSE
      <4> DEFINE r == [stream |-> k, token |-> <<y, task[y].rounds>>]
      <4>1. r.stream = k /\ r.token = <<y, task[y].rounds>>
          BY SMTT(60)
      <4>2. r \in late' /\ r \notin late
          BY Zenon, <3>2, <3>3
      <4> HIDE DEF r
      <4>3. PICK p \in Processes : <<y, task[y].rounds>> = slot[p][k]
          BY Zenon, <4>1, <4>2
      <4>4. Process(y) = p
          BY Zenon, <2>2, <4>3 DEF LockInv, TokensAreOld
      <4> QED
          BY Zenon, <3>2, <4>3, <4>4
    <3> QED
        BY Zenon, <2>1, <2>4, <3>2, <3>3
  <2> QED
      BY Zenon, <1>1, <2>1, <2>3, <2>4
<1> QED
    BY Zenon, <1>1 DEF NothingSpent, Spent, mint_token, Process

\* Steps that leave slots, rows and releases alone, and take no lock.
LEMMA QuietKeeps ==
    ASSUME Types, Types', LockInv, UNCHANGED <<slot, lease, late>>,
           \A y \in Tasks :
               /\ task'[y].rounds \in {task[y].rounds, task[y].rounds + 1}
               /\ Kept(task'[y]) \subseteq Kept(task[y])
               /\ task'[y].at \in {"Gate", "Lease"} =>
                      \/ task'[y].rounds = task[y].rounds + 1
                      \/ /\ task'[y].rounds = task[y].rounds /\ task[y].at \in {"Gate", "Lease"}
                         /\ task'[y].wants = task[y].wants
    PROVE  LeaseIsItsHolders' /\ TokensAreOld' /\ NothingSpent'
<1>1. LeaseIsItsHolders'
    BY Zenon, LeasesStay
<1>2. TokensAreOld'
    BY Zenon, TokensStay
<1>3. NothingSpent'
    BY Zenon, NothingSpends
<1> QED
    BY Zenon, <1>1, <1>2, <1>3

\* The same for one task that goes on with what it has, or has nothing.
LEMMA MoveKeeps ==
    ASSUME Types, Types', LockInv, UNCHANGED locks, NEW x \in Tasks, NEW t, Becomes(x, t),
           t.rounds \in {task[x].rounds, task[x].rounds + 1},
           \/ t.holds = {}
           \/ t.holds = task[x].holds /\ t.overrun = task[x].overrun /\ t.robbed = task[x].robbed,
           t.at # "Lease", t.at = "Gate" => t.rounds = task[x].rounds + 1
    PROVE  LockInv'
<1>1. UNCHANGED <<gate, slot, lease, late>>
    BY Zenon DEF locks
<1>2. \A k : Owns(t, k) => Owns(task[x], k) /\ (k \in task[x].robbed => k \in t.robbed)
    BY Zenon DEF Owns
<1>3. Kept(t) \subseteq Kept(task[x])
    BY Zenon DEF Kept
<1>4. \A y \in Tasks, k \in Streams : Owns(task'[y], k) =>
          Owns(task[y], k) /\ (k \in task[y].robbed => k \in task'[y].robbed)
    BY Zenon, <1>2, AlikeOwns DEF Becomes
<1>5. GateIsLocked' /\ OneOwner'
    BY Zenon, <1>1, <1>4, GatesStay
<1>6. ASSUME NEW y \in Tasks
      PROVE  /\ task'[y].rounds \in {task[y].rounds, task[y].rounds + 1}
             /\ Kept(task'[y]) \subseteq Kept(task[y])
             /\ task'[y].at \in {"Gate", "Lease"} =>
                    \/ task'[y].rounds = task[y].rounds + 1
                    \/ /\ task'[y].rounds = task[y].rounds /\ task[y].at \in {"Gate", "Lease"}
                       /\ task'[y].wants = task[y].wants
  <2>1. CASE y = x
      BY Zenon, <1>3, <2>1 DEF Becomes
  <2>2. CASE y # x
    <3>1. Alike(task'[y], task[y])
        BY Zenon, <2>2 DEF Becomes
    <3>2. Kept(task'[y]) \subseteq Kept(task[y])
        BY Zenon, <3>1, AlikeOwns
    <3> QED
        BY Zenon, <3>1, <3>2 DEF Alike
  <2> QED
      BY Zenon, <2>1, <2>2
<1>7. LeaseIsItsHolders' /\ TokensAreOld' /\ NothingSpent'
    BY Zenon, <1>1, <1>6, QuietKeeps
<1> QED
    BY Zenon, <1>5, <1>7 DEF LockInv

\* Passing the gate: whoever of the process owned it was robbed of it.
LEMMA GateKeeps ==
    ASSUME Types, LockInv, NEW x \in Tasks, Gate(x)
    PROVE  LockInv'
<1> DEFINE p == Process(x)
           k == Wanted(x)
<1>1. PICK t : /\ Becomes(x, t) /\ t.at = "Lease" /\ t.wants = task[x].wants
               /\ t.holds = task[x].holds /\ t.overrun = task[x].overrun
               /\ t.robbed = task[x].robbed /\ t.rounds = task[x].rounds
    BY Zenon, GateTypes
<1>2. task[x].at = "Gate" /\ p \in Processes /\ Types'
    BY Zenon, TaskIs, GateTypes DEF Gate
<1>3. k \in Streams
    BY <1>2, TaskIs
<1>4. ~gate[p][k] /\ gate' = [gate EXCEPT ![p][k] = TRUE] /\ UNCHANGED <<slot, lease, late>>
    BY Zenon DEF Gate, EnterGate
<1>5. \A y \in Tasks : Process(y) = p /\ Owns(task[y], k) => k \in task[y].robbed
    BY Zenon, <1>3, <1>4 DEF LockInv, GateIsLocked
<1>6. /\ gate'[p][k] /\ \A q \in Processes, j \in Streams : gate[q][j] => gate'[q][j]
    BY <1>2, <1>3, <1>4 DEF Types
<1>7. \A y \in Tasks \ {x} : /\ Kept(task'[y]) \subseteq Kept(task[y])
                             /\ \A j : Owns(task'[y], j) =>
                                    Owns(task[y], j) /\ (j \in task[y].robbed => j \in task'[y].robbed)
    BY Zenon, <1>1, AlikeOwns DEF Becomes
<1>8. \A j : Owns(t, j) => Owns(task[x], j) \/ j = k
    BY Zenon, <1>1 DEF Owns, Wanted
<1>9. task'[x] = t
    BY Zenon, <1>1 DEF Becomes
<1> HIDE DEF p, k
<1>10. GateIsLocked'
  <2>1. ASSUME NEW y \in Tasks, NEW j \in Streams, Owns(task'[y], j)
        PROVE  gate'[Process(y)][j] \/ j \in task'[y].robbed
    <3>1. Process(y) \in Processes
        BY Zenon, TaskIs
    <3>2. CASE y = x /\ j = k
        BY Zenon, <1>6, <3>2 DEF p
    <3>3. CASE y = x /\ j # k
      <4>1. Owns(task[x], j) /\ task'[y].robbed = task[x].robbed
          BY Zenon, <1>1, <1>8, <1>9, <2>1, <3>3
      <4> QED
          BY Zenon, <1>6, <3>1, <3>3, <4>1 DEF LockInv, GateIsLocked
    <3>4. CASE y # x
      <4>1. Owns(task[y], j) /\ (j \in task[y].robbed => j \in task'[y].robbed)
          BY Zenon, <1>7, <2>1, <3>4
      <4> QED
          BY Zenon, <1>6, <3>1, <4>1 DEF LockInv, GateIsLocked
    <3> QED
        BY Zenon, <3>2, <3>3, <3>4
  <2> QED
      BY Zenon, <2>1 DEF GateIsLocked, Process
<1>11. OneOwner'
  <2>1. ASSUME NEW y \in Tasks \ {x}, NEW j \in Streams, Owns(task'[x], j), Owns(task'[y], j),
               Process(x) = Process(y)
        PROVE  j \in task'[x].robbed \/ j \in task'[y].robbed
    <3>1. /\ Owns(task[y], j) /\ (j \in task[y].robbed => j \in task'[y].robbed)
          /\ Owns(task[x], j) \/ j = k
          /\ task'[x].robbed = task[x].robbed
        BY Zenon, <1>1, <1>7, <1>8, <1>9, <2>1
    <3> QED
        BY Zenon, <1>5, <2>1, <3>1 DEF LockInv, OneOwner, p
  <2>2. ASSUME NEW y \in Tasks \ {x}, NEW z \in Tasks \ {x}, NEW j \in Streams, y # z,
               Owns(task'[z], j), Owns(task'[y], j), Process(z) = Process(y)
        PROVE  j \in task'[z].robbed \/ j \in task'[y].robbed
      BY Zenon, <1>7, <2>2 DEF LockInv, OneOwner
  <2>3. ASSUME NEW y \in Tasks, NEW z \in Tasks, NEW j \in Streams, y # z,
               Owns(task'[z], j), Owns(task'[y], j), Process(z) = Process(y)
        PROVE  j \in task'[z].robbed \/ j \in task'[y].robbed
      BY Zenon, <2>1, <2>2, <2>3
  <2> QED
      BY Zenon, <2>3 DEF OneOwner, Process
<1>12. ASSUME NEW y \in Tasks
       PROVE  /\ task'[y].rounds \in {task[y].rounds, task[y].rounds + 1}
              /\ Kept(task'[y]) \subseteq Kept(task[y])
              /\ task'[y].at \in {"Gate", "Lease"} =>
                     \/ task'[y].rounds = task[y].rounds + 1
                     \/ /\ task'[y].rounds = task[y].rounds /\ task[y].at \in {"Gate", "Lease"}
                        /\ task'[y].wants = task[y].wants
  <2>1. CASE y = x
      BY Zenon, <1>1, <1>2, <1>9, <2>1 DEF Kept
  <2>2. CASE y # x
      BY Zenon, <1>1, <1>7, <2>2 DEF Becomes, Alike
  <2> QED
      BY Zenon, <2>1, <2>2
<1>13. LeaseIsItsHolders' /\ TokensAreOld' /\ NothingSpent'
    BY Zenon, <1>2, <1>4, <1>12, QuietKeeps
<1> QED
    BY Zenon, <1>10, <1>11, <1>13 DEF LockInv

\* A lease that is somebody's cannot be acquired, or released, under another token.
LEMMA SecuredStays ==
    ASSUME LockInv, NEW x \in Tasks, NEW y \in Tasks \ {x}, NEW k \in Kept(task[y]), NEW n
    PROVE  lease[k] # <<x, n>> /\ lease[k] # NoToken
<1>1. PICK m \in Nat : lease[k] = <<y, m>>
    BY Zenon DEF LockInv, LeaseIsItsHolders, Secured
<1> QED
    BY Zenon, <1>1, TokensDiffer

\* Winning the lease: nobody held it, but for holders who had lost it.
LEMMA AcquireKeeps ==
    ASSUME Types, LockInv, NEW x \in Tasks, Acquire(x)
    PROVE  LockInv'
<1> DEFINE p == Process(x)
           k == Wanted(x)
           token == <<x, task[x].rounds>>
           rest == Tail(task[x].wants)
<1>1. PICK t : /\ Becomes(x, t) /\ t.wants = rest
               /\ t.at = IF rest = <<>> THEN "Read" ELSE "Gate"
               /\ t.holds = task[x].holds \cup {k}
               /\ t.overrun = task[x].overrun /\ t.robbed = task[x].robbed
               /\ t.rounds = task[x].rounds
    BY Zenon, AcquireTypes
<1>2. /\ task[x].at = "Lease" /\ p \in Processes /\ Types' /\ task[x].rounds \in Nat
      /\ task[x].wants \in Seq(Streams) /\ task[x].wants # <<>> /\ Distinct(task[x].wants)
    BY Zenon, TaskIs, AcquireTypes DEF Acquire, TaskOK
<1>3. /\ k \in Streams /\ k = task[x].wants[1] /\ 1 \in 1..Len(task[x].wants)
      /\ \A n \in 1..Len(rest) : /\ rest[n] # k
                                 /\ \E m \in 1..Len(task[x].wants) : rest[n] = task[x].wants[m]
  <2>1. /\ Head(task[x].wants) \in Streams /\ Head(task[x].wants) = task[x].wants[1]
        /\ 1 \in 1..Len(task[x].wants)
        /\ \A n \in 1..Len(rest) : n + 1 \in 1..Len(task[x].wants) /\ rest[n] = task[x].wants[n + 1]
      BY Zenon, <1>2, TailIs
  <2>2. \A n \in 1..Len(rest) : rest[n] # Head(task[x].wants)
      BY Zenon, <1>2, DistinctTail
  <2> QED
      BY Zenon, <2>1, <2>2 DEF Wanted
<1>4. /\ lease[k] \in {NoToken, token}
      /\ lease'[k] = token /\ \A j \in Streams \ {k} : lease'[j] = lease[j]
      /\ slot'[p][k] = token
      /\ \A q \in Processes, j \in Streams : q # p \/ j # k => slot'[q][j] = slot[q][j]
      /\ UNCHANGED <<gate, late>>
    BY ZenonT(60), <1>2, <1>3 DEF Acquire, db_acquire, Acquirable, mint_token, Types
<1>5. \A y \in Tasks \ {x} : Alike(task'[y], task[y])
    BY Zenon, <1>1 DEF Becomes
<1>6. \A y \in Tasks \ {x} : /\ Kept(task'[y]) \subseteq Kept(task[y])
                             /\ \A j : Owns(task'[y], j) =>
                                    Owns(task[y], j) /\ (j \in task[y].robbed => j \in task'[y].robbed)
    BY Zenon, <1>5, AlikeOwns
<1>7. task'[x] = t /\ t.at # "Lease"
    BY Zenon, <1>1 DEF Becomes
<1>8. \A j : Owns(t, j) => Owns(task[x], j)
    BY Zenon, <1>1, <1>2, <1>7 DEF Owns, Wanted
<1>9. \A y \in Tasks : Process(y) \in Processes /\ task[y].holds \subseteq Streams
    BY Zenon, TaskIs
<1>10. [stream |-> k, token |-> token] \notin late
    BY Zenon, <1>2, <1>3 DEF LockInv, NothingSpent, Spent, mint_token
<1> HIDE DEF p, k, token, rest
<1>11. GateIsLocked' /\ OneOwner'
  <2>1. ASSUME NEW y \in Tasks, NEW j \in Streams, Owns(task'[y], j)
        PROVE  Owns(task[y], j) /\ (j \in task[y].robbed => j \in task'[y].robbed)
      BY Zenon, <1>1, <1>6, <1>7, <1>8, <2>1
  <2> QED
      BY Zenon, <1>4, <2>1, GatesStay
<1>12. LeaseIsItsHolders'
  <2>1. ASSUME NEW y \in Tasks, NEW j \in Kept(task'[y])
        PROVE  Secured(y, j)'
    <3>1. CASE y = x /\ j = k
      <4>1. slot'[Process(y)][j] = lease'[j] /\ \E n \in Nat : lease'[j] = <<y, n>>
          BY Zenon, <1>2, <1>4, <3>1 DEF p, token
      <4>2. [stream |-> j, token |-> lease'[j]] \notin late'
          BY Zenon, <1>4, <1>10, <3>1
      <4> QED
          BY Zenon, <4>1, <4>2 DEF Secured, Process
    <3>2. CASE ~(y = x /\ j = k)
      <4>1. j \in Kept(task[y])
        <5>1. CASE y = x
            BY Zenon, <1>1, <1>7, <3>2, <5>1 DEF Kept
        <5>2. CASE y # x
            BY Zenon, <1>6, <5>2
        <5> QED
            BY Zenon, <5>1, <5>2
      <4>2. Secured(y, j) /\ j \in Streams
          BY Zenon, <1>9, <4>1 DEF LockInv, LeaseIsItsHolders, Kept
      <4>3. j # k
        <5>1. ASSUME y # x PROVE lease[j] # token /\ lease[j] # NoToken
            BY Zenon, <4>1, <5>1, SecuredStays DEF token
        <5> QED
            BY Zenon, <1>4, <3>2, <5>1
      <4>4. slot'[Process(y)][j] = lease'[j] /\ lease'[j] = lease[j]
          BY Zenon, <1>4, <1>9, <4>2, <4>3 DEF Secured
      <4> QED
          BY Zenon, <1>4, <4>2, <4>4 DEF Secured, Process
    <3> QED
        BY Zenon, <3>1, <3>2
  <2> QED
      BY Zenon, <2>1 DEF LeaseIsItsHolders
<1>13. \A y \in Tasks : task'[y].rounds = task[y].rounds
    BY Zenon, <1>1, <1>5, <1>7 DEF Alike
<1>14. TokensAreOld'
  <2>1. ASSUME NEW q \in Processes, NEW j \in Streams
        PROVE  \/ slot'[q][j] \in {slot[q][j], NoToken}
               \/ \E z \in Tasks : Process(z) = q /\ slot'[q][j] = <<z, task[z].rounds>>
    <3>1. CASE q = p /\ j = k
        BY Zenon, <1>4, <3>1 DEF p, token
    <3> QED
        BY Zenon, <1>4, <3>1
  <2> QED
      BY Zenon, <1>4, <1>13, <2>1, TokensStay
<1>15. NothingSpent'
  <2>1. ASSUME NEW y \in Tasks, task'[y].at \in {"Gate", "Lease"}, NEW n \in 1..Len(task'[y].wants)
        PROVE  /\ task[y].at \in {"Gate", "Lease"}
               /\ \E m \in 1..Len(task[y].wants) : task'[y].wants[n] = task[y].wants[m]
               /\ slot'[Process(y)][task'[y].wants[n]] = <<y, task[y].rounds>> =>
                      slot[Process(y)][task'[y].wants[n]] = <<y, task[y].rounds>>
    <3>1. PICK w : w = task'[y].wants
        OBVIOUS
    <3>2. w[n] \in Streams
      <4>1. w \in Seq(Streams)
          BY Zenon, <1>2, <3>1 DEF Types, TaskRecord
      <4> QED
          BY <3>1, <4>1
    <3>3. CASE y = x
      <4>1. w = rest /\ w[n] # k /\ \E m \in 1..Len(task[y].wants) : w[n] = task[y].wants[m]
          BY Zenon, <1>1, <1>3, <1>7, <3>1, <3>3
      <4>2. slot'[Process(y)][w[n]] = slot[Process(y)][w[n]]
          BY Zenon, <1>4, <1>9, <3>2, <4>1
      <4> QED
          BY Zenon, <1>2, <3>1, <3>3, <4>1, <4>2
    <3>4. CASE y # x
      <4>1. w = task[y].wants /\ task[y].at \in {"Gate", "Lease"}
          BY Zenon, <1>5, <2>1, <3>1, <3>4 DEF Alike
      <4>2. <<y, task[y].rounds>> # token
          BY Zenon, <3>4, TokensDiffer DEF token
      <4>3. \/ slot'[Process(y)][w[n]] = slot[Process(y)][w[n]]
            \/ slot'[Process(y)][w[n]] = token
          BY Zenon, <1>4, <1>9, <3>2
      <4> QED
          BY Zenon, <3>1, <4>1, <4>2, <4>3
    <3> QED
        BY Zenon, <3>3, <3>4
  <2>2. \A y \in Tasks : task'[y].at \in {"Gate", "Lease"} =>
            /\ task'[y].rounds = task[y].rounds /\ task[y].at \in {"Gate", "Lease"}
            /\ \A n \in 1..Len(task'[y].wants) :
                   /\ \E m \in 1..Len(task[y].wants) : task'[y].wants[n] = task[y].wants[m]
                   /\ slot'[Process(y)][task'[y].wants[n]] = <<y, task[y].rounds>> =>
                          slot[Process(y)][task'[y].wants[n]] = <<y, task[y].rounds>>
    <3>1. ASSUME NEW y \in Tasks, task'[y].at \in {"Gate", "Lease"}
          PROVE  task[y].at \in {"Gate", "Lease"}
      <4>1. CASE y = x
          BY Zenon, <1>2, <4>1
      <4>2. CASE y # x
          BY Zenon, <1>5, <3>1, <4>2 DEF Alike
      <4> QED
          BY Zenon, <4>1, <4>2
    <3> QED
        BY Zenon, <1>13, <2>1, <3>1
  <2> QED
      BY Zenon, <1>2, <1>4, <2>2, NothingSpends
<1> QED
    BY Zenon, <1>11, <1>12, <1>14, <1>15 DEF LockInv

\* A load that fails keeps the invariant of the locks.
LEMMA LoadFailsKeeps ==
    ASSUME Types, LockInv, NEW x \in Tasks, LoadFails(x)
    PROVE  LockInv'
<1> DEFINE t == Idle(task[x].rounds)
           p == Process(x)
           k == Wanted(x)
<1>1. /\ Types' /\ Becomes(x, t) /\ p \in Processes
      /\ t.holds = {} /\ t.at = "Idle" /\ t.rounds = task[x].rounds
    BY Zenon, LoadFailsTypes, IdleOK, TaskIs
<1> HIDE DEF t
<1>2. t.at # "Lease" /\ t.at # "Gate" /\ t.at \notin {"Gate", "Lease"}
    BY <1>1
<1>3. CASE UNCHANGED locks
    BY Zenon, <1>1, <1>2, <1>3, MoveKeeps
<1>4. CASE /\ task[x].at = "Lease" /\ AcquireError(p, k, mint_token(x))
           /\ \A y \in Tasks \ {x} : Process(y) = p /\ Owns(task[y], k) => k \in task'[y].robbed
  <2>1. k \in Streams /\ \A y \in Tasks : Process(y) \in Processes /\ task[y].holds \subseteq Streams
      BY <1>4, TaskIs
  <2>2. \A q \in Processes, j \in Streams : q # p \/ j # k => gate'[q][j] = gate[q][j]
      BY ZenonT(60), <1>4, <2>1 DEF AcquireError, Types
  <2>3. /\ lease[k] \in {NoToken, <<x, task[x].rounds>>} \/ lease'[k] = lease[k]
        /\ \A j \in Streams \ {k} : lease'[j] = lease[j]
        /\ UNCHANGED <<slot, late>>
      BY Zenon, <1>4, <2>1 DEF AcquireError, Acquirable, mint_token, Types
  <2>4. task'[x] = t /\ \A y \in Tasks \ {x} : Alike(task'[y], task[y])
      BY Zenon, <1>1 DEF Becomes
  <2>5. \A y \in Tasks \ {x} : /\ Kept(task'[y]) \subseteq Kept(task[y])
                               /\ \A j : Owns(task'[y], j) =>
                                    Owns(task[y], j) /\ (j \in task[y].robbed => j \in task'[y].robbed)
      BY Zenon, <2>4, AlikeOwns
  <2>6. Kept(t) = {} /\ \A j : ~Owns(t, j)
      BY Zenon, <1>1, <1>2 DEF Kept, Owns
  <2> HIDE DEF k, p
  <2>7. GateIsLocked' /\ OneOwner'
    <3>1. ASSUME NEW y \in Tasks, NEW j \in Streams, Owns(task'[y], j)
          PROVE  /\ Owns(task[y], j) /\ (j \in task[y].robbed => j \in task'[y].robbed)
                 /\ gate[Process(y)][j] => gate'[Process(y)][j] \/ j \in task'[y].robbed
      <4>1. /\ y # x /\ Owns(task[y], j) /\ (j \in task[y].robbed => j \in task'[y].robbed)
          BY Zenon, <2>4, <2>5, <2>6, <3>1
      <4>2. CASE Process(y) = p /\ j = k
          BY Zenon, <1>4, <4>1, <4>2
      <4>3. CASE Process(y) # p \/ j # k
          BY Zenon, <2>1, <2>2, <4>1, <4>3
      <4> QED
          BY Zenon, <4>1, <4>2, <4>3
    <3> QED
        BY Zenon, <3>1, GatesStay
  <2>8. LeaseIsItsHolders'
    <3>1. ASSUME NEW y \in Tasks, NEW j \in Kept(task'[y])
          PROVE  /\ j \in Kept(task[y]) /\ lease'[j] = lease[j]
      <4>1. y # x /\ j \in Kept(task[y])
          BY Zenon, <2>4, <2>5, <2>6
      <4>2. j \in Streams
          BY Zenon, <2>1, <4>1 DEF Kept
      <4>3. lease[j] # <<x, task[x].rounds>> /\ lease[j] # NoToken
          BY Zenon, <4>1, SecuredStays
      <4> QED
          BY Zenon, <2>3, <4>1, <4>2, <4>3
    <3> QED
        BY Zenon, <2>3, <3>1, LeasesStay
  <2>9. \A y \in Tasks : task'[y].rounds = task[y].rounds
      BY Zenon, <1>1, <2>4 DEF Alike
  <2>10. TokensAreOld'
      BY Zenon, <2>3, <2>9, TokensStay
  <2>11. NothingSpent'
    <3>1. ASSUME NEW y \in Tasks, task'[y].at \in {"Gate", "Lease"}
          PROVE  task[y].at \in {"Gate", "Lease"} /\ task'[y].wants = task[y].wants
        BY Zenon, <1>2, <2>4, <3>1 DEF Alike
    <3> QED
        BY Zenon, <1>1, <2>3, <2>9, <3>1, NothingSpends
  <2> QED
      BY Zenon, <2>7, <2>8, <2>10, <2>11 DEF LockInv
<1> QED
    BY Zenon, <1>3, <1>4, LoadFailsTypes

\* Letting go: the row goes now or later, of the task or of one that is robbed.
LEMMA UnlockKeeps ==
    ASSUME Types, LockInv, NEW x \in Tasks, NEW k \in Streams, Unlock(x, k) \/ UnlockFails(x, k)
    PROVE  LockInv'
<1> DEFINE t == Unlocked(x, k)
           p == Process(x)
<1>1. /\ Types' /\ Becomes(x, t)
      /\ \A y \in Tasks \ {x} : Process(y) = p /\ Owns(task[y], k) => k \in task'[y].robbed
      /\ UNCHANGED gate
      /\ slot' = [slot EXCEPT ![p][k] = NoToken]
      /\ lease' = lease \/ lease' = Released(k, slot[p][k])
      /\ late' \subseteq late \cup {[stream |-> k, token |-> slot[p][k]]}
    BY Zenon, UnlockTypes
<1>2. /\ t.at = "Open" /\ t.rounds = task[x].rounds
      /\ t.holds = task[x].holds \ {k} /\ t.overrun = task[x].overrun \ {k}
      /\ t.robbed = task[x].robbed \ {k}
    BY Zenon, UnlockedOK
<1> HIDE DEF t
<1>3. t.at \notin {"Gate", "Lease"} /\ t.at # "Lease"
    BY <1>2
<1>4. p \in Processes /\ \A y \in Tasks : Process(y) \in Processes /\ task[y].holds \subseteq Streams
    BY Zenon, TaskIs
<1>5. task'[x] = t /\ \A y \in Tasks \ {x} : Alike(task'[y], task[y])
    BY Zenon, <1>1 DEF Becomes
<1>6. \A y \in Tasks \ {x} : /\ Kept(task'[y]) \subseteq Kept(task[y])
                             /\ \A j : Owns(task'[y], j) =>
                                    Owns(task[y], j) /\ (j \in task[y].robbed => j \in task'[y].robbed)
    BY Zenon, <1>5, AlikeOwns
<1>7. /\ \A j : Owns(t, j) => j # k /\ Owns(task[x], j) /\ (j \in task[x].robbed => j \in t.robbed)
      /\ \A j \in Kept(t) : j # k /\ j \in Kept(task[x])
    BY Zenon, <1>2, <1>3 DEF Owns, Kept
<1>8. \A q \in Processes, j \in Streams :
          /\ q # p \/ j # k => slot'[q][j] = slot[q][j]
          /\ slot'[q][j] \in {slot[q][j], NoToken}
    BY SMTT(60), <1>1, <1>4 DEF Types
<1>9. /\ lease[k] = slot[p][k] \/ lease'[k] = lease[k]
      /\ \A j \in Streams \ {k} : lease'[j] = lease[j]
    BY ZenonT(60), <1>1 DEF Released, Types
<1> HIDE DEF p
<1>10. GateIsLocked' /\ OneOwner'
  <2>1. ASSUME NEW y \in Tasks, NEW j \in Streams, Owns(task'[y], j)
        PROVE  Owns(task[y], j) /\ (j \in task[y].robbed => j \in task'[y].robbed)
      BY Zenon, <1>5, <1>6, <1>7, <2>1
  <2> QED
      BY Zenon, <1>1, <2>1, GatesStay
<1>11. LeaseIsItsHolders'
  <2>1. ASSUME NEW y \in Tasks, NEW j \in Kept(task'[y])
        PROVE  /\ j \in Kept(task[y])
               /\ slot'[Process(y)][j] = slot[Process(y)][j] /\ lease'[j] = lease[j]
               /\ [stream |-> j, token |-> lease[j]] \in late' =>
                      [stream |-> j, token |-> lease[j]] \in late
    <3>1. j \in Kept(task[y]) /\ ~(y = x /\ j = k)
        BY Zenon, <1>5, <1>6, <1>7
    <3>2. j \in Streams /\ j \in task[y].holds /\ j \notin task'[y].robbed
        BY Zenon, <1>4, <3>1 DEF Kept
    <3>3. ~(Process(y) = p /\ j = k)
        BY Zenon, <1>1, <3>1, <3>2 DEF Owns
    <3>4. j = k => lease[k] # slot[p][k]
      <4>1. PICK m \in Nat : lease[j] = <<y, m>>
          BY Zenon, <3>1 DEF LockInv, LeaseIsItsHolders, Secured
      <4>2. \A q \in Processes : slot[q][j] = <<y, m>> => Process(y) = q
          BY Zenon, <3>2 DEF LockInv, TokensAreOld
      <4> QED
          BY Zenon, <1>4, <3>3, <4>1, <4>2
    <3>5. slot'[Process(y)][j] = slot[Process(y)][j] /\ lease'[j] = lease[j]
        BY Zenon, <1>4, <1>8, <1>9, <3>2, <3>3, <3>4
    <3>6. [stream |-> j, token |-> lease[j]] # [stream |-> k, token |-> slot[p][k]]
        BY SMTT(60), <3>4
    <3> QED
        BY Zenon, <1>1, <3>1, <3>5, <3>6
  <2> QED
      BY Zenon, <2>1, LeasesStay
<1>12. \A y \in Tasks : task'[y].rounds = task[y].rounds
    BY Zenon, <1>2, <1>5 DEF Alike
<1>13. \A r \in late' : \/ r \in late
                        \/ r.stream \in Streams /\ \E q \in Processes : r.token = slot[q][r.stream]
  <2>1. ASSUME NEW r, r = [stream |-> k, token |-> slot[p][k]]
        PROVE  r.stream = k /\ r.token = slot[p][k]
      BY <2>1
  <2> QED
      BY Zenon, <1>1, <1>4, <2>1
<1>14. TokensAreOld'
    BY Zenon, <1>8, <1>12, <1>13, TokensStay
<1>15. NothingSpent'
  <2>1. ASSUME NEW y \in Tasks, task'[y].at \in {"Gate", "Lease"}
        PROVE  /\ task[y].at \in {"Gate", "Lease"} /\ task'[y].wants = task[y].wants
      BY Zenon, <1>3, <1>5, <2>1 DEF Alike
  <2>2. ASSUME NEW y \in Tasks, NEW j \in Streams, NEW n,
               slot'[Process(y)][j] = <<y, n>>
        PROVE  slot[Process(y)][j] = <<y, n>>
      BY ZenonT(60), <1>4, <1>8, <2>2, TokensDiffer
  <2>3. ASSUME NEW y \in Tasks, task'[y].at \in {"Gate", "Lease"}
        PROVE  \A n \in 1..Len(task'[y].wants) : task'[y].wants[n] \in Streams
    <3>1. task'[y].wants \in Seq(Streams)
        BY Zenon, <1>1 DEF Types, TaskRecord
    <3> QED
        BY <3>1
  <2> QED
      BY ZenonT(60), <1>1, <1>12, <1>13, <2>1, <2>2, <2>3, NothingSpends
<1> QED
    BY Zenon, <1>10, <1>11, <1>14, <1>15 DEF LockInv

\* The gate opens: who has passed it is robbed.
LEMMA OpenKeeps ==
    ASSUME Types, LockInv, NEW x \in Tasks, Open(x)
    PROVE  LockInv'
<1> DEFINE p == Process(x)
           k == Wanted(x)
<1>1. /\ Types' /\ k \in Streams /\ gate' = [gate EXCEPT ![p][k] = FALSE]
      /\ \A y \in Tasks \ {x} : Process(y) = p /\ Owns(task[y], k) => k \in task'[y].robbed
      /\ UNCHANGED <<slot, lease, late>>
    BY Zenon, OpenTypes
<1>2. PICK t : /\ Becomes(x, t) /\ t.at \in {"Idle", "Unlock"} /\ t.rounds = task[x].rounds
               /\ \/ t.holds = {}
                  \/ /\ t.holds = task[x].holds /\ t.overrun = task[x].overrun
                     /\ t.robbed = task[x].robbed /\ k \notin t.holds
    BY Zenon, OpenTypes
<1>3. t.at \notin {"Gate", "Lease"} /\ t.at # "Lease"
    BY <1>2
<1>4. p \in Processes /\ \A y \in Tasks : Process(y) \in Processes
    BY Zenon, TaskIs
<1>5. task'[x] = t /\ \A y \in Tasks \ {x} : Alike(task'[y], task[y])
    BY Zenon, <1>2 DEF Becomes
<1>6. \A y \in Tasks \ {x} : /\ Kept(task'[y]) \subseteq Kept(task[y])
                             /\ \A j : Owns(task'[y], j) =>
                                    Owns(task[y], j) /\ (j \in task[y].robbed => j \in task'[y].robbed)
    BY Zenon, <1>5, AlikeOwns
<1>7. /\ \A j : Owns(t, j) => j # k /\ Owns(task[x], j) /\ (j \in task[x].robbed => j \in t.robbed)
      /\ Kept(t) \subseteq Kept(task[x])
    BY Zenon, <1>2, <1>3 DEF Owns, Kept
<1>8. \A q \in Processes, j \in Streams : q # p \/ j # k => gate'[q][j] = gate[q][j]
    BY ZenonT(60), <1>1, <1>4 DEF Types
<1> HIDE DEF p, k
<1>9. GateIsLocked' /\ OneOwner'
  <2>1. ASSUME NEW y \in Tasks, NEW j \in Streams, Owns(task'[y], j)
        PROVE  /\ Owns(task[y], j) /\ (j \in task[y].robbed => j \in task'[y].robbed)
               /\ gate[Process(y)][j] => gate'[Process(y)][j] \/ j \in task'[y].robbed
    <3>1. /\ Owns(task[y], j) /\ (j \in task[y].robbed => j \in task'[y].robbed)
          /\ ~(y = x /\ j = k)
        BY Zenon, <1>5, <1>6, <1>7, <2>1
    <3>2. CASE Process(y) = p /\ j = k
        BY Zenon, <1>1, <3>1, <3>2
    <3>3. CASE Process(y) # p \/ j # k
        BY Zenon, <1>4, <1>8, <3>1, <3>3
    <3> QED
        BY Zenon, <3>1, <3>2, <3>3
  <2> QED
      BY Zenon, <2>1, GatesStay
<1>10. ASSUME NEW y \in Tasks
       PROVE  /\ task'[y].rounds \in {task[y].rounds, task[y].rounds + 1}
              /\ Kept(task'[y]) \subseteq Kept(task[y])
              /\ task'[y].at \in {"Gate", "Lease"} =>
                     \/ task'[y].rounds = task[y].rounds + 1
                     \/ /\ task'[y].rounds = task[y].rounds /\ task[y].at \in {"Gate", "Lease"}
                        /\ task'[y].wants = task[y].wants
  <2>1. CASE y = x
      BY Zenon, <1>2, <1>3, <1>5, <1>7, <2>1
  <2>2. CASE y # x
      BY Zenon, <1>5, <1>6, <2>2 DEF Alike
  <2> QED
      BY Zenon, <2>1, <2>2
<1>11. LeaseIsItsHolders' /\ TokensAreOld' /\ NothingSpent'
    BY Zenon, <1>1, <1>10, QuietKeeps
<1> QED
    BY Zenon, <1>9, <1>11 DEF LockInv

\* A lease expires, and its holder is marked.
LEMMA OverrunKeeps ==
    ASSUME Types, LockInv, NEW k \in Streams, Overrun(k)
    PROVE  LockInv'
<1>1. \A x \in Tasks : /\ task'[x].at = task[x].at /\ task'[x].wants = task[x].wants
                       /\ task'[x].holds = task[x].holds
                       /\ task'[x].robbed = task[x].robbed
                       /\ task'[x].rounds = task[x].rounds
                       /\ task'[x].overrun =
                            IF k \in task[x].holds /\ slot[Process(x)][k] = lease[k]
                            THEN task[x].overrun \cup {k} ELSE task[x].overrun
    BY ZenonT(60), OverrunTypes
<1>2. /\ UNCHANGED <<gate, slot, late>> /\ \A j \in Streams \ {k} : lease'[j] = lease[j]
      /\ Types'
    BY Zenon, OverrunTypes DEF Overrun, Expire, Types
<1>3. \A x \in Tasks, j \in Streams : Owns(task'[x], j) => Owns(task[x], j)
    BY Zenon, <1>1 DEF Owns
<1>4. GateIsLocked' /\ OneOwner'
    BY Zenon, <1>1, <1>2, <1>3, GatesStay
<1>5. LeaseIsItsHolders'
  <2>1. ASSUME NEW y \in Tasks, NEW j \in Kept(task'[y])
        PROVE  j \in Kept(task[y]) /\ lease'[j] = lease[j]
    <3>1. j \in Kept(task[y]) /\ j \in task[y].holds /\ j \notin task'[y].overrun
        BY ZenonT(60), <1>1 DEF Kept
    <3>2. slot[Process(y)][j] = lease[j] /\ j \in Streams
        BY Zenon, <3>1, TaskIs DEF LockInv, LeaseIsItsHolders, Secured
    <3>3. j # k
        BY ZenonT(60), <1>1, <3>1, <3>2
    <3> QED
        BY Zenon, <1>2, <3>1, <3>2, <3>3
  <2> QED
      BY Zenon, <1>2, <2>1, LeasesStay
<1>6. TokensAreOld'
    BY Zenon, <1>1, <1>2, TokensStay
<1>7. NothingSpent'
    BY Zenon, <1>1, <1>2, NothingSpends
<1> QED
    BY Zenon, <1>4, <1>5, <1>6, <1>7 DEF LockInv

\* A late release names a token under which nobody holds the stream.
LEMMA LateKeeps ==
    ASSUME Types, LockInv, Late
    PROVE  LockInv'
<1>1. PICK r \in late : LateRelease(r)
    BY DEF Late
<1>2. r.stream \in Streams /\ r \in [stream : Streams, token : Tokens] /\ Types'
    BY Zenon, LateTypes DEF Types
<1>3. /\ UNCHANGED <<gate, slot, task>> /\ late' \subseteq late
      /\ \A j \in Streams : lease'[j] = lease[j] \/ (j = r.stream /\ lease[j] = r.token)
    BY Zenon, <1>1, <1>2 DEF Late, LateRelease, Released, Types
<1>4. GateIsLocked' /\ OneOwner'
    BY Zenon, <1>3, GatesStay
<1>5. LeaseIsItsHolders'
  <2>1. ASSUME NEW y \in Tasks, NEW j \in Kept(task'[y])
        PROVE  j \in Kept(task[y]) /\ lease'[j] = lease[j]
    <3>1. j \in Kept(task[y]) /\ j \in Streams
        BY Zenon, <1>3, TaskIs DEF Kept
    <3>2. [stream |-> j, token |-> lease[j]] \notin late
        BY Zenon, <3>1 DEF LockInv, LeaseIsItsHolders, Secured
    <3>3. ~(j = r.stream /\ lease[j] = r.token)
      <4>1. r = [stream |-> r.stream, token |-> r.token]
          BY <1>2
      <4> QED
          BY Zenon, <1>1, <3>2, <4>1
    <3> QED
        BY Zenon, <1>3, <3>1, <3>3
  <2> QED
      BY Zenon, <1>3, <2>1, LeasesStay
<1>6. TokensAreOld'
    BY Zenon, <1>3, TokensStay
<1>7. NothingSpent'
    BY Zenon, <1>2, <1>3, NothingSpends
<1> QED
    BY Zenon, <1>4, <1>5, <1>6, <1>7 DEF LockInv

\* A crash opens the gates of the process, and its tasks hold nothing.
LEMMA CrashKeeps ==
    ASSUME Types, LockInv, NEW p \in Processes, Crash(p)
    PROVE  LockInv'
<1>1. \A x \in Tasks : task'[x] = IF Process(x) = p THEN Idle(task[x].rounds) ELSE task[x]
    BY Zenon, CrashTypes
<1>2. /\ UNCHANGED <<lease, late>> /\ Types'
      /\ \A q \in Processes \ {p} : gate'[q] = gate[q] /\ slot'[q] = slot[q]
      /\ \A q \in Processes, j \in Streams : slot'[q][j] \in {slot[q][j], NoToken}
    BY Zenon, CrashTypes DEF Crash, LockCrash, Types
<1>3. ASSUME NEW x \in Tasks
      PROVE  /\ Process(x) \in Processes
             /\ Process(x) # p => task'[x] = task[x]
             /\ Process(x) = p => /\ task'[x].holds = {} /\ task'[x].at = "Idle"
                                  /\ task'[x].rounds = task[x].rounds
  <2>1. Process(x) \in Processes /\ task[x].rounds \in Nat
      BY Zenon, TaskIs
  <2>2. /\ Idle(task[x].rounds).holds = {} /\ Idle(task[x].rounds).at = "Idle"
        /\ Idle(task[x].rounds).rounds = task[x].rounds
      BY Zenon, <2>1, IdleOK
  <2> QED
      BY <1>1, <2>1, <2>2
<1>4. ASSUME NEW x \in Tasks, task'[x].at \in {"Gate", "Lease"}
      PROVE  Process(x) # p
    BY <1>3, <1>4
<1>5. \A x \in Tasks, j \in Streams : Owns(task'[x], j) => Process(x) # p
    BY Zenon, <1>3, <1>4 DEF Owns
<1>6. GateIsLocked' /\ OneOwner'
    BY Zenon, <1>2, <1>3, <1>5, GatesStay
<1>7. LeaseIsItsHolders'
  <2>1. \A x \in Tasks : \A j \in Kept(task'[x]) : Process(x) # p
      BY Zenon, <1>3 DEF Kept
  <2> QED
      BY Zenon, <1>2, <1>3, <2>1, LeasesStay
<1>8. \A x \in Tasks : task'[x].rounds = task[x].rounds
    BY Zenon, <1>3
<1>9. TokensAreOld'
    BY Zenon, <1>2, <1>8, TokensStay
<1>10. NothingSpent'
  <2>1. ASSUME NEW x \in Tasks, task'[x].at \in {"Gate", "Lease"}
        PROVE  task'[x] = task[x] /\ slot'[Process(x)] = slot[Process(x)]
      BY Zenon, <1>2, <1>3, <1>4, <2>1
  <2> QED
      BY Zenon, <1>2, <1>8, <2>1, NothingSpends
<1> QED
    BY Zenon, <1>6, <1>7, <1>9, <1>10 DEF LockInv

\* Nothing happens to the locks and the tasks.
LEMMA LockStutters ==
    ASSUME Types, LockInv, UNCHANGED <<gate, slot, lease, late, task>>
    PROVE  LockInv'
<1>1. GateIsLocked' /\ OneOwner'
    BY Zenon, GatesStay
<1>2. LeaseIsItsHolders'
    BY Zenon, LeasesStay
<1>3. TokensAreOld'
    BY Zenon, TokensStay
<1>4. NothingSpent'
    BY ZenonT(60) DEF LockInv, NothingSpent, Spent, mint_token
<1> QED
    BY Zenon, <1>1, <1>2, <1>3, <1>4 DEF LockInv

\* Every step keeps the invariant of the locks.
LEMMA LockNext ==
    ASSUME Types, LockInv, Next
    PROVE  LockInv'
<1>1. ASSUME NEW x \in Tasks,
             \/ \E k \in Streams : GetSnapshot(x, k)
             \/ \E streams \in Loads[x] : GetStreams(x, streams)
      PROVE  LockInv'
  <2>1. Types' /\ UNCHANGED locks
      BY Zenon, <1>1, GetTypes
  <2>2. PICK t : /\ Becomes(x, t) /\ t.at = "Gate" /\ t.holds = {}
                 /\ t.rounds = task[x].rounds + 1
      BY Zenon, <1>1, GetTypes
  <2>3. t.at # "Lease"
      BY <2>2
  <2> QED
      BY Zenon, <2>1, <2>2, <2>3, MoveKeeps
<1>2. ASSUME NEW x \in Tasks, NEW k \in Streams, Create(x, k)
      PROVE  LockInv'
  <2>1. Types' /\ UNCHANGED locks
      BY Zenon, <1>2, CreateTypes
  <2>2. PICK t : /\ Becomes(x, t) /\ t.at = "Work" /\ t.holds = {}
                 /\ t.rounds = task[x].rounds + 1
      BY Zenon, <1>2, CreateTypes
  <2>3. t.at # "Lease" /\ t.at # "Gate"
      BY <2>2
  <2> QED
      BY Zenon, <2>1, <2>2, <2>3, MoveKeeps
<1>3. ASSUME NEW x \in Tasks, Read(x)
      PROVE  LockInv'
  <2>1. UNCHANGED locks /\ Types'
      BY Zenon, <1>3, ReadMoves DEF Read
  <2>2. PICK t : ReadResult(x, t)
      BY <1>3, ReadMoves
  <2>3. /\ Becomes(x, t) /\ t.rounds \in {task[x].rounds, task[x].rounds + 1}
        /\ t.holds = task[x].holds /\ t.overrun = task[x].overrun /\ t.robbed = task[x].robbed
        /\ (t.at = "Gate" /\ t.rounds = task[x].rounds + 1) \/ t.at = "Work"
      BY Zenon, <2>2 DEF ReadResult
  <2>4. t.at # "Lease" /\ (t.at = "Gate" => t.rounds = task[x].rounds + 1)
      BY <2>3
  <2> QED
      BY Zenon, <2>1, <2>3, <2>4, MoveKeeps
<1>4. ASSUME NEW x \in Tasks, Commit(x) \/ Abort(x)
      PROVE  LockInv'
  <2>1. UNCHANGED locks /\ Types'
      BY Zenon, <1>4, EndsWork, CommitTypes, AbortTypes
  <2>2. PICK streams \in SUBSET Streams : Becomes(x, Freed(x, streams))
      BY Zenon, <1>4, EndsWork
  <2>3. PICK t : t = Freed(x, streams)
      OBVIOUS
  <2>4. /\ \/ t.holds = {}
           \/ t.holds = task[x].holds /\ t.overrun = task[x].overrun /\ t.robbed = task[x].robbed
        /\ t.rounds = task[x].rounds /\ t.at \in {"Unlock", "Idle"} /\ Becomes(x, t)
      BY Zenon, <2>2, <2>3, FreedOK
  <2>5. t.at # "Lease" /\ t.at # "Gate"
      BY <2>4
  <2> QED
      BY Zenon, <2>1, <2>4, <2>5, MoveKeeps
<1>5. ASSUME NEW x \in Tasks, Step(x) \/ LoadFails(x) \/ Abort(x)
      PROVE  LockInv'
    BY Zenon, <1>3, <1>4, <1>5, GateKeeps, AcquireKeeps, LoadFailsKeeps, UnlockKeeps, OpenKeeps
    DEF Step
<1>6. ASSUME NEW x \in Tasks, NEW k \in Streams, UnlockFails(x, k)
      PROVE  LockInv'
    BY Zenon, <1>6, UnlockKeeps
<1>7. ASSUME NEW k \in Streams, CausalCommit(k)
      PROVE  LockInv'
    BY Zenon, <1>7, LockStutters DEF CausalCommit, locks
<1> QED
    BY Zenon, <1>1, <1>2, <1>5, <1>6, <1>7, OverrunKeeps, LateKeeps, CrashKeeps DEF Next

-----------------------------------------------------------------------------
(* Events.                                                                 *)

\* Appending the number of events to a stream where each event is such a number.
LEMMA AppendBuilds ==
    ASSUME NEW s \in Seq(Nat), \A n \in 1..Len(s) : s[n] = n - 1
    PROVE  \A n \in 1..Len(Append(s, Len(s))) : Append(s, Len(s))[n] = n - 1
OBVIOUS

\* What the tasks have loaded stays sound when one task becomes another.
LEMMA TasksStaySound ==
    ASSUME EventInv, NEW x \in Tasks, NEW t, Becomes(x, t), Sound(t.cached),
           t.at = "Work" => \A k \in DOMAIN t.loaded : Sound(t.loaded[k])
    PROVE  /\ \A y \in Tasks : Sound(task'[y].cached)
           /\ \A y \in Tasks : task'[y].at = "Work" =>
                  \A k \in DOMAIN task'[y].loaded : Sound(task'[y].loaded[k])
<1>1. ASSUME NEW y \in Tasks \ {x}
      PROVE  /\ Sound(task'[y].cached)
             /\ task'[y].at = "Work" => \A k \in DOMAIN task'[y].loaded : Sound(task'[y].loaded[k])
  <2>1. /\ task'[y].at = task[y].at /\ task'[y].cached = task[y].cached
        /\ task'[y].loaded = task[y].loaded
      BY Zenon DEF Becomes, Alike
  <2>2. /\ Sound(task[y].cached)
        /\ task[y].at = "Work" => \A k \in DOMAIN task[y].loaded : Sound(task[y].loaded[k])
      BY Zenon DEF EventInv
  <2> QED
      BY Zenon, <2>1, <2>2
<1>2. task'[x] = t
    BY Zenon DEF Becomes
<1> QED
    BY Zenon, <1>1, <1>2

\* A task changes, and nothing of what its events and snapshots are made of.
LEMMA MoveKeepsEvents ==
    ASSUME EventInv, NEW x \in Tasks, NEW t, Becomes(x, t),
           UNCHANGED <<stream, snapshot>>, Sound(t.cached),
           t.at = "Work" => \A k \in DOMAIN t.loaded : Sound(t.loaded[k])
    PROVE  EventInv'
<1>1. EventsBuildOnTheLast' /\ \A k \in Streams : Sound(snapshot'[k])
    BY Zenon DEF EventInv, EventsBuildOnTheLast
<1> QED
    BY Zenon, <1>1, TasksStaySound DEF EventInv

\* No snapshot is a sound snapshot.
LEMMA NoSnapshotSound == Sound(NoSnapshot)
BY DEF Sound, NoSnapshot

\* A commit: the version matches, so the state is that of the events there are.
LEMMA CommitKeepsEvents ==
    ASSUME Types, EventInv, NEW x \in Tasks, Commit(x) \/ Abort(x)
    PROVE  EventInv'
<1> DEFINE D == DOMAIN task[x].loaded
<1>1. /\ task[x].at = "Work" /\ D \subseteq Streams
      /\ \E streams \in SUBSET Streams : Becomes(x, Freed(x, streams))
    BY Zenon, EndsWork, WorkIs
<1>2. PICK streams \in SUBSET Streams : Becomes(x, Freed(x, streams))
    BY Zenon, <1>1
<1>3. PICK t : t = Freed(x, streams)
    OBVIOUS
<1>4. Becomes(x, t) /\ Sound(t.cached) /\ t.at \in {"Unlock", "Idle"}
    BY Zenon, <1>2, <1>3, FreedOK, NoSnapshotSound
<1>5. t.at # "Work"
    BY <1>4
<1>6. CASE UNCHANGED <<stream, snapshot>>
    BY Zenon, <1>4, <1>5, <1>6, MoveKeepsEvents
<1>7. CASE VersionsMatch(x) /\ stream' = Appended(x) /\ snapshot' = Saved(x)
  <2>1. \A k \in D : /\ task[x].loaded[k].version = Len(stream[k])
                     /\ task[x].loaded[k].state = Len(stream[k])
      BY ZenonT(60), <1>1, <1>7 DEF VersionsMatch, EventInv, Sound
  <2>2. \A k \in Streams : stream[k] \in Seq(Nat) /\ \A n \in 1..Len(stream[k]) : stream[k][n] = n - 1
      BY ZenonT(60) DEF Types, EventInv, EventsBuildOnTheLast
  <2>3. \A k \in Streams : stream'[k] = IF k \in D
                                        THEN Append(stream[k], Len(stream[k])) ELSE stream[k]
      BY Zenon, <1>7, <2>1 DEF Appended
  <2>4. EventsBuildOnTheLast'
    <3>1. ASSUME NEW k \in Streams
          PROVE  \A n \in 1..Len(stream'[k]) : stream'[k][n] = n - 1
      <4>1. CASE k \in D
        <5>1. stream'[k] = Append(stream[k], Len(stream[k]))
            BY ZenonT(60), <2>3, <4>1
        <5>2. \A n \in 1..Len(Append(stream[k], Len(stream[k]))) :
                  Append(stream[k], Len(stream[k]))[n] = n - 1
            BY Zenon, <2>2, AppendBuilds
        <5> QED
            BY <5>1, <5>2
      <4>2. CASE k \notin D
          BY Zenon, <2>2, <2>3, <4>2
      <4> QED
          BY SMTT(60), <4>1, <4>2
    <3> QED
        BY <3>1 DEF EventsBuildOnTheLast
  <2>5. \A k \in Streams : Sound(snapshot'[k])
    <3>1. ASSUME NEW k \in Streams
          PROVE  Sound(snapshot'[k])
      <4>1. \/ snapshot'[k] = snapshot[k]
            \/ /\ k \in D
               /\ snapshot'[k] = [version |-> task[x].loaded[k].version + 1,
                                  state |-> task[x].loaded[k].state + 1,
                                  schema |-> release[Process(x)]]
          BY ZenonT(60), <1>7 DEF Saved
      <4>2. CASE snapshot'[k] = snapshot[k]
          BY Zenon, <4>2 DEF EventInv
      <4>3. CASE /\ k \in D
                 /\ snapshot'[k] = [version |-> task[x].loaded[k].version + 1,
                                    state |-> task[x].loaded[k].state + 1,
                                    schema |-> release[Process(x)]]
        <5>1. task[x].loaded[k].state = task[x].loaded[k].version
            BY Zenon, <2>1, <4>3
        <5>2. /\ snapshot'[k].state = task[x].loaded[k].state + 1
              /\ snapshot'[k].version = task[x].loaded[k].version + 1
            BY SMTT(60), <4>3
        <5> QED
            BY Zenon, <5>1, <5>2 DEF Sound
      <4> QED
          BY Zenon, <4>1, <4>2, <4>3
    <3> QED
        BY ZenonT(60), <3>1
  <2> QED
      BY Zenon, <1>4, <1>5, <2>4, <2>5, TasksStaySound DEF EventInv
<1>8. \/ UNCHANGED <<stream, snapshot>>
      \/ VersionsMatch(x) /\ stream' = Appended(x) /\ snapshot' = Saved(x)
    BY Zenon DEF Commit, Abort
<1> QED
    BY Zenon, <1>6, <1>7, <1>8

\* A read: an entity is hydrated from a snapshot that is sound.
LEMMA ReadKeepsEvents ==
    ASSUME Types, EventInv, NEW x \in Tasks, Read(x)
    PROVE  EventInv'
<1>1. PICK t : ReadResult(x, t)
    BY ReadMoves
<1>2. /\ Becomes(x, t) /\ t.holds = task[x].holds
      /\ t.cached \in {NoSnapshot, task[x].cached} /\ task[x].cached \in Records
      /\ task[x].holds \subseteq Streams
    BY Zenon, <1>1, TaskIs DEF ReadResult
<1>3. Sound(t.cached)
    BY Zenon, <1>2, NoSnapshotSound DEF EventInv
<1>4. ASSUME t.at = "Work"
      PROVE  /\ DOMAIN t.loaded = t.holds
             /\ \A k \in t.holds : \E record \in {task[x].cached, snapshot[k]} :
                    t.loaded[k] = Entity(x, k, record)
  <2>1. t.at # "Gate"
      BY <1>4
  <2> QED
      BY Zenon, <1>1, <2>1 DEF ReadResult
<1>5. ASSUME t.at = "Work", NEW k \in DOMAIN t.loaded
      PROVE  Sound(t.loaded[k])
  <2>1. k \in t.holds /\ k \in Streams
      BY Zenon, <1>2, <1>4, <1>5
  <2>2. PICK record \in {task[x].cached, snapshot[k]} : t.loaded[k] = Entity(x, k, record)
      BY Zenon, <1>4, <1>5, <2>1
  <2>3. record \in Records /\ Sound(record)
      BY Zenon, <1>2, <2>1 DEF Types, EventInv
  <2> QED
      BY ZenonT(60), <2>1, <2>2, <2>3, EntityOK
<1>6. UNCHANGED <<stream, snapshot>>
    BY Zenon DEF Read
<1> QED
    BY Zenon, <1>2, <1>3, <1>5, <1>6, MoveKeepsEvents

\* A created aggregate has no events, and the state of that.
LEMMA CreateKeepsEvents ==
    ASSUME Types, EventInv, NEW x \in Tasks, NEW k \in Streams, Create(x, k)
    PROVE  EventInv'
<1>1. /\ \E t : /\ Becomes(x, t) /\ t.cached = NoSnapshot
                /\ \A j \in DOMAIN t.loaded : t.loaded[j] = [version |-> 0, snapshot |-> 0, state |-> 0]
      /\ UNCHANGED <<stream, snapshot>>
    BY Zenon, CreateTypes
<1>2. PICK t : /\ Becomes(x, t) /\ t.cached = NoSnapshot
               /\ \A j \in DOMAIN t.loaded : t.loaded[j] = [version |-> 0, snapshot |-> 0, state |-> 0]
    BY Zenon, <1>1
<1>3. Sound([version |-> 0, snapshot |-> 0, state |-> 0])
    BY DEF Sound
<1> QED
    BY Zenon, <1>1, <1>2, <1>3, NoSnapshotSound, MoveKeepsEvents

\* A causal commit appends what was decided on the events there are.
LEMMA CausalKeepsEvents ==
    ASSUME Types, EventInv, NEW k \in Streams, CausalCommit(k)
    PROVE  EventInv'
<1>1. /\ stream'[k] = Append(stream[k], Len(stream[k])) /\ stream[k] \in Seq(Nat)
      /\ \A j \in Streams \ {k} : stream'[j] = stream[j]
      /\ UNCHANGED <<snapshot, task>>
    BY Zenon DEF CausalCommit, Types
<1>2. \A n \in 1..Len(stream'[k]) : stream'[k][n] = n - 1
  <2>1. \A n \in 1..Len(stream[k]) : stream[k][n] = n - 1
      BY DEF EventInv, EventsBuildOnTheLast
  <2> QED
      BY Zenon, <1>1, <2>1, AppendBuilds
<1>3. EventsBuildOnTheLast'
    BY ZenonT(60), <1>1, <1>2 DEF EventInv, EventsBuildOnTheLast
<1> QED
    BY Zenon, <1>1, <1>3 DEF EventInv

\* Every step keeps the invariant of the events.
LEMMA EventNext ==
    ASSUME Types, EventInv, Next
    PROVE  EventInv'
<1>1. ASSUME NEW x \in Tasks,
             \/ \E k \in Streams : GetSnapshot(x, k)
             \/ \E streams \in Loads[x] : GetStreams(x, streams)
      PROVE  EventInv'
  <2>1. UNCHANGED <<stream, snapshot>>
      BY Zenon, <1>1, GetTypes
  <2>2. PICK t : /\ Becomes(x, t) /\ t.at = "Gate"
                 /\ t.cached = NoSnapshot \/ \E k \in Streams : t.cached = snapshot[k]
      BY ZenonT(60), <1>1, GetTypes
  <2>3. t.at # "Work" /\ Sound(t.cached)
    <3>1. t.at # "Work"
        BY <2>2
    <3>2. Sound(t.cached)
        BY Zenon, <2>2, NoSnapshotSound DEF EventInv
    <3> QED
        BY <3>1, <3>2
  <2> QED
      BY Zenon, <2>1, <2>2, <2>3, MoveKeepsEvents
<1>2. ASSUME NEW x \in Tasks, Gate(x) \/ Acquire(x)
      PROVE  EventInv'
  <2>1. PICK t : Becomes(x, t) /\ t.at \in {"Lease", "Read", "Gate"} /\ t.cached = task[x].cached
    <3>1. CASE Gate(x)
        BY Zenon, <3>1, GateTypes
    <3>2. CASE Acquire(x)
        BY Zenon, <3>2, AcquireTypes
    <3> QED
        BY Zenon, <1>2, <3>1, <3>2
  <2>2. t.at # "Work"
      BY <2>1
  <2>3. UNCHANGED <<stream, snapshot>> /\ Sound(t.cached)
      BY Zenon, <1>2, <2>1 DEF Gate, Acquire, EventInv
  <2> QED
      BY Zenon, <2>1, <2>2, <2>3, MoveKeepsEvents
<1>3. ASSUME NEW x \in Tasks, LoadFails(x)
      PROVE  EventInv'
  <2>1. /\ Becomes(x, Idle(task[x].rounds)) /\ UNCHANGED <<stream, snapshot>>
        /\ task[x].rounds \in Nat
      BY Zenon, <1>3, LoadFailsTypes, TaskIs
  <2>2. Idle(task[x].rounds).cached = NoSnapshot /\ Idle(task[x].rounds).at # "Work"
      BY DEF Idle
  <2> QED
      BY Zenon, <2>1, <2>2, NoSnapshotSound, MoveKeepsEvents
<1>4. ASSUME NEW x \in Tasks, NEW k \in Streams, Unlock(x, k) \/ UnlockFails(x, k)
      PROVE  EventInv'
  <2> DEFINE t == Unlocked(x, k)
  <2>1. /\ Becomes(x, t) /\ UNCHANGED <<stream, snapshot>>
        /\ t.at = "Open" /\ t.cached = task[x].cached
      BY ZenonT(60), <1>4, UnlockTypes, UnlockedOK
  <2> HIDE DEF t
  <2>2. t.at # "Work"
      BY <2>1
  <2>3. Sound(t.cached)
      BY Zenon, <2>1 DEF EventInv
  <2> QED
      BY Zenon, <2>1, <2>2, <2>3, MoveKeepsEvents
<1>5. ASSUME NEW x \in Tasks, Open(x)
      PROVE  EventInv'
  <2>1. PICK t : /\ Becomes(x, t) /\ t.at \in {"Idle", "Unlock"}
                 /\ t.cached \in {NoSnapshot, task[x].cached}
      BY Zenon, <1>5, OpenTypes
  <2>2. t.at # "Work"
      BY <2>1
  <2>3. Sound(t.cached) /\ UNCHANGED <<stream, snapshot>>
      BY Zenon, <1>5, <2>1, NoSnapshotSound, OpenTypes DEF EventInv
  <2> QED
      BY Zenon, <2>1, <2>2, <2>3, MoveKeepsEvents
<1>6. ASSUME NEW k \in Streams, Overrun(k)
      PROVE  EventInv'
  <2>1. /\ UNCHANGED <<stream, snapshot>>
        /\ \A x \in Tasks : /\ task'[x].at = task[x].at
                            /\ task'[x].cached = task[x].cached
                            /\ task'[x].loaded = task[x].loaded
      BY <1>6, OverrunTypes DEF Overrun
  <2> QED
      BY Zenon, <2>1 DEF EventInv, EventsBuildOnTheLast
<1>7. ASSUME Late
      PROVE  EventInv'
    BY Zenon, <1>7 DEF Late, EventInv, EventsBuildOnTheLast
<1>8. ASSUME NEW p \in Processes, Crash(p)
      PROVE  EventInv'
  <2>1. \A n : Idle(n).cached = NoSnapshot /\ Idle(n).at = "Idle"
      BY Zenon DEF Idle
  <2>2. \A x \in Tasks : \/ task'[x] = task[x]
                         \/ task'[x].cached = NoSnapshot /\ task'[x].at = "Idle"
      BY Zenon, <1>8, <2>1, CrashTypes
  <2>3. UNCHANGED <<stream, snapshot>>
      BY Zenon, <1>8 DEF Crash
  <2>4. \A x \in Tasks : Sound(task'[x].cached)
      BY Zenon, <2>2, NoSnapshotSound DEF EventInv
  <2>5. \A x \in Tasks : task'[x].at = "Work" => task'[x] = task[x]
      BY Zenon, <2>2
  <2>6. EventsBuildOnTheLast' /\ \A k \in Streams : Sound(snapshot'[k])
      BY <2>3 DEF EventInv, EventsBuildOnTheLast
  <2> QED
      BY Zenon, <2>4, <2>5, <2>6 DEF EventInv
<1>9. ASSUME NEW x \in Tasks, Step(x)
      PROVE  EventInv'
    BY Zenon, <1>2, <1>4, <1>5, <1>9, ReadKeepsEvents, CommitKeepsEvents DEF Step
<1> QED
    BY ZenonT(60), <1>1, <1>3, <1>4, <1>6, <1>7, <1>8, <1>9, CommitKeepsEvents, CreateKeepsEvents,
                   CausalKeepsEvents DEF Next

-----------------------------------------------------------------------------
Inv == Types /\ LockInv /\ EventInv

\* The invariant holds at the start: nobody holds anything, and there is nothing.
LEMMA InvInit == Init => Inv
<1> SUFFICES ASSUME Init PROVE Inv
    OBVIOUS
<1>1. Types
    BY TypesInit
<1>2. \A x \in Tasks : /\ task[x].holds = {} /\ task[x].at = "Idle"
                       /\ task[x].cached = NoSnapshot
    BY Zenon DEF Init, Idle
<1>3. /\ late = {} /\ \A p \in Processes, k \in Streams : slot[p][k] = NoToken
    BY Zenon DEF Init, LockInit
<1>4. \A x \in Tasks : /\ task[x].at \notin {"Gate", "Lease"} /\ task[x].at # "Lease"
                       /\ task[x].at # "Work"
    BY <1>2
<1>5. LockInv
  <2>1. GateIsLocked /\ OneOwner
      BY Zenon, <1>2, <1>4 DEF GateIsLocked, OneOwner, Owns
  <2>2. LeaseIsItsHolders
      BY Zenon, <1>2 DEF LeaseIsItsHolders, Kept
  <2>3. TokensAreOld
      BY Zenon, <1>3, TokensDiffer DEF TokensAreOld
  <2>4. NothingSpent
      BY Zenon, <1>4 DEF NothingSpent
  <2> QED
      BY Zenon, <2>1, <2>2, <2>3, <2>4 DEF LockInv
<1>6. EventsBuildOnTheLast /\ \A k \in Streams : Sound(snapshot[k])
    BY NoSnapshotSound DEF Init, EventsBuildOnTheLast
<1>7. EventInv
    BY Zenon, <1>2, <1>4, <1>6, NoSnapshotSound DEF EventInv
<1> QED
    BY <1>1, <1>5, <1>7 DEF Inv

\* The invariant holds in every reachable state.
LEMMA Invariance == Spec => []Inv
<1>1. Inv /\ [Next]_vars => Inv'
  <2>1. Inv /\ Next => Inv'
      BY TypesNext, LockNext, EventNext DEF Inv
  <2>2. Inv /\ UNCHANGED vars => Inv'
    <3> SUFFICES ASSUME Inv, UNCHANGED vars PROVE Inv'
        OBVIOUS
    <3>1. UNCHANGED <<gate, slot, lease, late, release, stream, snapshot, task>>
        BY DEF vars, locks
    <3>2. Types'
        BY ZenonT(60), <3>1 DEF Inv, Types
    <3>3. LockInv'
        BY Zenon, <3>1, LockStutters DEF Inv
    <3>4. EventInv'
        BY Zenon, <3>1 DEF Inv, EventInv, EventsBuildOnTheLast
    <3> QED
        BY <3>2, <3>3, <3>4 DEF Inv
  <2> QED
      BY <2>1, <2>2
<1> QED
    BY <1>1, InvInit, PTL DEF Spec

\* Two tasks hold the lock of a stream at once only when one of them lost it: its
\* lease ran out and the other is of another process, or a task of its process
\* released the lock under it; of lease_lock, lease_unlock, commit_batch and the
\* releases that are carried out late.
THEOREM ExclusiveHolds == Spec => []Exclusive
<1>1. Inv => Exclusive
  <2> SUFFICES ASSUME Inv, NEW x \in Tasks, NEW y \in Tasks,
                      NEW k \in task[x].holds \cap task[y].holds, x # y,
                      k \notin task[x].robbed, k \notin task[y].robbed
               PROVE  /\ Process(x) # Process(y)
                      /\ k \in task[x].overrun \cup task[y].overrun
      BY ZenonT(60) DEF Exclusive
  <2>1. k \in Streams /\ Owns(task[x], k) /\ Owns(task[y], k)
      BY Zenon, TaskIs DEF Inv, Owns
  <2>2. Process(x) # Process(y)
      BY Zenon, <2>1 DEF Inv, LockInv, OneOwner
  <2>3. ASSUME k \notin task[x].overrun, k \notin task[y].overrun
        PROVE  FALSE
    <3>1. k \in Kept(task[x]) /\ k \in Kept(task[y])
        BY Zenon, <2>3 DEF Kept
    <3>2. (\E n \in Nat : lease[k] = <<x, n>>) /\ (\E n \in Nat : lease[k] = <<y, n>>)
        BY Zenon, <3>1 DEF Inv, LockInv, LeaseIsItsHolders, Secured
    <3> QED
        BY Zenon, <3>2, TokensDiffer
  <2> QED
      BY Zenon, <2>2, <2>3
<1> QED
    BY <1>1, Invariance, PTL

\* Every event was decided on the state the events before it make, whatever the
\* locks do and whichever snapshot was loaded; of load_from_store, the version
\* check of commit_sqlx_batch and save_snapshot_in_tx.
THEOREM EventsBuildOnTheLastHolds == Spec => []EventsBuildOnTheLast
<1>1. Inv => EventsBuildOnTheLast
    BY Zenon DEF Inv, EventInv
<1> QED
    BY <1>1, Invariance, PTL

-----------------------------------------------------------------------------
(* Nobody waits in a circle.                                               *)

OneRelease == \A p, q \in Processes : release[p] = release[q]

\* x waits, at the gate or for the lease, for a stream that y holds.
Awaits(x, y) == Waiting(x) /\ Wanted(x) \in task[y].holds

\* The safety that EveryLoadGetsItsLocks rests on: while all processes run the same
\* release, no tasks wait for each other in a circle, of any length; nor does a
\* task wait for a stream it holds itself, for the lock is not reentrant.
NoCircularWait ==
    OneRelease =>
        ~\E n \in Nat \ {0} : \E c \in [1..n -> Tasks] :
            \A i \in 1..n : Awaits(c[i], c[IF i = n THEN 1 ELSE i + 1])

Rising(s) == \A m, n \in 1..Len(s) : m < n => s[m] < s[n]

\* The streams of a load, with the lock or still without.
Covers(t) == t.holds \cup {t.wants[n] : n \in 1..Len(t.wants)}

\* A load takes its locks in rising order.
TaskOrdered(t) ==
    t.at \in {"Gate", "Lease"} => Rising(t.wants) /\ \A k \in t.holds : k < Head(t.wants)

\* A snapshot that was saved by some process, and is not ahead of its stream; the
\* snapshot a load has read before it has the lock is one of that stream.
Saves(r, releases) == r # NoSnapshot => \E p \in Processes : r.schema = releases[p]

SnapshotsFit(snapshots, releases, streams) ==
    \A k \in Streams : /\ Saves(snapshots[k], releases)
                       /\ snapshots[k] # NoSnapshot => snapshots[k].version <= Len(streams[k])

TaskFits(t, releases, streams) ==
    /\ Saves(t.cached, releases)
    /\ t.cached # NoSnapshot /\ t.at \in {"Gate", "Lease", "Read"} =>
           \A k \in Covers(t) : t.cached.version <= Len(streams[k])

OrderInv ==
    /\ SnapshotsFit(snapshot, release, stream)
    /\ \A x \in Tasks : TaskFits(task[x], release, stream)
    /\ OneRelease => \A x \in Tasks : TaskOrdered(task[x])

\* The first of a rising sequence is below the rest, which rises as well.
LEMMA RisingTail ==
    ASSUME NEW s \in Seq(Streams), s # <<>>, Rising(s)
    PROVE  /\ Rising(Tail(s))
           /\ Tail(s) # <<>> => Head(s) < Head(Tail(s))
<1>1. /\ Head(s) = s[1] /\ 1 \in 1..Len(s)
      /\ \A n \in 1..Len(Tail(s)) : n + 1 \in 1..Len(s) /\ Tail(s)[n] = s[n + 1]
      /\ Tail(s) # <<>> => Head(Tail(s)) = Tail(s)[1] /\ 1 \in 1..Len(Tail(s))
    BY Zenon, TailIs
<1>2. ASSUME NEW m \in 1..Len(Tail(s)), NEW n \in 1..Len(Tail(s)), m < n
      PROVE  Tail(s)[m] < Tail(s)[n]
  <2>1. m + 1 \in 1..Len(s) /\ n + 1 \in 1..Len(s) /\ m + 1 < n + 1
      BY <1>1, <1>2
  <2>2. s[m + 1] < s[n + 1]
      BY Zenon, <2>1 DEF Rising
  <2> QED
      BY Zenon, <1>1, <2>2
<1>3. ASSUME Tail(s) # <<>>
      PROVE  Head(s) < Head(Tail(s))
  <2>1. Tail(s)[1] = s[2] /\ 2 \in 1..Len(s)
      BY <1>1, <1>3
  <2>2. s[1] < s[2]
      BY <1>1, <2>1 DEF Rising
  <2> QED
      BY Zenon, <1>1, <1>3, <2>1, <2>2
<1> QED
    BY Zenon, <1>2, <1>3 DEF Rising

\* The streams of a load, sorted, rise.
LEMMA InOrderRises ==
    ASSUME NEW streams \in SUBSET Streams, Cardinality(streams) > 1, NEW s \in InOrder(streams)
    PROVE  Rising(s)
<1>1. s \in [1..Cardinality(streams) -> streams]
    BY Zenon DEF InOrder
<1>2. DOMAIN s = 1..Cardinality(streams) /\ s \in Seq(Streams)
    BY Zenon, <1>1, InOrderOK
<1>3. DOMAIN s = 1..Len(s)
    BY <1>2
<1> QED
    BY Zenon, <1>3 DEF InOrder, Rising

\* A longer stream is behind no snapshot it was not behind before.
LEMMA FitsLonger ==
    ASSUME NEW t \in TaskRecord, NEW releases, NEW old, NEW new, TaskFits(t, releases, old),
           \A k \in Streams : /\ Len(old[k]) \in Nat /\ Len(new[k]) \in Nat
                              /\ Len(old[k]) <= Len(new[k])
    PROVE  TaskFits(t, releases, new)
<1>1. Covers(t) \subseteq Streams /\ t.cached.version \in Nat
  <2>1. t.holds \subseteq Streams /\ t.wants \in Seq(Streams) /\ t.cached \in Records
      BY Zenon DEF TaskRecord
  <2>2. \A n \in 1..Len(t.wants) : t.wants[n] \in Streams
      BY <2>1
  <2>3. t.cached.version \in Nat
      BY <2>1 DEF Records
  <2> QED
      BY Zenon, <2>1, <2>2, <2>3 DEF Covers
<1>2. ASSUME t.cached # NoSnapshot, t.at \in {"Gate", "Lease", "Read"}, NEW k \in Covers(t)
      PROVE  t.cached.version <= Len(new[k])
  <2>1. t.cached.version <= Len(old[k]) /\ k \in Streams
      BY Zenon, <1>1, <1>2 DEF TaskFits
  <2>2. Len(old[k]) \in Nat /\ Len(new[k]) \in Nat /\ Len(old[k]) <= Len(new[k])
      BY Zenon, <2>1
  <2> QED
      BY <1>1, <2>1, <2>2
<1> QED
    BY Zenon, <1>2 DEF TaskFits

\* What counts for the order is the same of two tasks.
Same(s, t) == s.at = t.at /\ s.wants = t.wants /\ s.holds = t.holds /\ s.cached = t.cached

\* A step that keeps or lengthens the streams, and moves tasks to where they fit.
LEMMA OrderStep ==
    ASSUME Types, OrderInv, UNCHANGED release,
           \A k \in Streams : Len(stream'[k]) \in Nat /\ Len(stream[k]) <= Len(stream'[k]),
           SnapshotsFit(snapshot', release, stream'),
           \A y \in Tasks : \/ Same(task'[y], task[y])
                            \/ /\ TaskFits(task'[y], release, stream')
                               /\ OneRelease => TaskOrdered(task'[y])
    PROVE  OrderInv'
<1>1. \A k \in Streams : Len(stream[k]) \in Nat
    BY DEF Types
<1>2. ASSUME NEW y \in Tasks
      PROVE  /\ TaskFits(task'[y], release, stream')
             /\ OneRelease => TaskOrdered(task'[y])
  <2>1. CASE Same(task'[y], task[y])
    <3>1. PICK t : t = task'[y]
        BY SMTT(60)
    <3>2. t.at = task[y].at /\ t.wants = task[y].wants /\ t.holds = task[y].holds
          /\ t.cached = task[y].cached
        BY Zenon, <2>1, <3>1 DEF Same
    <3>3. Covers(t) = Covers(task[y])
        BY Zenon, <3>2 DEF Covers
    <3>4. TaskFits(task[y], release, stream) /\ task[y] \in TaskRecord
        BY Zenon DEF OrderInv, Types
    <3>5. TaskFits(task[y], release, stream')
        BY Zenon, <1>1, <3>4, FitsLonger
    <3>6. TaskFits(t, release, stream')
        BY Zenon, <3>2, <3>3, <3>5 DEF TaskFits
    <3>7. OneRelease => TaskOrdered(t)
        BY Zenon, <3>2 DEF OrderInv, TaskOrdered
    <3> QED
        BY Zenon, <3>1, <3>6, <3>7
  <2> QED
      BY Zenon, <2>1
<1>3. OneRelease' <=> OneRelease
    BY Zenon DEF OneRelease
<1> QED
    BY Zenon, <1>2, <1>3 DEF OrderInv

\* One task becomes another that fits, and the others are as they were.
LEMMA FitsInto ==
    ASSUME NEW x \in Tasks, NEW t, Becomes(x, t), TaskFits(t, release, stream'),
           OneRelease => TaskOrdered(t)
    PROVE  \A y \in Tasks : \/ Same(task'[y], task[y])
                            \/ /\ TaskFits(task'[y], release, stream')
                               /\ OneRelease => TaskOrdered(task'[y])
<1>1. task'[x] = t
    BY Zenon DEF Becomes
<1>2. \A y \in Tasks \ {x} : Same(task'[y], task[y])
    BY Zenon DEF Becomes, Alike, Same
<1> QED
    BY Zenon, <1>1, <1>2

\* The same, for one task and streams that stay.
LEMMA OrderMoves ==
    ASSUME Types, OrderInv, UNCHANGED <<release, stream, snapshot>>, NEW x \in Tasks, NEW t,
           Becomes(x, t), TaskFits(t, release, stream), OneRelease => TaskOrdered(t)
    PROVE  OrderInv'
<1>1. \A k \in Streams : Len(stream'[k]) \in Nat /\ Len(stream[k]) <= Len(stream'[k])
    BY SMTT(60) DEF Types
<1>2. SnapshotsFit(snapshot', release, stream')
    BY Zenon DEF OrderInv
<1>3. TaskFits(t, release, stream')
    BY Zenon
<1> QED
    BY Zenon, <1>1, <1>2, <1>3, FitsInto, OrderStep

\* Nothing was saved where there is no snapshot.
LEMMA NothingSaved == \A releases : Saves(NoSnapshot, releases)
BY Zenon DEF Saves

\* A sequence of one rises.
LEMMA OneRises ==
    ASSUME NEW k
    PROVE  Rising(<<k>>) /\ \A n \in 1..Len(<<k>>) : <<k>>[n] = k
BY DEF Rising

\* The head of a sequence of streams is one of them.
LEMMA HeadIsThere ==
    ASSUME NEW s \in Seq(Streams), s # <<>>
    PROVE  Head(s) \in Streams
OBVIOUS

\* What is below something is below what that is below.
LEMMA Between == \A a, b, c \in Nat : a < b /\ b < c => a < c
OBVIOUS

-----------------------------------------------------------------------------
(* Steps of a load.                                                        *)

\* A load starts with nothing, and its streams in order.
LEMMA GetOrders ==
    ASSUME Types, OrderInv, NEW x \in Tasks,
           \/ \E k \in Streams : GetSnapshot(x, k)
           \/ \E streams \in Loads[x] : GetStreams(x, streams)
    PROVE  OrderInv'
<1>1. UNCHANGED <<release, stream, snapshot>>
    BY Zenon, GetTypes
<1>2. PICK t : /\ Becomes(x, t) /\ t.holds = {}
               /\ \/ \E k \in Streams : t.wants = <<k>> /\ t.cached = snapshot[k]
                  \/ /\ t.cached = NoSnapshot
                     /\ \E streams \in SUBSET Streams :
                            Cardinality(streams) > 1 /\ t.wants \in InOrder(streams)
    BY Zenon, GetTypes
<1>3. ASSUME NEW k \in Streams, t.wants = <<k>>, t.cached = snapshot[k]
      PROVE  TaskFits(t, release, stream) /\ TaskOrdered(t)
  <2>1. Rising(t.wants) /\ \A j \in Covers(t) : j = k
    <3>1. \A n \in 1..Len(t.wants) : t.wants[n] = k
        BY ZenonT(60), <1>3, OneRises
    <3> QED
        BY ZenonT(60), <1>2, <1>3, <3>1, OneRises DEF Covers
  <2>2. TaskFits(t, release, stream)
      BY Zenon, <1>3, <2>1 DEF TaskFits, OrderInv, SnapshotsFit
  <2>3. TaskOrdered(t)
      BY Zenon, <1>2, <2>1 DEF TaskOrdered
  <2> QED
      BY Zenon, <2>2, <2>3
<1>4. ASSUME t.cached = NoSnapshot, NEW streams \in SUBSET Streams, Cardinality(streams) > 1,
             t.wants \in InOrder(streams)
      PROVE  TaskFits(t, release, stream) /\ TaskOrdered(t)
  <2>1. Rising(t.wants)
      BY Zenon, <1>4, InOrderRises
  <2>2. TaskFits(t, release, stream)
      BY Zenon, <1>4, NothingSaved DEF TaskFits
  <2>3. TaskOrdered(t)
      BY Zenon, <1>2, <2>1 DEF TaskOrdered
  <2> QED
      BY Zenon, <2>2, <2>3
<1>5. TaskFits(t, release, stream) /\ TaskOrdered(t)
    BY Zenon, <1>2, <1>3, <1>4
<1> QED
    BY Zenon, <1>1, <1>2, <1>5, OrderMoves

\* A task passes the gate.
LEMMA GateOrders ==
    ASSUME Types, OrderInv, NEW x \in Tasks, Gate(x)
    PROVE  OrderInv'
<1>1. task[x].at = "Gate" /\ UNCHANGED <<release, stream, snapshot>>
    BY Zenon DEF Gate
<1>2. PICK t : /\ Becomes(x, t) /\ t.wants = task[x].wants /\ t.cached = task[x].cached
               /\ t.holds = task[x].holds
    BY Zenon, GateTypes
<1>4. Covers(t) = Covers(task[x])
    BY Zenon, <1>2 DEF Covers
<1>5. TaskFits(task[x], release, stream) /\ (OneRelease => TaskOrdered(task[x]))
    BY Zenon DEF OrderInv
<1>6. TaskFits(t, release, stream)
    BY Zenon, <1>1, <1>2, <1>4, <1>5 DEF TaskFits
<1>7. OneRelease => TaskOrdered(t)
    BY Zenon, <1>1, <1>2, <1>5 DEF TaskOrdered
<1> QED
    BY Zenon, <1>1, <1>2, <1>6, <1>7, OrderMoves

\* A task that has won a lease goes on to a stream above all those it holds.
LEMMA AcquireOrders ==
    ASSUME Types, OrderInv, NEW x \in Tasks, Acquire(x)
    PROVE  OrderInv'
<1> DEFINE rest == Tail(task[x].wants)
<1>1. /\ task[x].at = "Lease" /\ task[x].holds \subseteq Streams
      /\ task[x].wants \in Seq(Streams) /\ task[x].wants # <<>>
    BY Zenon, TaskIs DEF Acquire, TaskOK
<1>2. PICK t : /\ Becomes(x, t) /\ t.wants = rest /\ t.cached = task[x].cached
               /\ t.holds = task[x].holds \cup {Head(task[x].wants)}
               /\ t.at = IF rest = <<>> THEN "Read" ELSE "Gate"
    BY Zenon, AcquireTypes DEF Wanted
<1>3. UNCHANGED <<release, stream, snapshot>>
    BY Zenon DEF Acquire
<1>4. TaskFits(task[x], release, stream) /\ (OneRelease => TaskOrdered(task[x]))
    BY Zenon DEF OrderInv
<1>5. /\ Head(task[x].wants) = task[x].wants[1] /\ 1 \in 1..Len(task[x].wants)
      /\ \A n \in 1..Len(rest) : n + 1 \in 1..Len(task[x].wants) /\ rest[n] = task[x].wants[n + 1]
      /\ rest # <<>> => Head(rest) = rest[1] /\ 1 \in 1..Len(rest)
      /\ rest \in Seq(Streams) /\ Head(task[x].wants) \in Streams
    BY Zenon, <1>1, TailIs
<1>6. ASSUME NEW k \in Covers(t) PROVE k \in Covers(task[x])
  <2>1. \/ k \in task[x].holds \/ k = Head(task[x].wants)
        \/ \E n \in 1..Len(rest) : k = rest[n]
      BY Zenon, <1>2, <1>6 DEF Covers
  <2>2. k \in task[x].holds \/ \E n \in 1..Len(task[x].wants) : k = task[x].wants[n]
      BY Zenon, <1>5, <2>1
  <2> QED
      BY Zenon, <2>2 DEF Covers
<1>7. TaskFits(t, release, stream)
    BY Zenon, <1>1, <1>2, <1>4, <1>6 DEF TaskFits
<1>8. ASSUME OneRelease PROVE TaskOrdered(t)
  <2>1. Rising(task[x].wants) /\ \A k \in task[x].holds : k < Head(task[x].wants)
      BY Zenon, <1>1, <1>4, <1>8 DEF TaskOrdered
  <2>2. Rising(rest) /\ (rest # <<>> => Head(task[x].wants) < Head(rest))
      BY Zenon, <1>1, <2>1, RisingTail
  <2>3. ASSUME rest # <<>>, NEW k \in t.holds PROVE k < Head(rest)
    <3>1. /\ Head(rest) \in Streams /\ Head(task[x].wants) \in Streams
          /\ Head(task[x].wants) < Head(rest) /\ Streams \subseteq Nat
        BY Zenon, <1>5, <2>2, <2>3, HeadIsThere, RepositoryAssumption DEF RepositoryAssumption
    <3>2. CASE k = Head(task[x].wants)
        BY Zenon, <3>1, <3>2
    <3>3. CASE k \in task[x].holds
      <4>1. k < Head(task[x].wants) /\ k \in Streams
          BY Zenon, <1>1, <2>1, <3>3
      <4>2. k \in Nat /\ Head(rest) \in Nat /\ Head(task[x].wants) \in Nat
          BY Zenon, <3>1, <4>1
      <4> QED
          BY Zenon, <3>1, <4>1, <4>2, Between
    <3> QED
        BY Zenon, <1>2, <2>3, <3>2, <3>3
  <2>4. CASE rest = <<>>
    <3>1. t.at \notin {"Gate", "Lease"}
        BY <1>2, <2>4
    <3> QED
        BY Zenon, <3>1 DEF TaskOrdered
  <2>5. CASE rest # <<>>
      BY Zenon, <1>2, <2>2, <2>3, <2>5 DEF TaskOrdered
  <2> QED
      BY Zenon, <2>4, <2>5
<1> QED
    BY Zenon, <1>2, <1>3, <1>7, <1>8, OrderMoves

\* A snapshot that a process of the same release saved, and that is not ahead of
\* the stream, is usable: the load does not ask for its lock again.
LEMMA ReadOrders ==
    ASSUME Types, OrderInv, NEW x \in Tasks, Read(x)
    PROVE  OrderInv'
<1>1. /\ task[x].at = "Read" /\ UNCHANGED <<release, stream, snapshot>>
      /\ task[x].holds \subseteq Streams /\ Process(x) \in Processes
    BY Zenon, TaskIs DEF Read
<1>2. TaskFits(task[x], release, stream)
    BY Zenon DEF OrderInv
<1>3. PICK t : ReadResult(x, t)
    BY Zenon, ReadMoves
<1>4. CASE t.at = "Gate" /\ t.cached = NoSnapshot
  <2>1. ASSUME OneRelease PROVE task'[x].at = "Work"
    <3>1. ASSUME NEW k \in task[x].holds, task[x].cached # NoSnapshot
          PROVE  Usable(Process(x), task[x].cached, Len(stream[k]))
      <4>1. k \in Covers(task[x])
          BY Zenon, <3>1 DEF Covers
      <4>2. task[x].cached.version <= Len(stream[k])
          BY Zenon, <1>1, <1>2, <3>1, <4>1 DEF TaskFits
      <4>3. PICK p \in Processes : task[x].cached.schema = release[p]
          BY Zenon, <1>2, <3>1 DEF TaskFits, Saves
      <4>4. release[p] = release[Process(x)]
          BY Zenon, <1>1, <2>1 DEF OneRelease
      <4> QED
          BY Zenon, <3>1, <4>2, <4>3, <4>4 DEF Usable
    <3>2. \E t1 : /\ Moves(x, [task[x] EXCEPT !.at = "Work", !.loaded = t1])
        BY Zenon, <3>1 DEF Read
    <3>3. PICK t1 : Moves(x, [task[x] EXCEPT !.at = "Work", !.loaded = t1])
        BY Zenon, <3>2
    <3>4. task'[x] = [task[x] EXCEPT !.at = "Work", !.loaded = t1] /\ task[x] \in TaskRecord
        BY Zenon, <3>3 DEF Moves, Types
    <3> QED
        BY <3>4 DEF TaskRecord
  <2>2. task'[x] = t
      BY Zenon, <1>3 DEF ReadResult, Becomes
  <2>3. ~OneRelease
      BY <1>4, <2>1, <2>2
  <2>4. TaskFits(t, release, stream)
      BY Zenon, <1>4, NothingSaved DEF TaskFits
  <2> QED
      BY Zenon, <1>1, <1>3, <2>3, <2>4, OrderMoves DEF ReadResult
<1>5. CASE t.at = "Work" /\ t.cached = task[x].cached
  <2>1. Saves(t.cached, release)
      BY Zenon, <1>2, <1>5 DEF TaskFits
  <2>2. t.at \notin {"Gate", "Lease", "Read"} /\ t.at \notin {"Gate", "Lease"}
      BY <1>5
  <2>3. TaskFits(t, release, stream) /\ TaskOrdered(t)
      BY Zenon, <2>1, <2>2 DEF TaskFits, TaskOrdered
  <2> QED
      BY Zenon, <1>1, <1>3, <2>3, OrderMoves DEF ReadResult
<1> QED
    BY Zenon, <1>3, <1>4, <1>5 DEF ReadResult

-----------------------------------------------------------------------------
(* Steps that end a load, and steps of the clock.                          *)

\* A task that has lost its locks, or gives them up, waits for nothing.
LEMMA RestOrders ==
    ASSUME Types, OrderInv, NEW x \in Tasks,
           \/ LoadFails(x) \/ Abort(x) \/ Open(x)
           \/ \E k \in Streams : Create(x, k) \/ Unlock(x, k) \/ UnlockFails(x, k)
    PROVE  OrderInv'
<1>1. ASSUME NEW t, Becomes(x, t), t.at \in {"Idle", "Unlock", "Open", "Work"},
             t.cached \in {NoSnapshot, task[x].cached},
             UNCHANGED <<release, stream, snapshot>>
      PROVE  OrderInv'
  <2>1. Saves(t.cached, release)
      BY Zenon, <1>1, NothingSaved DEF OrderInv, TaskFits
  <2>2. t.at \notin {"Gate", "Lease", "Read"} /\ t.at \notin {"Gate", "Lease"}
      BY SMTT(60), <1>1
  <2>3. TaskFits(t, release, stream) /\ TaskOrdered(t)
      BY Zenon, <2>1, <2>2 DEF TaskFits, TaskOrdered
  <2> QED
      BY Zenon, <1>1, <2>3, OrderMoves
<1>2. CASE LoadFails(x)
  <2>1. Idle(task[x].rounds).at = "Idle" /\ Idle(task[x].rounds).cached = NoSnapshot
      BY Zenon DEF Idle
  <2>2. Becomes(x, Idle(task[x].rounds)) /\ UNCHANGED <<release, stream, snapshot>>
      BY Zenon, <1>2, LoadFailsTypes
  <2> QED
      BY Zenon, <1>1, <2>1, <2>2
<1>3. CASE Abort(x)
  <2>1. PICK streams \in SUBSET Streams : Becomes(x, Freed(x, streams))
      BY Zenon, <1>3, EndsWork
  <2>2. Freed(x, streams).at \in {"Unlock", "Idle"} /\ Freed(x, streams).cached = NoSnapshot
      BY Zenon, FreedOK
  <2>3. UNCHANGED <<release, stream, snapshot>>
      BY Zenon, <1>3 DEF Abort
  <2> QED
      BY Zenon, <1>1, <2>1, <2>2, <2>3
<1>4. CASE Open(x)
    BY Zenon, <1>1, <1>4, OpenTypes
<1>5. ASSUME NEW k \in Streams, Unlock(x, k) \/ UnlockFails(x, k)
      PROVE  OrderInv'
  <2>1. Becomes(x, Unlocked(x, k)) /\ UNCHANGED <<release, stream, snapshot>>
      BY Zenon, <1>5, UnlockTypes
  <2>2. Unlocked(x, k).at = "Open" /\ Unlocked(x, k).cached = task[x].cached
      BY Zenon, UnlockedOK
  <2> QED
      BY Zenon, <1>1, <2>1, <2>2
<1>6. ASSUME NEW k \in Streams, Create(x, k)
      PROVE  OrderInv'
  <2>1. UNCHANGED <<release, stream, snapshot>>
      BY Zenon, <1>6, CreateTypes
  <2> QED
      BY Zenon, <1>1, <1>6, <2>1, CreateTypes
<1> QED
    BY Zenon, <1>2, <1>3, <1>4, <1>5, <1>6

\* A commit saves the snapshot of the version it has just made, in its own schema.
LEMMA CommitOrders ==
    ASSUME Types, OrderInv, NEW x \in Tasks, Commit(x)
    PROVE  OrderInv'
<1> DEFINE D == DOMAIN task[x].loaded
<1>1. /\ task[x].at = "Work" /\ UNCHANGED release /\ Process(x) \in Processes
      /\ D \subseteq Streams /\ \A k \in D : task[x].loaded[k] \in Entities
    BY Zenon, EndsWork, WorkIs, TaskIs
<1>2. PICK streams \in SUBSET Streams : Becomes(x, Freed(x, streams))
    BY Zenon, EndsWork
<1>3. TaskFits(Freed(x, streams), release, stream') /\ TaskOrdered(Freed(x, streams))
  <2>1. PICK t : t = Freed(x, streams)
      OBVIOUS
  <2>2. t.at \in {"Unlock", "Idle"} /\ t.cached = NoSnapshot
      BY Zenon, <2>1, FreedOK
  <2>3. t.at \notin {"Gate", "Lease", "Read"} /\ t.at \notin {"Gate", "Lease"}
      BY <2>2
  <2>4. TaskFits(t, release, stream') /\ TaskOrdered(t)
      BY Zenon, <2>2, <2>3, NothingSaved DEF TaskFits, TaskOrdered
  <2> QED
      BY Zenon, <2>1, <2>4
<1>4. CASE VersionsMatch(x)
  <2>1. stream' = Appended(x) /\ snapshot' = Saved(x)
      BY Zenon, <1>4 DEF Commit
  <2>2. ASSUME NEW k \in Streams
        PROVE  /\ Len(stream'[k]) \in Nat /\ Len(stream[k]) <= Len(stream'[k])
               /\ k \in D => Len(stream'[k]) = Len(stream[k]) + 1
    <3>1. stream[k] \in Seq(Nat)
        BY Zenon DEF Types
    <3>2. CASE k \in D
      <4>1. stream'[k] = Append(stream[k], task[x].loaded[k].state)
          BY Zenon, <1>1, <2>1, <3>2 DEF Appended
      <4>2. task[x].loaded[k].state \in Nat
          BY Zenon, <1>1, <3>2 DEF Entities
      <4> QED
          BY SMTT(60), <3>1, <4>1, <4>2
    <3>3. CASE k \notin D
      <4>1. stream'[k] = stream[k]
          BY Zenon, <1>1, <2>1, <3>3 DEF Appended
      <4> QED
          BY <3>1, <3>3, <4>1
    <3> QED
        BY Zenon, <3>2, <3>3
  <2>3. ASSUME NEW k \in Streams
        PROVE  /\ Saves(snapshot'[k], release)
               /\ snapshot'[k] # NoSnapshot => snapshot'[k].version <= Len(stream'[k])
    <3>1. \/ snapshot'[k] = snapshot[k]
          \/ /\ k \in D
             /\ snapshot'[k] = [version |-> task[x].loaded[k].version + 1,
                                state |-> task[x].loaded[k].state + 1,
                                schema |-> release[Process(x)]]
        BY Zenon, <1>1, <2>1 DEF Saved
    <3>2. CASE snapshot'[k] = snapshot[k]
      <4>1. /\ Saves(snapshot[k], release)
            /\ snapshot[k] # NoSnapshot => snapshot[k].version <= Len(stream[k])
          BY Zenon DEF OrderInv, SnapshotsFit
      <4>2. snapshot[k].version \in Nat /\ Len(stream[k]) \in Nat
          BY DEF Types, Records
      <4>3. snapshot[k] # NoSnapshot => snapshot[k].version <= Len(stream'[k])
          BY SMTT(60), <2>2, <4>1, <4>2
      <4> QED
          BY Zenon, <3>2, <4>1, <4>3
    <3>3. CASE /\ k \in D
               /\ snapshot'[k] = [version |-> task[x].loaded[k].version + 1,
                                  state |-> task[x].loaded[k].state + 1,
                                  schema |-> release[Process(x)]]
      <4>1. /\ snapshot'[k].version = task[x].loaded[k].version + 1
            /\ snapshot'[k].schema = release[Process(x)]
          BY SMTT(60), <3>3
      <4>2. Len(stream[k]) = task[x].loaded[k].version
          BY Zenon, <1>1, <1>4, <3>3 DEF VersionsMatch
      <4>3. Len(stream'[k]) \in Nat /\ Len(stream'[k]) = snapshot'[k].version
          BY Zenon, <2>2, <3>3, <4>1, <4>2
      <4>4. snapshot'[k].version <= Len(stream'[k])
          BY <4>3
      <4> QED
          BY Zenon, <1>1, <4>1, <4>4 DEF Saves
    <3> QED
        BY Zenon, <3>1, <3>2, <3>3
  <2>4. SnapshotsFit(snapshot', release, stream')
      BY Zenon, <2>3 DEF SnapshotsFit
  <2> QED
      BY Zenon, <1>1, <1>2, <1>3, <2>2, <2>4, FitsInto, OrderStep
<1>5. CASE ~VersionsMatch(x)
  <2>1. UNCHANGED <<stream, snapshot>>
      BY Zenon, <1>5 DEF Commit
  <2>2. TaskFits(Freed(x, streams), release, stream)
      BY Zenon, <1>3, <2>1
  <2> QED
      BY Zenon, <1>1, <1>2, <1>3, <2>1, <2>2, OrderMoves
<1> QED
    BY Zenon, <1>4, <1>5

\* An event more leaves every snapshot behind its stream.
LEMMA CausalOrders ==
    ASSUME Types, OrderInv, NEW k \in Streams, CausalCommit(k)
    PROVE  OrderInv'
<1>1. /\ stream'[k] = Append(stream[k], Len(stream[k])) /\ stream[k] \in Seq(Nat)
      /\ \A j \in Streams \ {k} : stream'[j] = stream[j]
      /\ UNCHANGED <<release, snapshot, task>>
    BY Zenon DEF CausalCommit, Types
<1>2. ASSUME NEW j \in Streams
      PROVE  Len(stream'[j]) \in Nat /\ Len(stream[j]) \in Nat /\ Len(stream[j]) <= Len(stream'[j])
  <2>1. CASE j = k
    <3>1. Len(stream[k]) \in Nat /\ Len(Append(stream[k], Len(stream[k]))) = Len(stream[k]) + 1
        BY <1>1
    <3> QED
        BY <1>1, <2>1, <3>1
  <2>2. CASE j # k
    <3>1. stream'[j] = stream[j] /\ stream[j] \in Seq(Nat)
        BY Zenon, <1>1, <2>2 DEF Types
    <3> QED
        BY <3>1
  <2> QED
      BY Zenon, <2>1, <2>2
<1>3. ASSUME NEW j \in Streams, snapshot[j] # NoSnapshot
      PROVE  snapshot[j].version <= Len(stream'[j])
  <2>1. snapshot[j].version <= Len(stream[j])
      BY Zenon, <1>3 DEF OrderInv, SnapshotsFit
  <2>2. snapshot[j].version \in Nat
      BY DEF Types, Records
  <2> QED
      BY <1>2, <2>1, <2>2
<1>4. SnapshotsFit(snapshot', release, stream')
    BY Zenon, <1>1, <1>3 DEF SnapshotsFit, OrderInv
<1>5. \A y \in Tasks : Same(task'[y], task[y])
    BY Zenon, <1>1 DEF Same
<1> QED
    BY Zenon, <1>1, <1>2, <1>4, <1>5, OrderStep

\* A lease that runs out, a late release, and a crash.
LEMMA ClockOrders ==
    ASSUME Types, OrderInv,
           Late \/ (\E k \in Streams : Overrun(k)) \/ \E p \in Processes : Crash(p)
    PROVE  OrderInv'
<1>1. UNCHANGED <<release, stream, snapshot>>
    BY Zenon DEF Late, Overrun, Crash
<1>2. /\ \A k \in Streams : Len(stream'[k]) \in Nat /\ Len(stream[k]) <= Len(stream'[k])
      /\ SnapshotsFit(snapshot', release, stream')
  <2>1. \A k \in Streams : Len(stream[k]) \in Nat /\ Len(stream[k]) <= Len(stream[k])
      BY DEF Types
  <2> QED
      BY Zenon, <1>1, <2>1 DEF OrderInv
<1>3. ASSUME NEW y \in Tasks
      PROVE  \/ Same(task'[y], task[y])
             \/ /\ TaskFits(task'[y], release, stream')
                /\ OneRelease => TaskOrdered(task'[y])
  <2>1. CASE Late
      BY Zenon, <2>1 DEF Late, Same
  <2>2. ASSUME NEW k \in Streams, Overrun(k)
        PROVE  Same(task'[y], task[y])
      BY Zenon, <2>2, OverrunTypes DEF Same
  <2>3. ASSUME NEW p \in Processes, Crash(p), task'[y] # task[y]
        PROVE  /\ TaskFits(task'[y], release, stream')
               /\ OneRelease => TaskOrdered(task'[y])
    <3>1. task'[y] = Idle(task[y].rounds)
        BY Zenon, <2>3, CrashTypes
    <3>2. PICK t : t = task'[y]
        OBVIOUS
    <3>3. t.at = "Idle" /\ t.cached = NoSnapshot
        BY SMTT(60), <3>1, <3>2 DEF Idle
    <3>4. t.at \notin {"Gate", "Lease", "Read"} /\ t.at \notin {"Gate", "Lease"}
        BY <3>3
    <3>5. TaskFits(t, release, stream) /\ TaskOrdered(t)
        BY Zenon, <3>3, <3>4, NothingSaved DEF TaskFits, TaskOrdered
    <3> QED
        BY Zenon, <1>1, <3>2, <3>5
  <2> QED
      BY Zenon, <2>1, <2>2, <2>3 DEF Same
<1> QED
    BY Zenon, <1>1, <1>2, <1>3, OrderStep

\* To begin with there are no snapshots, and nobody loads anything.
LEMMA OrderInit == Init => OrderInv
<1> SUFFICES ASSUME Init PROVE OrderInv
    OBVIOUS
<1>1. Idle(0).at = "Idle" /\ Idle(0).cached = NoSnapshot
    BY Zenon DEF Idle
<1>2. Idle(0).at \notin {"Gate", "Lease", "Read"} /\ Idle(0).at \notin {"Gate", "Lease"}
    BY <1>1
<1>3. TaskFits(Idle(0), release, stream) /\ TaskOrdered(Idle(0))
    BY Zenon, <1>1, <1>2, NothingSaved DEF TaskFits, TaskOrdered
<1>4. \A x \in Tasks : task[x] = Idle(0)
    BY Zenon DEF Init
<1>5. \A k \in Streams : snapshot[k] = NoSnapshot
    BY Zenon DEF Init
<1>6. SnapshotsFit(snapshot, release, stream)
    BY Zenon, <1>5, NothingSaved DEF SnapshotsFit
<1> QED
    BY Zenon, <1>3, <1>4, <1>6 DEF OrderInv

\* Every step keeps the order.
LEMMA OrderNext ==
    ASSUME Types, OrderInv, [Next]_vars
    PROVE  OrderInv'
<1>1. CASE UNCHANGED vars
    BY Zenon, <1>1 DEF OrderInv, OneRelease, vars
<1>2. ASSUME NEW x \in Tasks, Step(x)
      PROVE  OrderInv'
    BY Zenon, <1>2, GateOrders, AcquireOrders, ReadOrders, CommitOrders, RestOrders
    DEF Step
<1>3. ASSUME NEW x \in Tasks,
             \/ \E k \in Streams : GetSnapshot(x, k)
             \/ \E streams \in Loads[x] : GetStreams(x, streams)
             \/ LoadFails(x) \/ Abort(x)
             \/ \E k \in Streams : Create(x, k) \/ UnlockFails(x, k)
      PROVE  OrderInv'
    BY Zenon, <1>3, GetOrders, RestOrders
<1> QED
    BY Zenon, <1>1, <1>2, <1>3, CausalOrders, ClockOrders DEF Next

\* Every set of natural numbers that is not empty has a least element.
LEMMA Least ==
    ASSUME NEW S \in SUBSET Nat, S # {}
    PROVE  \E n \in S : \A m \in S : n <= m
<1> DEFINE R == OpToRel(<, Nat)
<1>1. IsWellFoundedOn(R, Nat)
    BY Zenon, NatLessThanWellFounded
<1>2. \A m, n \in Nat : m < n => <<m, n>> \in R
    BY DEF OpToRel
<1> HIDE DEF R
<1>3. \E n \in S : \A m \in S : ~(<<m, n>> \in R)
    BY Zenon, <1>1, WFMin
<1>4. PICK n \in S : \A m \in S : ~(<<m, n>> \in R)
    BY <1>3
<1>5. \A m \in S : ~(m < n)
    BY Zenon, <1>2, <1>4
<1>6. \A m \in S : n <= m
    BY <1>5
<1> QED
    BY <1>6

\* In a circle, the task that waits for the lowest stream would hold a higher one
\* than that: the one the task before it waits for.
LEMMA OrderBreaksCircles ==
    ASSUME Types, OrderInv
    PROVE  NoCircularWait
<1> SUFFICES ASSUME OneRelease, NEW n \in Nat \ {0}, NEW c \in [1..n -> Tasks],
                    \A i \in 1..n : Awaits(c[i], c[IF i = n THEN 1 ELSE i + 1])
             PROVE  FALSE
    BY Zenon DEF NoCircularWait
<1> DEFINE W == {Wanted(c[i]) : i \in 1..n}
<1>1. ASSUME NEW i \in 1..n
      PROVE  /\ c[i] \in Tasks /\ Waiting(c[i]) /\ Wanted(c[i]) \in Nat
             /\ \A k \in task[c[i]].holds : k < Wanted(c[i])
  <2>1. c[i] \in Tasks /\ Waiting(c[i])
      BY Zenon DEF Awaits
  <2>2. task[c[i]].wants \in Seq(Streams) /\ task[c[i]].wants # <<>>
      BY Zenon, <2>1 DEF Types, TaskOK, TaskRecord, Waiting
  <2>3. Wanted(c[i]) \in Nat
      BY Zenon, <2>2, HeadIsThere, RepositoryAssumption DEF Wanted, RepositoryAssumption
  <2>4. TaskOrdered(task[c[i]])
      BY Zenon, <2>1 DEF OrderInv
  <2> QED
      BY Zenon, <2>1, <2>3, <2>4 DEF TaskOrdered, Waiting, Wanted
<1>2. W \in SUBSET Nat /\ W # {}
  <2>1. 1 \in 1..n
      OBVIOUS
  <2>2. Wanted(c[1]) \in W
      BY Zenon, <2>1
  <2> QED
      BY Zenon, <1>1, <2>2
<1>3. PICK i \in 1..n : \A m \in W : Wanted(c[i]) <= m
    BY Zenon, <1>2, Least
<1>4. PICK j \in 1..n : i = IF j = n THEN 1 ELSE j + 1
  <2>1. CASE i = 1
      BY <2>1
  <2>2. CASE i # 1
    <3>1. i - 1 \in 1..n /\ i - 1 # n /\ i = (i - 1) + 1
        BY <2>2
    <3> QED
        BY Zenon, <3>1
  <2> QED
      BY Zenon, <2>1, <2>2
<1>5. Wanted(c[j]) \in task[c[i]].holds
    BY Zenon, <1>4 DEF Awaits
<1>6. Wanted(c[j]) < Wanted(c[i]) /\ Wanted(c[i]) <= Wanted(c[j])
    BY Zenon, <1>1, <1>3, <1>5
<1>7. Wanted(c[j]) \in Nat /\ Wanted(c[i]) \in Nat
    BY Zenon, <1>1
<1> QED
    BY <1>6, <1>7

\* While all processes run one release, no tasks wait for each other's locks in a
\* circle, and no task for its own, whatever leases run out and whoever crashes.
THEOREM NobodyWaitsInACircle == Spec => []NoCircularWait
<1>1. Init => OrderInv
    BY OrderInit
<1>2. Types /\ OrderInv /\ [Next]_vars => OrderInv'
    BY OrderNext
<1>3. Inv => Types
    BY Zenon DEF Inv
<1>4. Types /\ OrderInv => NoCircularWait
    BY OrderBreaksCircles
<1> QED
    BY <1>1, <1>2, <1>3, <1>4, Invariance, PTL DEF Spec
=============================================================================
