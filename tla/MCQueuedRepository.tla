------------------------- MODULE MCQueuedRepository -------------------------
(* Small instances of QueuedRepository for TLC.                            *)
EXTENDS QueuedRepository, TLC

CONSTANTS p1, p2, x1, x2, x3

\* Two tasks in one process, a third in another.
MCProcessOf == (x1 :> p1) @@ (x2 :> p1) @@ (x3 :> p2)

\* The tasks of the first process load both streams, the third only one.
MCLoads == (x1 :> {{1, 2}}) @@ (x2 :> {{1, 2}}) @@ (x3 :> {{2}})

\* A task of the first process may create a stream instead of loading both.
MCCreates == (x1 :> {}) @@ (x2 :> {2}) @@ (x3 :> {})
MCNoCreates == [x \in Tasks |-> {}]

\* One release everywhere, or the second process ahead of the first.
MCReleases == {[p \in Processes |-> 1], (p1 :> 1) @@ (p2 :> 2)}

\* Releases that are not the same, for one task in each process.
MCTwoProcesses == (x1 :> p1) @@ (x3 :> p2)
MCOneStream == (x1 :> {{1}}) @@ (x3 :> {{1}})
MCRolling == {(p1 :> 1) @@ (p2 :> 2)}
=============================================================================
