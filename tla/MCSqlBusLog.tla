---------------------------- MODULE MCSqlBusLog -----------------------------
(* Small instances of SqlBusLog for TLC.                                   *)
EXTENDS SqlBusLog, TLC

CONSTANTS a, b, b2, p1, p2, c1, c2, g

\* a has no message id, and b2 reuses the id of b for another envelope.
MCStableId == (a :> NoId) @@ (b :> "b") @@ (b2 :> "b")
MCGroupOf == [c \in Consumers |-> g]
MCWanted == [x \in Groups |-> Messages]

\* Two replicas of a group on a log that may lose its tail, or one consumer of a
\* log that may lose its identity, with publishers that disagree on an id.
MCDeployments ==
    {[messages |-> {a, b}, consumers |-> {c1, c2}, lost |-> "Tail"],
     [messages |-> {b, b2}, consumers |-> {c1}, lost |-> "Identity"]}
=============================================================================
