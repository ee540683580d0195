---------------------------- MODULE MCProjector -----------------------------
(* Small instances of ProjectorRuntime for TLC.                            *)
EXTENDS ProjectorRuntime, TLC

CONSTANTS w1, w2

Event(epoch, position, message, causation, op, projectors) ==
    [epoch |-> epoch, position |-> position, message |-> message,
     causation |-> causation, key |-> "k", op |-> op, projectors |-> projectors]

\* One record through its life.
Life == <<Event(1, 1, "a", "x", "Put", <<"t">>), Event(1, 2, "b", "x", "Delete", <<"t">>),
          Event(1, 3, "c", "y", "Revive", <<"t">>)>>

\* A message of two projectors, of which one has another message first.
Fanout == <<Event(1, 1, "a", "x", "Put", <<"t">>), Event(1, 2, "b", "x", "Put", <<"t", "u">>)>>

\* The log starts again in another epoch, after an input that changes no row.
Restarted == <<Event(1, 1, "a", "x", "Skip", <<"t">>), Event(2, 1, "b", "y", "Put", <<"t">>)>>

\* A message id is published twice.
Reused == <<Event(1, 1, "a", "x", "Put", <<"t">>), Event(1, 2, "a", "x", "Put", <<"t">>)>>

Over(kind, feeds) == {[delivery |-> kind, feed |-> f] : f \in feeds}

\* The SQL log takes an id once.
MCSources ==
    Over("Log", {Life, Fanout, Restarted}) \cup Over("Competing", {Fanout, Reused})
        \cup Over("Replay", {Fanout, Reused, Restarted})

MCCompeting == Over("Competing", {Fanout})
=============================================================================
