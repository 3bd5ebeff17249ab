---------------------------- MODULE MCOpAMPServer ----------------------------
(* Instances of OpAMPServer for TLC.                                         *)
EXTENDS OpAMPServer

CONSTANTS u1, k1, k2, p1, p2, y1, y2, y0

\* One collector and every connection and dispatch of the run belong to it: the
\* registry's maps are keyed by collector, so collectors do not interact.
OneAgent == [k \in Conn |-> u1]
OneTarget == [p \in Push |-> u1]
YamlOf == [p \in Push |-> IF p = p1 THEN y1 ELSE y2]

\* configSubset accepts only the content itself.
Exactly == [y \in {y0, y1, y2} |-> {y}]

\* A collector that reports over a WebSocket that may break.
OneDispatch == {Scene({}, {p1}, {"healthy"}, {"drop"}, 1)}

\* Two dispatches to a collector that polls or has a WebSocket; a collector nothing
\* is dispatched to and everything happens to; one dispatch while something happens, or
\* while the server restarts and its store fails.
SeveralScenes ==
    {Scene({k1}, {p1, p2}, {"healthy"}, {}, 0),
     Scene({}, {p1, p2}, {"healthy"}, {}, 0),
     Scene({}, {}, {"healthy", "unhealthy"}, {"restart", "silence", "drop", "stop", "store"}, 3),
     Scene({}, {p1}, {"healthy"}, {"restart", "silence", "drop"}, 1),
     Scene({k1}, {p1}, {"healthy"}, {"restart", "silence"}, 1),
     Scene({}, {p1}, {"healthy"}, {"restart", "store"}, 2)}
=============================================================================
