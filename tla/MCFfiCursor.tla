----------------------------- MODULE MCFfiCursor -----------------------------
(* Small instances of FfiCursor for TLC.                                   *)
EXTENDS FfiCursor

CONSTANTS c1, v1

MCCursors == {c1}
MCVisitors == {v1}

\* A cursor and a scan with a callback have nothing to do with each other:
\* a behaviour has one or the other, beside the writers.
Alone == (\A c \in Cursors : ~open[c]) \/ (\A v \in Visitors : vpc[v] = "idle")

MCNext == Next /\ Alone'

\* MCFairSpec implies FairSpec.
MCFairSpec == Init /\ [][MCNext]_vars /\ Fairness
=============================================================================
