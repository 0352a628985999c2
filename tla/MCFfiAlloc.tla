----------------------------- MODULE MCFfiAlloc -----------------------------
(* Small instances of FfiAlloc for TLC.                                    *)
EXTENDS FfiAlloc

CONSTANTS t1, t2, s1, s2, a1, a2, a3

MCThreads == {t1, t2}
MCSlots == {s1, s2}
MCAddrs == {a1, a2, a3}

\* Enough for two threads that free the same string.
MCOneSlot == {s1}
MCFewAddrs == {a1, a2}
=============================================================================
