------------------------------- MODULE MCGoTxn -------------------------------
(* Small instances of GoTxn for TLC.                                       *)
EXTENDS GoTxn, TLC

CONSTANTS x1, x2, a, b, bad, aNul, v1, v2

MCTxns == {x1, x2}
MCOneTxn == {x1}
MCVals == {v1, v2}

Symmetry == Permutations(MCTxns)

\* Keys without NUL: each is its own name.
MCKeys == {a, b, bad}
MCNames == {a, b, bad}
MCBadNames == {bad}
MCCString == [k \in MCKeys |-> k]

\* The key "a\0..." is cut to "a".
MCNulKeys == {a, aNul}
MCNulNames == {a}
MCNulSet == {aNul}
MCCut == [k \in MCNulKeys |-> a]
=============================================================================
