---------------------------- MODULE ClosableEngine ----------------------------
(* What the Go binding promises about the engine behind an F4KVS value:    *)
(* C calls overlap freely while the engine is open, the engine is shut     *)
(* down at most once and only while no call is inside it, and no call      *)
(* enters it afterwards.                                                   *)
CONSTANT Procs

VARIABLES status, active

avars == <<status, active>>

AInit == status = "open" /\ active = {}

Enter(p) ==
    /\ status = "open" /\ p \notin active
    /\ active' = active \cup {p}
    /\ UNCHANGED status

Leave(p) ==
    /\ p \in active
    /\ active' = active \ {p}
    /\ UNCHANGED status

Shutdown ==
    /\ status = "open" /\ active = {}
    /\ status' = "shut"
    /\ UNCHANGED active

Release ==
    /\ status = "shut"
    /\ status' = "freed"
    /\ UNCHANGED active

ANext == (\E p \in Procs : Enter(p) \/ Leave(p)) \/ Shutdown \/ Release

ASpec == AInit /\ [][ANext]_avars
=============================================================================
