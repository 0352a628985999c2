------------------------------ MODULE AtomicMap ------------------------------
(* What the data calls of the C interface promise their clients: a map     *)
(* from keys to byte strings.  Each accepted request takes effect at one   *)
(* instant between its call and its return, and its reply is right for     *)
(* that instant.  A request may fail instead: a write may then have been   *)
(* applied in part, and nothing else has happened.                         *)
EXTENDS Sequences, Naturals

CONSTANTS Threads, Absent, NoRequest, NoReply, Done, Failed,
          Plain(_)   \* bytes that are text: a text read returns them as they are

VARIABLES
    map,   \* key -> bytes, or Absent
    req,   \* thread -> [kind, keys, data], or NoRequest
    rep    \* thread -> reply, NoReply while there is none

avars == <<map, req, rep>>

\* The map after the writes of a request at the given places, in order.
Written(m, r, places) ==
    [k \in DOMAIN m |->
        LET at == {i \in places : r.keys[i] = k}
        IN  IF at = {} THEN m[k]
            ELSE r.data[CHOOSE i \in at : \A j \in at : j <= i]]

Under(m, prefix) ==
    {k \in DOMAIN m : m[k] # Absent /\ Len(prefix) <= Len(k)
                      /\ SubSeq(k, 1, Len(prefix)) = prefix}

Answer(r) ==
    CASE r.kind \in {"read", "text"} -> map[r.keys[1]]
      [] r.kind = "exists" -> map[r.keys[1]] # Absent
      [] r.kind = "keys"   -> Under(map, r.keys[1])
      [] r.kind = "pairs"  -> {<<k, map[k]>> : k \in Under(map, r.keys[1])}
      [] OTHER             -> Done

AInit ==
    /\ \A k \in DOMAIN map : map[k] = Absent
    /\ req = [t \in Threads |-> NoRequest] /\ rep = [t \in Threads |-> NoReply]

Invoke(t) ==
    /\ req[t] = NoRequest /\ req'[t] # NoRequest
    /\ req' = [req EXCEPT ![t] = req'[t]]
    /\ UNCHANGED <<map, rep>>

TakeEffect(t) ==
    /\ req[t] # NoRequest /\ rep[t] = NoReply
    /\ rep'[t] # NoReply /\ rep' = [rep EXCEPT ![t] = rep'[t]]
    /\ \/ req[t].kind = "text" /\ ~Plain(map[req[t].keys[1]])
       \/ rep'[t] = Answer(req[t])
    /\ map' = IF req[t].kind = "write" THEN Written(map, req[t], DOMAIN req[t].keys) ELSE map
    /\ UNCHANGED req

Fail(t) ==
    /\ req[t] # NoRequest /\ rep[t] = NoReply
    /\ rep' = [rep EXCEPT ![t] = Failed]
    /\ IF req[t].kind = "write"
       THEN \E places \in SUBSET DOMAIN req[t].keys : map' = Written(map, req[t], places)
       ELSE map' = map
    /\ UNCHANGED req

Respond(t) ==
    /\ rep[t] # NoReply
    /\ req' = [req EXCEPT ![t] = NoRequest] /\ rep' = [rep EXCEPT ![t] = NoReply]
    /\ UNCHANGED map

ANext == \E t \in Threads : Invoke(t) \/ TakeEffect(t) \/ Fail(t) \/ Respond(t)

ASpec == AInit /\ [][ANext]_avars
=============================================================================
