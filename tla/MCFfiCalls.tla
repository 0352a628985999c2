----------------------------- MODULE MCFfiCalls -----------------------------
(* A small instance of FfiCalls for TLC.                                   *)
EXTENDS FfiCalls

CONSTANTS t1, t2, x

MCThreads == {t1, t2}

\* "", "x", "x\\0", a text that is not UTF-8 behind a NUL, one that is too
\* long, and NULL.
MCArgs == {<<>>, <<x>>, <<x, Nul>>, <<Nul, NotUtf8>>, <<x, x, x>>, Null}
MCDatas == {<<x>>, <<x, Nul>>, <<NotUtf8>>, <<x, x, x>>, Null}

\* Batches: items that pass and items that do not.
MCBatchArgs == {<<x>>, <<x, Nul>>, Null}
MCBatchDatas == {<<x>>, Null}

\* For the run calls_nul_trap.
MCFewArgs == {<<x>>, <<x, Nul>>}
MCFewDatas == {<<x>>}
MCOneThread == {t1}
MCOneArg == {<<x>>}

-----------------------------------------------------------------------------
(* The product of all arguments and two threads is too large.  A behaviour *)
(* of this instance is one of a single thread that passes anything, until  *)
(* only plain data is around; then both threads may call with plain data.  *)

Begins(t, args, datas, lists, items) ==
    /\ call[t] = NoRequest
    /\ \E ok \in BOOLEAN : \/ Single(t, ok, args, datas)
                           \/ Batch(t, ok, lists, items)
                           \/ Maintenance(t, ok)

Unused(t) == call[t] = NoRequest /\ lastError[t] = Null /\ message[t] = "none"

Plain ==
    /\ \A n \in Names : store[n] # Absent => n = <<x>> /\ store[n].data = <<x>>
    /\ \A t \in Threads : call[t] # NoRequest =>
          /\ Len(call[t].keys) <= 1
          /\ \A i \in DOMAIN call[t].keys : call[t].keys[i] = <<x>>
          /\ \A i \in DOMAIN call[t].vals : call[t].vals[i] # Absent => call[t].vals[i].data = <<x>>

MCNext ==
    \/ Unused(t2) /\ (Begins(t1, Args, Datas, Lists(BatchArgs), BatchDatas) \/ Goes(t1))
    \/ Plain /\ \E t \in Threads :
                    Begins(t, {<<x>>}, {<<x>>}, {<<>>, <<<<x>>>>}, {<<x>>}) \/ Goes(t)

\* MCSpec implies Spec.
MCSpec == Init /\ [][MCNext]_vars
=============================================================================
