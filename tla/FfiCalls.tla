------------------------------ MODULE FfiCalls ------------------------------
(* The data calls of the C interface, made by several threads on one       *)
(* engine: argument checks, conversions of keys and values, result codes   *)
(* and the thread-local error message.                                     *)
(*                                                                         *)
(* A byte string is a short sequence over three bytes: an ordinary one,    *)
(* NUL, and one that is not UTF-8.  A call is checked and begun in one     *)
(* step (it reads nothing another thread can change), takes effect in the  *)
(* engine in a second, and returns in a third.  Who owns the memory of an  *)
(* answer is the subject of FfiAlloc.                                      *)
EXTENDS Naturals, Sequences, FiniteSets

CONSTANTS
    Threads,
    Args,            \* byte strings clients pass as keys and prefixes
    Datas,           \* byte strings clients pass as values
    Nul, NotUtf8, Replacement,   \* special bytes; U+FFFD
    Null,            \* a NULL pointer (with a length above 0, if it has one)
    Refused,         \* what checking an invalid argument yields
    MaxKey, MaxValue,            \* MAX_KEY_LENGTH, MAX_VALUE_LENGTH
    MaxBatch,                    \* performance.max_batch_size
    MaxItems,                    \* bound: items that clients put in a batch
    BatchArgs, BatchDatas,       \* bound: which keys and values these are
    Absent, NoRequest, NoReply, Done, Failed    \* see AtomicMap

\* The calls, without the common prefix f4kvs_engine_.
Ops == {"put", "put_bytes", "put_kv", "get", "get_bytes", "get_kv", "delete",
        "delete_kv", "exists", "batch_put_bytes", "batch_put_kv", "batch_delete",
        "batch_delete_kv", "scan_prefix", "scan_prefix_kv", "scan_prefix_keys",
        "scan_prefix_keys_kv", "flush", "flush_wal", "compact", "set_bulk_import"}

\* Where a call's engine request and its answer differ.
Kind(op) ==
    CASE op \in {"get_bytes", "get_kv"} -> "read"
      [] op = "get" -> "text"
      [] op = "exists" -> "exists"
      [] op \in {"scan_prefix", "scan_prefix_kv"} -> "pairs"
      [] op \in {"scan_prefix_keys", "scan_prefix_keys_kv"} -> "keys"
      [] op \in {"flush", "flush_wal", "compact", "set_bulk_import"} -> "maintain"
      [] OTHER -> "write"
Kinds == {"read", "text", "exists", "pairs", "keys", "maintain", "write"}

Bytes == (Args \cup Datas) \ {Null}
Holds(s, b) == \E i \in DOMAIN s : s[i] = b

ASSUME CallsAssumption ==
    /\ \A s \in Bytes : s \in Seq({s[i] : i \in DOMAIN s})
    /\ MaxKey \in Nat /\ MaxValue \in Nat /\ MaxBatch \in Nat \ {0} /\ MaxItems \in Nat
    /\ BatchArgs \subseteq Args /\ BatchDatas \subseteq Datas
    /\ Nul # NotUtf8 /\ Nul # Replacement /\ NotUtf8 # Replacement

-----------------------------------------------------------------------------
(* Arguments.                                                              *)

\* A C string ends at its first NUL: CStr::from_ptr.
Cut(s) ==
    LET n == CHOOSE n \in 0 .. Len(s) :
                /\ \A i \in 1 .. n : s[i] # Nul
                /\ n = Len(s) \/ s[n + 1] = Nul
    IN  SubSeq(s, 1, n)

\* Mutant: the text is not checked.
validate_c_string_any_bytes(p, max) ==
    IF p = Null THEN Refused
    ELSE IF Len(Cut(p)) > max THEN Refused ELSE Cut(p)

validate_c_string(p, max) ==
    IF p = Null THEN Refused
    ELSE IF Len(Cut(p)) > max \/ Holds(Cut(p), NotUtf8) THEN Refused ELSE Cut(p)

key_from_bytes(s) == IF Len(s) > MaxKey \/ Holds(s, NotUtf8) THEN Refused ELSE s

key_from_raw(p) == IF p = Null THEN Refused ELSE key_from_bytes(p)

\* The value of put_bytes and of the length-prefixed calls.
ByteValue(p) ==
    IF p = Null THEN Refused
    ELSE IF Len(p) > MaxValue THEN Refused ELSE [type |-> "Bytes", data |-> p]

TextValue(p) ==
    LET s == validate_c_string(p, MaxValue)
    IN  IF s = Refused THEN Refused ELSE [type |-> "String", data |-> s]

\* Mutant: off by one.
reject_batch_count_late(count) == count > MaxBatch + 1

reject_batch_count(count) == count > MaxBatch

\* The keys that pass a check.
Names == ({validate_c_string(p, MaxKey) : p \in Args} \cup {key_from_raw(p) : p \in Args})
         \ {Refused}

Values == ({ByteValue(p) : p \in Datas} \cup {TextValue(p) : p \in Datas}) \ {Refused}

Contents == {v.data : v \in Values}

\* Calls with checked arguments, and what they are to AtomicMap.
Calls == [op : Ops, keys : Seq(Names), vals : Seq(Values \cup {Absent})]
Requests == [kind : Kinds, keys : Seq(Names), data : Seq(Contents \cup {Absent})]

-----------------------------------------------------------------------------
(* Answers.                                                                *)

value_to_bytes(v) == IF v = Absent THEN Absent ELSE v.data

\* Bytes that are not UTF-8 are replaced.
value_to_string(v) ==
    IF v.type = "String" THEN v.data
    ELSE [i \in DOMAIN v.data |-> IF v.data[i] = NotUtf8 THEN Replacement ELSE v.data[i]]

\* CString::new refuses an interior NUL.
allocate_c_string(s) == ~Holds(s, Nul)

\* What stands for nothing is no value, call, request or answer.
ASSUME NothingAssumption ==
    /\ Absent \notin Values /\ Absent \notin Contents
    /\ NoRequest \notin Calls /\ NoRequest \notin Requests
    /\ NoReply \notin {Done, Failed, Absent} /\ NoReply \notin BOOLEAN
    /\ NoReply \notin Contents /\ \A v \in Values : NoReply # value_to_string(v)
    /\ \A found \in SUBSET Names : NoReply # found
    /\ \A found \in SUBSET (Names \X Contents) : NoReply # found

-----------------------------------------------------------------------------
VARIABLES
    store,      \* the engine: [Names -> Values \cup {Absent}]
    call,       \* the call of a thread, checked: [op, keys, vals], or NoRequest
    result,     \* its F4KvsResult, "None" until it is known
    out,        \* what it stored through its output pointers
    lastError,  \* LAST_ERROR: why the call failed, "earlier" when the message
                \* is about a call that has returned, Null if there is none
    message     \* the pointer f4kvs_get_last_error gave the thread

vars == <<store, call, result, out, lastError, message>>

TypeOK ==
    /\ store \in [Names -> Values \cup {Absent}]
    /\ call \in [Threads -> Calls \cup {NoRequest}]
    /\ \A t \in Threads : call[t] # NoRequest => Len(call[t].keys) <= MaxBatch
    /\ result \in [Threads -> {"None", "Success", "InvalidArgument", "NotFound", "Storage"}]
    /\ lastError \in [Threads -> {Null, "argument", "count", "engine", "cstring", "earlier"}]
    /\ message \in [Threads -> {"none", "live", "dangling"}]

Init ==
    /\ store = [n \in Names |-> Absent]
    /\ call = [t \in Threads |-> NoRequest]
    /\ result = [t \in Threads |-> "None"]
    /\ out = [t \in Threads |-> NoReply]
    /\ lastError = [t \in Threads |-> Null]
    /\ message = [t \in Threads |-> "none"]

-----------------------------------------------------------------------------
(* The error message of a thread.                                          *)

\* Mutant: one message for the whole process.
set_last_error_global(t, why) ==
    /\ lastError' = [u \in Threads |-> why]
    /\ message' = [u \in Threads |-> IF message[u] = "live" THEN "dangling" ELSE message[u]]

\* The previous message is dropped: a pointer to it dangles.
set_last_error(t, why) ==
    /\ lastError' = [lastError EXCEPT ![t] = why]
    /\ message' = [message EXCEPT ![t] = IF @ = "live" THEN "dangling" ELSE @]

f4kvs_get_last_error(t) ==
    /\ call[t] = NoRequest
    /\ message' = [message EXCEPT ![t] = IF lastError[t] = Null THEN "none" ELSE "live"]
    /\ UNCHANGED <<store, call, result, out, lastError>>

-----------------------------------------------------------------------------
(* Beginning a call.  pointers: the engine and output pointers are not     *)
(* NULL, nor are the arrays of a batch (an empty batch needs none, and one *)
(* that is too long is refused before they are looked at).                 *)

\* Mutant: a refusal leaves the message of an earlier call in place.
Refuse_tells_nobody(t, op, why) ==
    /\ call[t] = NoRequest
    /\ call' = [call EXCEPT ![t] = [op |-> op, keys |-> <<>>, vals |-> <<>>]]
    /\ result' = [result EXCEPT ![t] = "InvalidArgument"]
    /\ UNCHANGED <<store, out, lastError, message>>

Refuse(t, op, why) ==
    /\ call[t] = NoRequest
    /\ call' = [call EXCEPT ![t] = [op |-> op, keys |-> <<>>, vals |-> <<>>]]
    /\ result' = [result EXCEPT ![t] = "InvalidArgument"]
    /\ set_last_error(t, why)
    /\ UNCHANGED <<store, out>>

\* Every argument is checked before the engine is called.
Begin(t, op, pointers, keys, vals) ==
    IF \/ ~pointers
       \/ \E i \in DOMAIN keys : keys[i] = Refused
       \/ \E i \in DOMAIN vals : vals[i] = Refused
    THEN Refuse(t, op, "argument")
    ELSE /\ call[t] = NoRequest
         /\ call' = [call EXCEPT ![t] = [op |-> op, keys |-> keys, vals |-> vals]]
         /\ UNCHANGED <<store, result, out, lastError, message>>

\* Mutant: the items before the first invalid one are written at once.
BeginBatch_as_it_goes(t, op, pointers, keys, vals) ==
    IF pointers /\ \E i \in DOMAIN keys : keys[i] = Refused
    THEN /\ call[t] = NoRequest
         /\ call' = [call EXCEPT ![t] = [op |-> op, keys |-> <<>>, vals |-> <<>>]]
         /\ result' = [result EXCEPT ![t] = "InvalidArgument"]
         /\ set_last_error(t, "argument")
         /\ store' = IF keys[1] = Refused \/ vals[1] = Refused THEN store
                     ELSE [store EXCEPT ![keys[1]] = vals[1]]
         /\ UNCHANGED out
    ELSE Begin(t, op, pointers /\ Len(keys) <= MaxBatch, keys, vals)

BeginBatch(t, op, pointers, keys, vals) ==
    IF pointers /\ reject_batch_count(Len(keys)) THEN Refuse(t, op, "count")
    ELSE Begin(t, op, pointers, keys, vals)

f4kvs_engine_put(t, ok, k, v) ==
    Begin(t, "put", ok, <<validate_c_string(k, MaxKey)>>, <<TextValue(v)>>)
f4kvs_engine_put_bytes(t, ok, k, v) ==
    Begin(t, "put_bytes", ok, <<validate_c_string(k, MaxKey)>>, <<ByteValue(v)>>)
f4kvs_engine_put_kv(t, ok, k, v) ==
    Begin(t, "put_kv", ok, <<key_from_raw(k)>>, <<ByteValue(v)>>)

f4kvs_engine_delete(t, ok, k) ==
    Begin(t, "delete", ok, <<validate_c_string(k, MaxKey)>>, <<Absent>>)
f4kvs_engine_delete_kv(t, ok, k) ==
    Begin(t, "delete_kv", ok, <<key_from_raw(k)>>, <<Absent>>)

f4kvs_engine_get(t, ok, k) == Begin(t, "get", ok, <<validate_c_string(k, MaxKey)>>, <<>>)
f4kvs_engine_get_bytes(t, ok, k) ==
    Begin(t, "get_bytes", ok, <<validate_c_string(k, MaxKey)>>, <<>>)
f4kvs_engine_get_kv(t, ok, k) == Begin(t, "get_kv", ok, <<key_from_raw(k)>>, <<>>)
f4kvs_engine_exists(t, ok, k) ==
    Begin(t, "exists", ok, <<validate_c_string(k, MaxKey)>>, <<>>)

f4kvs_engine_scan_prefix(t, ok, p) ==
    Begin(t, "scan_prefix", ok, <<validate_c_string(p, MaxKey)>>, <<>>)
f4kvs_engine_scan_prefix_keys(t, ok, p) ==
    Begin(t, "scan_prefix_keys", ok, <<validate_c_string(p, MaxKey)>>, <<>>)
f4kvs_engine_scan_prefix_kv(t, ok, p) ==
    Begin(t, "scan_prefix_kv", ok, <<key_from_raw(p)>>, <<>>)
f4kvs_engine_scan_prefix_keys_kv(t, ok, p) ==
    Begin(t, "scan_prefix_keys_kv", ok, <<key_from_raw(p)>>, <<>>)

\* A batch: ks and vs are sequences of the same length.
f4kvs_engine_batch_put_bytes(t, ok, ks, vs) ==
    BeginBatch(t, "batch_put_bytes", ok,
          [i \in DOMAIN ks |-> validate_c_string(ks[i], MaxKey)],
          [i \in DOMAIN vs |-> ByteValue(vs[i])])
f4kvs_engine_batch_put_kv(t, ok, ks, vs) ==
    BeginBatch(t, "batch_put_kv", ok,
          [i \in DOMAIN ks |-> key_from_raw(ks[i])], [i \in DOMAIN vs |-> ByteValue(vs[i])])
f4kvs_engine_batch_delete(t, ok, ks) ==
    BeginBatch(t, "batch_delete", ok,
          [i \in DOMAIN ks |-> validate_c_string(ks[i], MaxKey)], [i \in DOMAIN ks |-> Absent])
f4kvs_engine_batch_delete_kv(t, ok, ks) ==
    BeginBatch(t, "batch_delete_kv", ok,
          [i \in DOMAIN ks |-> key_from_raw(ks[i])], [i \in DOMAIN ks |-> Absent])

f4kvs_engine_flush(t, ok) == Begin(t, "flush", ok, <<>>, <<>>)
f4kvs_engine_flush_wal(t, ok) == Begin(t, "flush_wal", ok, <<>>, <<>>)
f4kvs_engine_compact(t, ok) == Begin(t, "compact", ok, <<>>, <<>>)
f4kvs_engine_set_bulk_import(t, ok) == Begin(t, "set_bulk_import", ok, <<>>, <<>>)

-----------------------------------------------------------------------------
(* The engine call.                                                        *)

\* The engine's content after the writes of a call at the given places.
Applied(c, places) ==
    [n \in Names |->
        LET at == {i \in places : c.keys[i] = n}
        IN  IF at = {} THEN store[n] ELSE c.vals[CHOOSE i \in at : \A j \in at : j <= i]]

\* scan_prefix of the engine.
Matching(prefix) ==
    {n \in Names : /\ store[n] # Absent /\ Len(prefix) <= Len(n)
                   /\ SubSeq(n, 1, Len(prefix)) = prefix}

InEngine(t) == call[t] # NoRequest /\ result[t] = "None"

Finish(t, res, answer) ==
    /\ result' = [result EXCEPT ![t] = res]
    /\ out' = [out EXCEPT ![t] = answer]
    /\ UNCHANGED <<call, lastError, message>>

EngineWrite(t) ==
    /\ InEngine(t) /\ Kind(call[t].op) = "write"
    /\ store' = Applied(call[t], DOMAIN call[t].keys)
    /\ Finish(t, "Success", Done)

EngineMaintain(t) ==
    /\ InEngine(t) /\ Kind(call[t].op) = "maintain"
    /\ Finish(t, "Success", Done)
    /\ UNCHANGED store

EngineGet(t) ==
    /\ InEngine(t) /\ Kind(call[t].op) \in {"read", "text"}
    /\ LET v == store[call[t].keys[1]]
       IN  IF v = Absent THEN Finish(t, "NotFound", Absent)
           ELSE IF Kind(call[t].op) = "read" THEN Finish(t, "Success", value_to_bytes(v))
           ELSE allocate_c_string(value_to_string(v)) /\ Finish(t, "Success", value_to_string(v))
    /\ UNCHANGED store

EngineExists(t) ==
    /\ InEngine(t) /\ Kind(call[t].op) = "exists"
    /\ Finish(t, "Success", store[call[t].keys[1]] # Absent)
    /\ UNCHANGED store

EngineScan(t) ==
    /\ InEngine(t) /\ Kind(call[t].op) \in {"pairs", "keys"}
    /\ LET found == Matching(call[t].keys[1])
       IN  /\ \A n \in found : allocate_c_string(n)
           /\ Finish(t, "Success", IF Kind(call[t].op) = "keys" THEN found
                                    ELSE {<<n, value_to_bytes(store[n])>> : n \in found})
    /\ UNCHANGED store

\* The answer holds text that is no C string: the whole call fails.
NoCString(t) ==
    /\ InEngine(t)
    /\ \/ /\ Kind(call[t].op) = "text" /\ store[call[t].keys[1]] # Absent
          /\ ~allocate_c_string(value_to_string(store[call[t].keys[1]]))
       \/ /\ Kind(call[t].op) \in {"pairs", "keys"}
          /\ \E n \in Matching(call[t].keys[1]) : ~allocate_c_string(n)
    /\ result' = [result EXCEPT ![t] = "Storage"]
    /\ set_last_error(t, "cstring")
    /\ UNCHANGED <<store, call, out>>

\* The engine fails; of a write, any part may have been applied.
EngineError(t) ==
    /\ InEngine(t) /\ call[t].op # "set_bulk_import"
    /\ IF Kind(call[t].op) = "write"
       THEN \E places \in SUBSET DOMAIN call[t].keys : store' = Applied(call[t], places)
       ELSE UNCHANGED store
    /\ result' = [result EXCEPT ![t] = "Storage"]
    /\ set_last_error(t, "engine")
    /\ UNCHANGED <<call, out>>

Return(t) ==
    /\ result[t] # "None"
    /\ call' = [call EXCEPT ![t] = NoRequest]
    /\ result' = [result EXCEPT ![t] = "None"]
    /\ out' = [out EXCEPT ![t] = NoReply]
    /\ lastError' = [lastError EXCEPT ![t] = IF @ = Null THEN Null ELSE "earlier"]
    /\ UNCHANGED <<store, message>>

-----------------------------------------------------------------------------
Lists(S) == UNION {[1 .. n -> S] : n \in 0 .. MaxItems}

Single(t, ok, args, datas) ==
    \E k \in args :
        \/ \E v \in datas : \/ f4kvs_engine_put(t, ok, k, v)
                            \/ f4kvs_engine_put_bytes(t, ok, k, v)
                            \/ f4kvs_engine_put_kv(t, ok, k, v)
        \/ f4kvs_engine_delete(t, ok, k) \/ f4kvs_engine_delete_kv(t, ok, k)
        \/ f4kvs_engine_get(t, ok, k) \/ f4kvs_engine_get_bytes(t, ok, k)
        \/ f4kvs_engine_get_kv(t, ok, k) \/ f4kvs_engine_exists(t, ok, k)
        \/ f4kvs_engine_scan_prefix(t, ok, k) \/ f4kvs_engine_scan_prefix_keys(t, ok, k)
        \/ f4kvs_engine_scan_prefix_kv(t, ok, k) \/ f4kvs_engine_scan_prefix_keys_kv(t, ok, k)

Batch(t, ok, lists, datas) ==
    \E ks \in lists :
        \/ \E vs \in [DOMAIN ks -> datas] :
              \/ f4kvs_engine_batch_put_bytes(t, ok, ks, vs)
              \/ f4kvs_engine_batch_put_kv(t, ok, ks, vs)
        \/ f4kvs_engine_batch_delete(t, ok, ks) \/ f4kvs_engine_batch_delete_kv(t, ok, ks)

Maintenance(t, ok) ==
    \/ f4kvs_engine_flush(t, ok) \/ f4kvs_engine_flush_wal(t, ok)
    \/ f4kvs_engine_compact(t, ok) \/ f4kvs_engine_set_bulk_import(t, ok)

\* The steps of a thread that are not the beginning of a call.
Goes(t) ==
    \/ EngineWrite(t) \/ EngineMaintain(t) \/ EngineGet(t) \/ EngineExists(t)
    \/ EngineScan(t) \/ NoCString(t) \/ EngineError(t)
    \/ Return(t) \/ f4kvs_get_last_error(t)

Next ==
    \E t \in Threads :
        \/ \E ok \in BOOLEAN : \/ Single(t, ok, Args, Datas)
                              \/ Batch(t, ok, Lists(BatchArgs), BatchDatas)
                              \/ Maintenance(t, ok)
        \/ Goes(t)

Spec == Init /\ [][Next]_vars

-----------------------------------------------------------------------------
(* Properties.                                                             *)

\* A thread whose call returned InvalidArgument or Storage finds the message
\* of that call, whatever the other threads did meanwhile.
ErrorReported ==
    \A t \in Threads :
        /\ result[t] = "InvalidArgument" => lastError[t] \in {"argument", "count"}
        /\ result[t] = "Storage" => lastError[t] \in {"engine", "cstring"}

\* "The pointer is valid until the next failed call on the same thread": it
\* is invalidated neither by calls of other threads nor by a call that
\* succeeds or finds nothing.
MessageOutlives ==
    [][\A t \in Threads : message[t] = "live" /\ message'[t] = "dangling" =>
          result[t] = "None" /\ result'[t] \in {"InvalidArgument", "Storage"}]_vars

\* A value stored as a string is NUL-free UTF-8, so f4kvs_engine_get returns
\* it unchanged and never fails to make a C string of it.
StringsAreText ==
    \A n \in Names : store[n] # Absent /\ store[n].type = "String" =>
        ~Holds(store[n].data, Nul) /\ ~Holds(store[n].data, NotUtf8)

\* What a request is, seen as one on a map of bytes.  A refused call is none.
Request(t) ==
    IF call[t] = NoRequest \/ result[t] = "InvalidArgument" THEN NoRequest
    ELSE [kind |-> Kind(call[t].op), keys |-> call[t].keys,
          data |-> [i \in DOMAIN call[t].vals |-> value_to_bytes(call[t].vals[i])]]

Reply(t) == IF result[t] = "Storage" THEN Failed ELSE out[t]

PlainText(d) == d = Absent \/ (~Holds(d, Nul) /\ ~Holds(d, NotUtf8))

Map == INSTANCE AtomicMap WITH
    map <- [n \in Names |-> value_to_bytes(store[n])],
    req <- [t \in Threads |-> Request(t)],
    rep <- [t \in Threads |-> Reply(t)],
    Plain <- PlainText

\* Whatever mixture of string, byte and length-prefixed calls the threads
\* make, they see one map of bytes on which every accepted call acts at one
\* instant; a refused call has no effect on it.
ImplementsMap == Map!ASpec

\* The length-prefixed calls have "no CString, no NUL trap": none of them
\* fails because of a NUL in a key.
NoNulTrap ==
    \A t \in Threads : result[t] = "Storage" /\ lastError[t] = "cstring" =>
        call[t].op \notin {"scan_prefix_kv", "scan_prefix_keys_kv"}
=============================================================================
