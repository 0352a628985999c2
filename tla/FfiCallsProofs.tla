--------------------------- MODULE FfiCallsProofs ---------------------------
(* Types, error messages and stored strings of FfiCalls, and that its      *)
(* calls implement AtomicMap, for any number of threads, any arguments and *)
(* any limits.                                                             *)
EXTENDS FfiCalls, TLAPS, WellFoundedInduction

USE CallsAssumption

-----------------------------------------------------------------------------
(* The operators.                                                          *)

LEMMA Least ==
  ASSUME NEW T, T \subseteq Nat, T # {}
  PROVE  \E m \in T : \A i \in T : m <= i
<1>1. PICK m \in T : \A i \in T : ~(<<i, m>> \in OpToRel(<, Nat))
  BY NatLessThanWellFounded, WFMin, Zenon
<1>2. \A i \in T : ~(i < m)
  BY <1>1, ZenonT(60) DEF OpToRel
<1>3. QED
  BY <1>2

LEMMA Greatest ==
  ASSUME NEW n \in Nat, NEW T, T \subseteq 1 .. n, T # {}
  PROVE  \E m \in T : \A i \in T : i <= m
<1> DEFINE D == {n - i : i \in T}
<1>1. D \subseteq Nat /\ D # {}
  <2>1. \A i \in T : n - i \in Nat
    OBVIOUS
  <2>2. QED
    BY <2>1, ZenonT(60)
<1>2. PICK d \in D : \A e \in D : d <= e
  BY <1>1, Least, ZenonT(60)
<1>3. PICK m \in T : d = n - m
  BY Zenon
<1>4. \A i \in T : n - m <= n - i
  BY <1>2, <1>3, ZenonT(60)
<1>5. QED
  BY <1>4

\* A C string has no NUL, and only bytes of the string it was cut from.
LEMMA CutText ==
  ASSUME NEW s \in Bytes
  PROVE  ~Holds(Cut(s), Nul)
<1> DEFINE P(n) == /\ \A i \in 1 .. n : s[i] # Nul
                   /\ n = Len(s) \/ s[n + 1] = Nul
           T == {i \in 1 .. Len(s) : s[i] = Nul}
<1>1. Len(s) \in Nat /\ DOMAIN s = 1 .. Len(s) /\ s \in Seq({s[i] : i \in DOMAIN s})
  OBVIOUS
<1>2. \E n \in 0 .. Len(s) : P(n)
  <2>1. CASE T = {}
    <3>1. Len(s) \in 0 .. Len(s) /\ \A i \in 1 .. Len(s) : s[i] # Nul
      BY <1>1, <2>1
    <3>2. QED
      BY <3>1, Zenon
  <2>2. CASE T # {}
    <3> HIDE DEF P
    <3>0. T \subseteq Nat
      BY <1>1
    <3>1. PICK m \in T : \A i \in T : m <= i
      <4> HIDE DEF T
      <4>1. QED
        BY <2>2, <3>0, Least, ZenonT(60)
    <3> USE DEF P
    <3>2. m - 1 \in 0 .. Len(s) /\ P(m - 1)
      BY <1>1, <3>1
    <3>3. QED
      BY <3>2, Zenon
  <2>3. QED
    BY <2>1, <2>2, Zenon
<1>3. PICK n \in 0 .. Len(s) : P(n) /\ Cut(s) = SubSeq(s, 1, n)
  <2> DEFINE c == CHOOSE n \in 0 .. Len(s) : P(n)
  <2>1. c \in 0 .. Len(s) /\ P(c)
    BY <1>2, Zenon
  <2>2. Cut(s) = SubSeq(s, 1, c)
    BY Zenon DEF Cut
  <2>3. QED
    BY <2>1, <2>2, ZenonT(60)
<1>4. \A i \in DOMAIN SubSeq(s, 1, n) : i \in 1 .. n /\ SubSeq(s, 1, n)[i] = s[i]
  BY <1>1
<1>5. QED
  BY <1>3, <1>4, Zenon DEF Holds

\* A checked value that was put as a string is text.
LEMMA ValuesAreText ==
  ASSUME NEW v \in Values, v.type = "String"
  PROVE  ~Holds(v.data, Nul) /\ ~Holds(v.data, NotUtf8)
<1>1. PICK p \in Datas : v = ByteValue(p) \/ v = TextValue(p)
  BY Zenon DEF Values
<1>2. v # Refused
  BY Zenon DEF Values
<1>3. v # ByteValue(p)
  BY <1>2 DEF ByteValue
<1>4. /\ validate_c_string(p, MaxValue) # Refused
      /\ v = [type |-> "String", data |-> validate_c_string(p, MaxValue)]
  BY <1>1, <1>2, <1>3, Zenon DEF TextValue
<1>5. /\ p # Null /\ validate_c_string(p, MaxValue) = Cut(p)
      /\ ~Holds(Cut(p), NotUtf8)
  BY <1>4, Zenon DEF validate_c_string
<1>6. ~Holds(Cut(p), Nul)
  BY <1>5, CutText, Zenon DEF Bytes
<1>7. QED
  BY <1>4, <1>5, <1>6, Zenon

\* One that was put as bytes is the bytes that were passed.
LEMMA ValuesAreBytes ==
  ASSUME NEW v \in Values, v.type # "String"
  PROVE  v.data \in Bytes
<1>1. PICK p \in Datas : v = ByteValue(p) \/ v = TextValue(p)
  BY Zenon DEF Values
<1>2. v # Refused
  BY Zenon DEF Values
<1>3. v # TextValue(p)
  BY <1>2 DEF TextValue
<1>4. QED
  BY <1>1, <1>2, <1>3 DEF ByteValue, Bytes

\* A sequence without the mark of a refusal.
LEMMA NoneRefused ==
  ASSUME NEW S, NEW s \in Seq(S \cup {Refused}), \A i \in DOMAIN s : s[i] # Refused
  PROVE  s \in Seq(S)
<1>1. Len(s) \in Nat /\ s \in [1 .. Len(s) -> S \cup {Refused}]
  OBVIOUS
<1>2. s \in [1 .. Len(s) -> S]
  BY <1>1, Zenon
<1>3. QED
  BY <1>1, <1>2

-----------------------------------------------------------------------------
(* The inductive invariant.                                                *)

\* A call that is in the engine has a key to look up, or as many values as
\* keys.
Formed(c) ==
    /\ Kind(c.op) = "write" => DOMAIN c.vals = DOMAIN c.keys
    /\ Kind(c.op) \notin {"write", "maintain"} => Len(c.keys) = 1

CallInv ==
    \A t \in Threads : /\ call[t] = NoRequest => result[t] = "None"
                       /\ InEngine(t) => Formed(call[t])

\* The output pointers are written by calls that succeed, and by no others.
OutInv ==
    /\ out = [t \in Threads |-> out[t]]
    /\ \A t \in Threads : out[t] # NoReply <=> result[t] \in {"Success", "NotFound"}

IInv == TypeOK /\ CallInv /\ OutInv /\ ErrorReported

-----------------------------------------------------------------------------
(* How a call begins.                                                      *)

\* A call that passes its checks.
Accept(t) ==
    /\ call[t] = NoRequest
    /\ \E c \in Calls : /\ Formed(c) /\ Len(c.keys) <= MaxBatch
                        /\ call' = [call EXCEPT ![t] = c]
    /\ UNCHANGED <<store, result, out, lastError, message>>

Begins(t) == Accept(t) \/ \E op \in Ops, why \in {"argument", "count"} : Refuse(t, op, why)

LEMMA BeginCases ==
  ASSUME NEW t, NEW op \in Ops, NEW ok \in BOOLEAN,
         NEW keys \in Seq(Names \cup {Refused}),
         NEW vals \in Seq(Values \cup {Absent} \cup {Refused}),
         Formed([op |-> op, keys |-> keys, vals |-> vals]),
         \/ Begin(t, op, ok, keys, vals) /\ Len(keys) <= MaxBatch
         \/ BeginBatch(t, op, ok, keys, vals)
  PROVE  Begins(t)
<1> DEFINE c == [op |-> op, keys |-> keys, vals |-> vals]
<1>1. CASE Refuse(t, op, "argument") \/ Refuse(t, op, "count")
  BY <1>1, Zenon DEF Begins
<1>2. CASE ~(Refuse(t, op, "argument") \/ Refuse(t, op, "count"))
  <2>1. Begin(t, op, ok, keys, vals)
    BY <1>2, Zenon DEF BeginBatch
  <2>2. /\ ok
        /\ \A i \in DOMAIN keys : keys[i] # Refused
        /\ \A i \in DOMAIN vals : vals[i] # Refused
        /\ call[t] = NoRequest
        /\ call' = [call EXCEPT ![t] = c]
        /\ UNCHANGED <<store, result, out, lastError, message>>
    BY <1>2, <2>1, Zenon DEF Begin
  <2>3. Len(keys) <= MaxBatch
    <3>1. Len(keys) \in Nat
      OBVIOUS
    <3>2. CASE Len(keys) > MaxBatch
      <4>1. reject_batch_count(Len(keys))
        BY <3>2, Zenon DEF reject_batch_count
      <4>2. ~BeginBatch(t, op, ok, keys, vals)
        BY <1>2, <2>2, <4>1, Zenon DEF BeginBatch
      <4>3. QED
        BY <4>2, Zenon
    <3>3. QED
      BY <3>1, <3>2
  <2>4. c \in Calls
    BY <2>2, NoneRefused, Zenon DEF Calls
  <2>5. QED
    BY <2>2, <2>3, <2>4, ZenonT(60) DEF Accept, Begins
<1>3. QED
  BY <1>1, <1>2, Zenon

\* The keys and values of single calls and of batches.
LEMMA Checked ==
  /\ \A k \in Args : /\ validate_c_string(k, MaxKey) \in Names \cup {Refused}
                     /\ key_from_raw(k) \in Names \cup {Refused}
  /\ \A v \in Datas : /\ TextValue(v) \in Values \cup {Refused}
                      /\ ByteValue(v) \in Values \cup {Refused}
  BY Zenon DEF Names, Values

LEMMA SingleBegins ==
  ASSUME NEW t, NEW ok \in BOOLEAN, Single(t, ok, Args, Datas)
  PROVE  Begins(t)
<1>1. PICK k \in Args :
        \/ \E v \in Datas : \/ f4kvs_engine_put(t, ok, k, v)
                            \/ f4kvs_engine_put_bytes(t, ok, k, v)
                            \/ f4kvs_engine_put_kv(t, ok, k, v)
        \/ f4kvs_engine_delete(t, ok, k) \/ f4kvs_engine_delete_kv(t, ok, k)
        \/ f4kvs_engine_get(t, ok, k) \/ f4kvs_engine_get_bytes(t, ok, k)
        \/ f4kvs_engine_get_kv(t, ok, k) \/ f4kvs_engine_exists(t, ok, k)
        \/ f4kvs_engine_scan_prefix(t, ok, k) \/ f4kvs_engine_scan_prefix_keys(t, ok, k)
        \/ f4kvs_engine_scan_prefix_kv(t, ok, k) \/ f4kvs_engine_scan_prefix_keys_kv(t, ok, k)
  BY Zenon DEF Single
<1>2. ASSUME NEW op \in Ops, Kind(op) = "write", NEW key \in Names \cup {Refused},
             NEW val \in Values \cup {Absent, Refused}, Begin(t, op, ok, <<key>>, <<val>>)
      PROVE  Begins(t)
  <2>1. <<key>> \in Seq(Names \cup {Refused}) /\ <<val>> \in Seq(Values \cup {Absent} \cup {Refused})
    OBVIOUS
  <2>2. DOMAIN <<key>> = DOMAIN <<val>> /\ Len(<<key>>) <= MaxBatch
    OBVIOUS
  <2>3. Formed([op |-> op, keys |-> <<key>>, vals |-> <<val>>])
    BY <1>2, <2>2, Zenon DEF Formed
  <2>4. QED
    BY <1>2, <2>1, <2>2, <2>3, BeginCases, ZenonT(60)
<1>3. ASSUME NEW op \in Ops, Kind(op) # "write", NEW key \in Names \cup {Refused},
             Begin(t, op, ok, <<key>>, <<>>)
      PROVE  Begins(t)
  <2>1. <<key>> \in Seq(Names \cup {Refused}) /\ <<>> \in Seq(Values \cup {Absent} \cup {Refused})
    OBVIOUS
  <2>2. Len(<<key>>) = 1 /\ Len(<<key>>) <= MaxBatch
    OBVIOUS
  <2>3. Formed([op |-> op, keys |-> <<key>>, vals |-> <<>>])
    BY <1>3, <2>2, Zenon DEF Formed
  <2>4. QED
    BY <1>3, <2>1, <2>2, <2>3, BeginCases, ZenonT(60)
<1>4. /\ \A op \in {"put", "put_bytes", "put_kv", "delete", "delete_kv"} :
            op \in Ops /\ Kind(op) = "write"
      /\ \A op \in {"get", "get_bytes", "get_kv", "exists", "scan_prefix", "scan_prefix_kv",
                    "scan_prefix_keys", "scan_prefix_keys_kv"} : op \in Ops /\ Kind(op) # "write"
  BY DEF Kind, Ops
<1>5. CASE \E v \in Datas : \/ f4kvs_engine_put(t, ok, k, v)
                            \/ f4kvs_engine_put_bytes(t, ok, k, v)
                            \/ f4kvs_engine_put_kv(t, ok, k, v)
  BY <1>2, <1>4, <1>5, Checked, Zenon DEF f4kvs_engine_put, f4kvs_engine_put_bytes, f4kvs_engine_put_kv
<1>6. CASE f4kvs_engine_delete(t, ok, k) \/ f4kvs_engine_delete_kv(t, ok, k)
  BY <1>2, <1>4, <1>6, Checked, Zenon DEF f4kvs_engine_delete, f4kvs_engine_delete_kv
<1>7. CASE \/ f4kvs_engine_get(t, ok, k) \/ f4kvs_engine_get_bytes(t, ok, k)
           \/ f4kvs_engine_get_kv(t, ok, k) \/ f4kvs_engine_exists(t, ok, k)
  BY <1>3, <1>4, <1>7, Checked, Zenon DEF f4kvs_engine_get, f4kvs_engine_get_bytes,
     f4kvs_engine_get_kv, f4kvs_engine_exists
<1>8. CASE \/ f4kvs_engine_scan_prefix(t, ok, k) \/ f4kvs_engine_scan_prefix_keys(t, ok, k)
           \/ f4kvs_engine_scan_prefix_kv(t, ok, k)
           \/ f4kvs_engine_scan_prefix_keys_kv(t, ok, k)
  BY <1>3, <1>4, <1>8, Checked, Zenon DEF f4kvs_engine_scan_prefix, f4kvs_engine_scan_prefix_keys,
     f4kvs_engine_scan_prefix_kv, f4kvs_engine_scan_prefix_keys_kv
<1>9. QED
  BY <1>1, <1>5, <1>6, <1>7, <1>8, Zenon

LEMMA BatchBegins ==
  ASSUME NEW t, NEW ok \in BOOLEAN, Batch(t, ok, Lists(BatchArgs), BatchDatas)
  PROVE  Begins(t)
<1>1. PICK ks \in Lists(BatchArgs) :
        \/ \E vs \in [DOMAIN ks -> BatchDatas] :
              \/ f4kvs_engine_batch_put_bytes(t, ok, ks, vs)
              \/ f4kvs_engine_batch_put_kv(t, ok, ks, vs)
        \/ f4kvs_engine_batch_delete(t, ok, ks) \/ f4kvs_engine_batch_delete_kv(t, ok, ks)
  BY Zenon DEF Batch
<1>2. PICK n \in Nat : ks \in [1 .. n -> BatchArgs]
  BY DEF Lists
<1> DEFINE text == [i \in DOMAIN ks |-> validate_c_string(ks[i], MaxKey)]
           raw == [i \in DOMAIN ks |-> key_from_raw(ks[i])]
<1>3. /\ text \in [1 .. n -> Names \cup {Refused}] /\ text \in Seq(Names \cup {Refused})
      /\ raw \in [1 .. n -> Names \cup {Refused}] /\ raw \in Seq(Names \cup {Refused})
  BY <1>2, Checked
<1> HIDE DEF text, raw
<1>4. ASSUME NEW op \in Ops, Kind(op) = "write", NEW keys \in {text, raw}, NEW vals,
             vals \in [1 .. n -> Values \cup {Absent} \cup {Refused}],
             BeginBatch(t, op, ok, keys, vals)
      PROVE  Begins(t)
  <2>1. vals \in Seq(Values \cup {Absent} \cup {Refused}) /\ DOMAIN vals = DOMAIN keys
    BY <1>3, <1>4
  <2>2. Formed([op |-> op, keys |-> keys, vals |-> vals])
    BY <1>4, <2>1, Zenon DEF Formed
  <2>3. QED
    BY <1>3, <1>4, <2>1, <2>2, BeginCases, Zenon
<1>5. \A op \in {"batch_put_bytes", "batch_put_kv", "batch_delete", "batch_delete_kv"} :
          op \in Ops /\ Kind(op) = "write"
  BY Zenon DEF Kind, Ops
<1>6. ASSUME NEW vs \in [DOMAIN ks -> BatchDatas],
             \/ f4kvs_engine_batch_put_bytes(t, ok, ks, vs)
             \/ f4kvs_engine_batch_put_kv(t, ok, ks, vs)
      PROVE  Begins(t)
  <2> DEFINE vals == [i \in DOMAIN vs |-> ByteValue(vs[i])]
  <2>1. vals \in [1 .. n -> Values \cup {Absent} \cup {Refused}]
    BY <1>2, Checked, Zenon
  <2> HIDE DEF vals
  <2>2. QED
    BY <1>4, <1>5, <1>6, <2>1, Zenon
       DEF text, raw, vals, f4kvs_engine_batch_put_bytes, f4kvs_engine_batch_put_kv
<1>7. CASE f4kvs_engine_batch_delete(t, ok, ks) \/ f4kvs_engine_batch_delete_kv(t, ok, ks)
  <2> DEFINE vals == [i \in DOMAIN ks |-> Absent]
  <2>1. vals \in [1 .. n -> Values \cup {Absent} \cup {Refused}]
    BY <1>2, Zenon
  <2> HIDE DEF vals
  <2>2. QED
    BY <1>4, <1>5, <1>7, <2>1, Zenon
       DEF text, raw, vals, f4kvs_engine_batch_delete, f4kvs_engine_batch_delete_kv
<1>8. QED
  BY <1>1, <1>6, <1>7, Zenon

LEMMA MaintenanceBegins ==
  ASSUME NEW t, NEW ok \in BOOLEAN, Maintenance(t, ok)
  PROVE  Begins(t)
<1>1. PICK op \in {"flush", "flush_wal", "compact", "set_bulk_import"} :
        Begin(t, op, ok, <<>>, <<>>)
  BY Zenon DEF Maintenance, f4kvs_engine_flush, f4kvs_engine_flush_wal, f4kvs_engine_compact,
     f4kvs_engine_set_bulk_import
<1>2. op \in Ops /\ Kind(op) = "maintain"
  BY Zenon DEF Kind, Ops
<1>3. Formed([op |-> op, keys |-> <<>>, vals |-> <<>>])
  BY <1>2, Zenon DEF Formed
<1>4. /\ <<>> \in Seq(Names \cup {Refused}) /\ <<>> \in Seq(Values \cup {Absent} \cup {Refused})
      /\ Len(<<>>) <= MaxBatch
  OBVIOUS
<1>5. QED
  BY <1>1, <1>2, <1>3, <1>4, BeginCases, ZenonT(60)

-----------------------------------------------------------------------------
(* The steps.                                                              *)

LEMMA BeginsIInv ==
  ASSUME IInv, NEW t \in Threads, Begins(t)
  PROVE  IInv'
<1> USE DEF IInv
<1>1. CASE Accept(t)
  <2>1. PICK c \in Calls : /\ Formed(c) /\ Len(c.keys) <= MaxBatch
                           /\ call' = [call EXCEPT ![t] = c]
    BY <1>1, ZenonT(60) DEF Accept
  <2>2. UNCHANGED <<store, result, out, lastError, message>> /\ result[t] = "None"
    BY <1>1, Zenon DEF Accept, CallInv
  <2>3. call'[t] = c /\ \A u \in Threads : u # t => call'[u] = call[u]
    BY <2>1, Zenon DEF TypeOK
  <2>4. TypeOK'
    BY <2>1, <2>2, <2>3, Zenon DEF TypeOK
  <2>5. CallInv'
    BY <2>1, <2>2, <2>3, Zenon DEF CallInv, InEngine
  <2>6. OutInv' /\ ErrorReported'
    BY <2>2, Zenon DEF OutInv, ErrorReported
  <2>7. QED
    BY <2>4, <2>5, <2>6, Zenon
<1>2. ASSUME NEW op \in Ops, NEW why \in {"argument", "count"}, Refuse(t, op, why)
      PROVE  IInv'
  <2> DEFINE c == [op |-> op, keys |-> <<>>, vals |-> <<>>]
  <2>1. c \in Calls /\ Len(c.keys) <= MaxBatch
    BY DEF Calls
  <2>2. /\ call' = [call EXCEPT ![t] = c] /\ result' = [result EXCEPT ![t] = "InvalidArgument"]
        /\ set_last_error(t, why) /\ UNCHANGED <<store, out>> /\ result[t] = "None"
    BY <1>2, Zenon DEF Refuse, CallInv
  <2>3. /\ call'[t] = c /\ result'[t] = "InvalidArgument" /\ lastError'[t] = why
        /\ \A u \in Threads : u # t => /\ call'[u] = call[u] /\ result'[u] = result[u]
                                       /\ lastError'[u] = lastError[u]
    BY <2>2, Zenon DEF TypeOK, set_last_error
  <2> HIDE DEF c
  <2>4. TypeOK'
    BY <2>1, <2>2, <2>3, Zenon DEF TypeOK, set_last_error
  <2>5. CallInv'
    BY <2>1, <2>3, NothingAssumption, Zenon DEF CallInv, InEngine
  <2>6. OutInv'
    BY <2>2, <2>3, Zenon DEF OutInv
  <2>7. ErrorReported'
    BY <2>3, Zenon DEF ErrorReported
  <2>8. QED
    BY <2>4, <2>5, <2>6, <2>7, Zenon
<1>3. QED
  BY <1>1, <1>2, Zenon DEF Begins

\* The places at which a write stores one of its values for a name.
LEMMA LastPlace ==
  ASSUME NEW c \in Calls, NEW places \in SUBSET DOMAIN c.keys, NEW n,
         {i \in places : c.keys[i] = n} # {}
  PROVE  LET at == {i \in places : c.keys[i] = n}
         IN  (CHOOSE i \in at : \A j \in at : j <= i) \in places
<1> DEFINE at == {i \in places : c.keys[i] = n}
<1>1. Len(c.keys) \in Nat /\ DOMAIN c.keys = 1 .. Len(c.keys)
  BY DEF Calls
<1>2. at \subseteq 1 .. Len(c.keys) /\ at # {} /\ at \subseteq places
  BY <1>1, Zenon
<1>3. \E i \in at : \A j \in at : j <= i
  <2> HIDE DEF at
  <2>1. QED
    BY <1>1, <1>2, Greatest, Zenon
<1>4. (CHOOSE i \in at : \A j \in at : j <= i) \in at
  <2> HIDE DEF at
  <2>1. QED
    BY <1>3, Zenon
<1>5. QED
  BY <1>2, <1>4, Zenon

\* A write stores values of its call or leaves the old ones.
LEMMA AppliedType ==
  ASSUME IInv, NEW t \in Threads, InEngine(t), Kind(call[t].op) = "write",
         NEW places \in SUBSET DOMAIN call[t].keys
  PROVE  Applied(call[t], places) \in [Names -> Values \cup {Absent}]
<1> DEFINE c == call[t]
<1>1. c \in Calls /\ DOMAIN c.vals = DOMAIN c.keys
  BY DEF IInv, TypeOK, CallInv, InEngine, Formed
<1>2. ASSUME NEW n \in Names
      PROVE  Applied(c, places)[n] \in Values \cup {Absent}
  <2> DEFINE at == {i \in places : c.keys[i] = n}
             last == CHOOSE i \in at : \A j \in at : j <= i
  <2>1. Applied(c, places)[n] = IF at = {} THEN store[n] ELSE c.vals[last]
    BY Zenon DEF Applied
  <2>2. CASE at = {}
    BY <2>1, <2>2, Zenon DEF IInv, TypeOK
  <2>3. CASE at # {}
    <3>1. last \in places
      BY <1>1, <2>3, LastPlace, ZenonT(60)
    <3>2. last \in DOMAIN c.vals
      BY <1>1, <3>1, Zenon
    <3>3. c.vals[last] \in Values \cup {Absent}
      <4> HIDE DEF last
      <4>1. QED
        BY <1>1, <3>2 DEF Calls
    <3>4. QED
      BY <2>1, <2>3, <3>3, Zenon
  <2>4. QED
    BY <2>2, <2>3, Zenon
<1>3. QED
  BY <1>2, Zenon DEF Applied

\* What the invariant needs of a step that ends the engine call of t.
LEMMA EngineIInv ==
  ASSUME IInv, NEW t \in Threads, InEngine(t), UNCHANGED call,
         store' \in [Names -> Values \cup {Absent}],
         NEW res \in {"Success", "NotFound", "Storage"}, NEW answer,
         result' = [result EXCEPT ![t] = res],
         out' = [out EXCEPT ![t] = answer],
         \/ res # "Storage" /\ answer # NoReply /\ UNCHANGED <<lastError, message>>
         \/ /\ res = "Storage" /\ answer = NoReply
            /\ \E why \in {"engine", "cstring"} : set_last_error(t, why)
  PROVE  IInv'
<1> USE DEF IInv
<1>1. /\ result'[t] = res /\ out'[t] = answer
      /\ \A u \in Threads : u # t => result'[u] = result[u] /\ out'[u] = out[u]
  BY Zenon DEF TypeOK, OutInv
<1>2. TypeOK'
  BY DEF TypeOK, set_last_error
<1>3. CallInv'
  BY <1>1, Zenon DEF CallInv, InEngine
<1>4. OutInv'
  <2>1. out' = [u \in Threads |-> out'[u]]
    BY Zenon DEF OutInv
  <2>2. QED
    BY <1>1, <2>1, Zenon DEF OutInv
<1>5. /\ res = "Storage" => lastError'[t] \in {"engine", "cstring"}
      /\ \A u \in Threads : u # t => lastError'[u] = lastError[u]
  BY Zenon DEF TypeOK, set_last_error
<1>6. ErrorReported'
  BY <1>1, <1>5, Zenon DEF ErrorReported
<1>7. QED
  BY <1>2, <1>3, <1>4, <1>6, Zenon

\* The steps in the engine.
EngineStep(t) ==
    \/ EngineWrite(t) \/ EngineMaintain(t) \/ EngineGet(t) \/ EngineExists(t)
    \/ EngineScan(t) \/ NoCString(t) \/ EngineError(t)

\* What a call in the engine finds.
LEMMA InEngineFacts ==
  ASSUME IInv, NEW t \in Threads, InEngine(t)
  PROVE  /\ call[t] \in Calls /\ out[t] = NoReply /\ result[t] = "None"
         /\ store \in [Names -> Values \cup {Absent}]
         /\ Kind(call[t].op) \notin {"write", "maintain"} => call[t].keys[1] \in Names
<1>1. call[t] \in Calls /\ Formed(call[t]) /\ out[t] = NoReply /\ result[t] = "None"
  BY DEF IInv, TypeOK, CallInv, OutInv, InEngine
<1>2. Kind(call[t].op) \notin {"write", "maintain"} => call[t].keys[1] \in Names
  BY <1>1 DEF Formed, Calls
<1>3. QED
  BY <1>1, <1>2, Zenon DEF IInv, TypeOK

\* The answers of the engine's reads.
LEMMA ReadAnswers ==
  ASSUME IInv, NEW t \in Threads, InEngine(t)
  PROVE  /\ EngineGet(t) => \E answer :
               answer # NoReply /\ (Finish(t, "Success", answer) \/ Finish(t, "NotFound", answer))
         /\ EngineScan(t) => \E answer : answer # NoReply /\ Finish(t, "Success", answer)
<1> DEFINE k == call[t].keys[1]
<1>1. /\ store \in [Names -> Values \cup {Absent}]
      /\ Kind(call[t].op) \notin {"write", "maintain"} => k \in Names
  BY InEngineFacts, Zenon
<1>2. ASSUME EngineGet(t)
      PROVE  \E answer :
               answer # NoReply /\ (Finish(t, "Success", answer) \/ Finish(t, "NotFound", answer))
  <2>1. store[k] \in Values \cup {Absent}
    BY <1>1, <1>2, Zenon DEF EngineGet
  <2>2. CASE store[k] = Absent
    BY <1>2, <2>2, NothingAssumption, Zenon DEF EngineGet
  <2>3. CASE store[k] # Absent
    <3>1. value_to_bytes(store[k]) # NoReply /\ value_to_string(store[k]) # NoReply
      BY <2>1, <2>3, NothingAssumption, Zenon DEF value_to_bytes, Contents
    <3>2. QED
      BY <1>2, <2>3, <3>1, Zenon DEF EngineGet
  <2>4. QED
    BY <2>2, <2>3, Zenon
<1>3. ASSUME EngineScan(t)
      PROVE  \E answer : answer # NoReply /\ Finish(t, "Success", answer)
  <2> DEFINE found == Matching(k)
             pairs == {<<n, value_to_bytes(store[n])>> : n \in found}
  <2>1. found \in SUBSET Names
    BY Zenon DEF Matching
  <2>2. pairs \in SUBSET (Names \X Contents)
    <3>1. \A n \in found : n \in Names /\ value_to_bytes(store[n]) \in Contents
      BY <1>1, Zenon DEF Matching, value_to_bytes, Contents
    <3>2. QED
      BY <3>1
  <2>3. found # NoReply /\ pairs # NoReply
    BY <2>1, <2>2, NothingAssumption, Zenon
  <2>4. Finish(t, "Success", found) \/ Finish(t, "Success", pairs)
    BY <1>3, Zenon DEF EngineScan
  <2>5. QED
    BY <2>3, <2>4, Zenon
<1>4. QED
  BY <1>2, <1>3, Zenon

LEMMA EngineStepIInv ==
  ASSUME IInv, NEW t \in Threads, EngineStep(t)
  PROVE  IInv'
<1>1. InEngine(t)
  BY Zenon DEF EngineStep, EngineWrite, EngineMaintain, EngineGet, EngineExists, EngineScan,
     NoCString, EngineError
<1>2. store \in [Names -> Values \cup {Absent}] /\ out[t] = NoReply
  BY <1>1, InEngineFacts, Zenon
<1>3. ASSUME store' \in [Names -> Values \cup {Absent}], NEW answer, answer # NoReply,
             Finish(t, "Success", answer) \/ Finish(t, "NotFound", answer)
      PROVE  IInv'
  BY <1>1, <1>3, EngineIInv, ZenonT(60) DEF Finish
<1>4. CASE EngineWrite(t)
  <2>1. store' \in [Names -> Values \cup {Absent}]
    BY <1>1, <1>4, AppliedType, ZenonT(60) DEF EngineWrite
  <2>2. Finish(t, "Success", Done) /\ Done # NoReply
    BY <1>4, NothingAssumption, Zenon DEF EngineWrite
  <2>3. QED
    BY <1>3, <2>1, <2>2, Zenon
<1>5. CASE EngineMaintain(t)
  <2>1. UNCHANGED store /\ Finish(t, "Success", Done) /\ Done # NoReply
    BY <1>5, NothingAssumption, Zenon DEF EngineMaintain
  <2>2. QED
    BY <1>2, <1>3, <2>1, Zenon
<1>6. CASE EngineExists(t)
  <2>1. \E b \in BOOLEAN : UNCHANGED store /\ Finish(t, "Success", b) /\ b # NoReply
    BY <1>6, NothingAssumption, ZenonT(60) DEF EngineExists
  <2>2. QED
    BY <1>2, <1>3, <2>1, Zenon
<1>7. CASE EngineGet(t)
  <2>1. UNCHANGED store
    BY <1>7, Zenon DEF EngineGet
  <2>2. QED
    BY <1>1, <1>2, <1>3, <1>7, <2>1, ReadAnswers, Zenon
<1>8. CASE EngineScan(t)
  <2>1. UNCHANGED store
    BY <1>8, Zenon DEF EngineScan
  <2>2. QED
    BY <1>1, <1>2, <1>3, <1>8, <2>1, ReadAnswers, Zenon
<1>9. ASSUME store' \in [Names -> Values \cup {Absent}], UNCHANGED <<call, out>>,
             result' = [result EXCEPT ![t] = "Storage"],
             NEW why \in {"engine", "cstring"}, set_last_error(t, why)
      PROVE  IInv'
  <2>1. out' = [out EXCEPT ![t] = NoReply]
    BY <1>2, <1>9, Zenon DEF IInv, OutInv
  <2>2. QED
    BY <1>1, <1>9, <2>1, EngineIInv, ZenonT(60)
<1>10. CASE NoCString(t)
  BY <1>2, <1>9, <1>10, Zenon DEF NoCString
<1>11. CASE EngineError(t)
  <2>1. store' \in [Names -> Values \cup {Absent}]
    BY <1>1, <1>2, <1>11, AppliedType, ZenonT(60) DEF EngineError
  <2>2. QED
    BY <1>9, <1>11, <2>1, Zenon DEF EngineError
<1>12. QED
  BY <1>4, <1>5, <1>6, <1>7, <1>8, <1>10, <1>11, Zenon DEF EngineStep

LEMMA ReturnIInv ==
  ASSUME IInv, NEW t \in Threads, Return(t)
  PROVE  IInv'
<1> USE DEF IInv
<1>1. /\ call'[t] = NoRequest /\ result'[t] = "None" /\ out'[t] = NoReply
      /\ \A u \in Threads : u # t => /\ call'[u] = call[u] /\ result'[u] = result[u]
                                     /\ lastError'[u] = lastError[u] /\ out'[u] = out[u]
  BY Zenon DEF Return, TypeOK, OutInv
<1>2. TypeOK'
  BY <1>1, Zenon DEF Return, TypeOK
<1>3. CallInv' /\ ErrorReported'
  BY <1>1, Zenon DEF CallInv, ErrorReported, InEngine
<1>4. OutInv'
  <2>1. out' = [u \in Threads |-> out'[u]]
    BY Zenon DEF OutInv, Return
  <2>2. QED
    BY <1>1, <2>1, Zenon DEF OutInv
<1>5. QED
  BY <1>2, <1>3, <1>4, Zenon

LEMMA GetLastErrorIInv ==
  ASSUME IInv, NEW t \in Threads, f4kvs_get_last_error(t)
  PROVE  IInv'
<1>1. TypeOK'
  BY Zenon DEF IInv, TypeOK, f4kvs_get_last_error
<1>2. QED
  BY <1>1, Zenon DEF IInv, f4kvs_get_last_error, CallInv, InEngine, OutInv, ErrorReported

LEMMA NextCases ==
  ASSUME Next
  PROVE  \E t \in Threads : Begins(t) \/ EngineStep(t) \/ Return(t) \/ f4kvs_get_last_error(t)
  BY SingleBegins, BatchBegins, MaintenanceBegins, Zenon DEF Next, Goes, EngineStep

LEMMA NextIInv ==
  ASSUME IInv, [Next]_vars
  PROVE  IInv'
<1>1. CASE Next
  BY <1>1, NextCases, BeginsIInv, EngineStepIInv, ReturnIInv, GetLastErrorIInv, Zenon
<1>2. CASE UNCHANGED vars
  BY <1>2, Zenon DEF IInv, vars, TypeOK, CallInv, InEngine, OutInv, ErrorReported
<1>3. QED
  BY <1>1, <1>2, Zenon

LEMMA InitIInv == Init => IInv
  BY DEF Init, IInv, TypeOK, CallInv, InEngine, OutInv, ErrorReported

-----------------------------------------------------------------------------
(* The theorems.                                                           *)

\* The inductive invariant of the data calls holds in every reachable state.
THEOREM CallDiscipline == Spec => []IInv
  BY InitIInv, NextIInv, PTL DEF Spec

\* Only checked keys and values reach the engine, no more of them than
\* reject_batch_count lets through, and result codes and messages are in range.
THEOREM TypeCorrect == Spec => []TypeOK
<1>1. IInv => TypeOK
  BY Zenon DEF IInv
<1>2. QED
  BY <1>1, CallDiscipline, PTL

\* A thread whose call failed finds that call's message in LAST_ERROR,
\* whatever other threads do: set_last_error on every error path.
THEOREM FailuresAreReported == Spec => []ErrorReported
<1>1. IInv => ErrorReported
  BY Zenon DEF IInv
<1>2. QED
  BY <1>1, CallDiscipline, PTL

\* What f4kvs_engine_put stores is text that f4kvs_engine_get can return.
THEOREM StoredStringsAreText == Spec => []StringsAreText
<1>1. IInv => StringsAreText
  BY ValuesAreText, Zenon DEF IInv, TypeOK, StringsAreText
<1>2. QED
  BY <1>1, CallDiscipline, PTL

\* Only a failing call of the same thread invalidates the pointer that
\* f4kvs_get_last_error returned.
THEOREM MessagesOutliveCalls == Spec => MessageOutlives
<1> DEFINE Outlives == \A t \in Threads : message[t] = "live" /\ message'[t] = "dangling" =>
               result[t] = "None" /\ result'[t] \in {"InvalidArgument", "Storage"}
<1>1. IInv /\ Next => Outlives
  <2> SUFFICES ASSUME IInv, Next, NEW u \in Threads,
                      message[u] = "live", message'[u] = "dangling"
               PROVE  result[u] = "None" /\ result'[u] \in {"InvalidArgument", "Storage"}
    BY Zenon
  <2>1. PICK t \in Threads :
          Begins(t) \/ EngineStep(t) \/ Return(t) \/ f4kvs_get_last_error(t)
    BY NextCases, Zenon
  <2>2. CASE Begins(t)
    <3>1. PICK op \in Ops, why \in {"argument", "count"} : Refuse(t, op, why)
      BY <2>2, Zenon DEF Begins, Accept
    <3>2. QED
      BY <3>1, Zenon DEF Refuse, set_last_error, IInv, TypeOK, CallInv
  <2>3. CASE EngineStep(t)
    <3>1. NoCString(t) \/ EngineError(t)
      BY <2>3, Zenon DEF EngineStep, EngineWrite, EngineMaintain, EngineGet, EngineExists,
         EngineScan, Finish
    <3>2. QED
      BY <3>1, Zenon DEF NoCString, EngineError, InEngine, set_last_error, IInv, TypeOK
  <2>4. CASE Return(t) \/ f4kvs_get_last_error(t)
    BY <2>4, Zenon DEF Return, f4kvs_get_last_error, IInv, TypeOK
  <2>5. QED
    BY <2>1, <2>2, <2>3, <2>4, Zenon
<1>2. IInv /\ [Next]_vars => [Outlives]_vars
  BY <1>1, Zenon
<1>3. QED
  BY <1>2, CallDiscipline, PTL DEF Spec, MessageOutlives

-----------------------------------------------------------------------------
(* The refinement of AtomicMap.  A call that passes its checks invokes a   *)
(* request, its step in the engine takes effect or fails, and its return   *)
(* responds; a refused call is no step of the map.                         *)

\* A step of one thread changes no request or reply of another.
LEMMA OthersKeep ==
  ASSUME NEW t \in Threads,
         \A u \in Threads : u # t => /\ call'[u] = call[u] /\ result'[u] = result[u]
                                     /\ out'[u] = out[u]
  PROVE  /\ [u \in Threads |-> Request(u)]'
               = [[u \in Threads |-> Request(u)] EXCEPT ![t] = Request(t)']
         /\ [u \in Threads |-> Reply(u)]'
               = [[u \in Threads |-> Reply(u)] EXCEPT ![t] = Reply(t)']
<1>1. \A u \in Threads : u # t => Request(u)' = Request(u) /\ Reply(u)' = Reply(u)
  BY Zenon DEF Request, Reply
<1>2. QED
  BY <1>1, ZenonT(60)

\* A call that has been accepted is a request of the map.
LEMMA AcceptedIsRequest ==
  ASSUME NEW c \in Calls
  PROVE  [kind |-> Kind(c.op), keys |-> c.keys,
          data |-> [i \in DOMAIN c.vals |-> value_to_bytes(c.vals[i])]] # NoRequest
<1> DEFINE data == [i \in DOMAIN c.vals |-> value_to_bytes(c.vals[i])]
<1>1. c.keys \in Seq(Names) /\ c.vals \in Seq(Values \cup {Absent}) /\ Kind(c.op) \in Kinds
  BY Zenon DEF Calls, Kind, Kinds
<1>2. Len(c.vals) \in Nat /\ DOMAIN c.vals = 1 .. Len(c.vals)
  BY <1>1
<1>3. data \in [1 .. Len(c.vals) -> Contents \cup {Absent}]
  BY <1>1, <1>2 DEF value_to_bytes, Contents
<1>4. data \in Seq(Contents \cup {Absent})
  BY <1>2, <1>3
<1>5. [kind |-> Kind(c.op), keys |-> c.keys, data |-> data] # NoRequest
  <2> HIDE DEF data
  <2>1. QED
    BY <1>1, <1>4, NothingAssumption DEF Requests
<1>6. QED
  BY <1>5, Zenon

LEMMA AcceptInvokes ==
  ASSUME IInv, NEW t \in Threads, Accept(t)
  PROVE  Map!Invoke(t)
<1>1. PICK c \in Calls : call' = [call EXCEPT ![t] = c]
  BY ZenonT(60) DEF Accept
<1>2. call[t] = NoRequest /\ UNCHANGED <<store, result, out>> /\ result[t] = "None"
  BY Zenon DEF Accept, IInv, CallInv
<1>3. call'[t] = c /\ \A u \in Threads : u # t => call'[u] = call[u]
  BY <1>1, Zenon DEF IInv, TypeOK
<1>4. Request(t) = NoRequest /\ Request(t)' # NoRequest
  BY <1>2, <1>3, AcceptedIsRequest, NothingAssumption, Zenon DEF Request
<1>5. UNCHANGED [u \in Threads |-> Reply(u)] /\ UNCHANGED [n \in Names |-> value_to_bytes(store[n])]
  BY <1>2, Zenon DEF Reply
<1>6. QED
  BY <1>2, <1>3, <1>4, <1>5, OthersKeep, ZenonT(60) DEF Map!Invoke

\* What the map sees of a call that is in the engine.
LEMMA PendingRequest ==
  ASSUME IInv, NEW t \in Threads, InEngine(t)
  PROVE  /\ Request(t) = [kind |-> Kind(call[t].op), keys |-> call[t].keys,
                          data |-> [i \in DOMAIN call[t].vals |-> value_to_bytes(call[t].vals[i])]]
         /\ Request(t) # NoRequest /\ Reply(t) = NoReply
<1>1. call[t] \in Calls /\ out[t] = NoReply /\ result[t] = "None"
  BY InEngineFacts, Zenon
<1>2. call[t] # NoRequest
  BY Zenon DEF InEngine
<1>3. QED
  BY <1>1, <1>2, AcceptedIsRequest, Zenon DEF Request, Reply

\* A step in the engine keeps the requests, and gives one reply.
LEMMA EngineReplies ==
  ASSUME IInv, NEW t \in Threads, InEngine(t), UNCHANGED call,
         NEW res \in {"Success", "NotFound", "Storage"}, NEW answer,
         result' = [result EXCEPT ![t] = res],
         out' = [out EXCEPT ![t] = answer]
  PROVE  /\ UNCHANGED [u \in Threads |-> Request(u)]
         /\ [u \in Threads |-> Reply(u)]'
               = [[u \in Threads |-> Reply(u)] EXCEPT ![t] = Reply(t)']
         /\ Reply(t)' = IF res = "Storage" THEN Failed ELSE answer
<1>1. /\ result'[t] = res /\ out'[t] = answer
      /\ \A u \in Threads : u # t => result'[u] = result[u] /\ out'[u] = out[u]
  BY Zenon DEF IInv, TypeOK, OutInv
<1>2. result[t] = "None"
  BY Zenon DEF InEngine
<1>3. \A u \in Threads : Request(u)' = Request(u)
  BY <1>1, <1>2, Zenon DEF Request
<1>4. Reply(t)' = IF res = "Storage" THEN Failed ELSE answer
  BY <1>1, Zenon DEF Reply
<1>5. QED
  BY <1>1, <1>3, <1>4, OthersKeep, ZenonT(60)

\* Applying a part of a write to the engine applies it to the map.
LEMMA AppliedIsWritten ==
  ASSUME IInv, NEW t \in Threads, InEngine(t), Kind(call[t].op) = "write",
         NEW places \in SUBSET DOMAIN call[t].keys,
         store' = Applied(call[t], places)
  PROVE  [n \in Names |-> value_to_bytes(store[n])]'
            = Map!Written([n \in Names |-> value_to_bytes(store[n])], Request(t), places)
<1> DEFINE c == call[t]
           r == Request(t)
           m == [n \in Names |-> value_to_bytes(store[n])]
<1>1. c \in Calls /\ DOMAIN c.vals = DOMAIN c.keys
  BY Zenon DEF IInv, TypeOK, CallInv, InEngine, Formed
<1>2. r.keys = c.keys /\ r.data = [i \in DOMAIN c.vals |-> value_to_bytes(c.vals[i])]
  BY PendingRequest
<1>3. ASSUME NEW n \in Names
      PROVE  value_to_bytes(store'[n]) = Map!Written(m, r, places)[n]
  <2> DEFINE at == {i \in places : c.keys[i] = n}
             last == CHOOSE i \in at : \A j \in at : j <= i
  <2>1. store'[n] = IF at = {} THEN store[n] ELSE c.vals[last]
    BY Zenon DEF Applied
  <2>2. Map!Written(m, r, places)[n] = IF at = {} THEN value_to_bytes(store[n]) ELSE r.data[last]
    BY <1>2 DEF Map!Written
  <2>3. at # {} => last \in DOMAIN c.vals
    <3>1. ASSUME at # {}
          PROVE  last \in places
      BY <1>1, <3>1, LastPlace, ZenonT(60)
    <3>2. QED
      BY <1>1, <3>1, Zenon
  <2>4. at # {} => r.data[last] = value_to_bytes(c.vals[last])
    <3> HIDE DEF last
    <3>1. QED
      BY <1>2, <2>3, Zenon
  <2>5. QED
    BY <2>1, <2>2, <2>4, Zenon
<1>4. QED
  BY <1>3, ZenonT(60) DEF Map!Written

LEMMA WriteTakesEffect ==
  ASSUME IInv, NEW t \in Threads, EngineWrite(t)
  PROVE  Map!TakeEffect(t)
<1>1. InEngine(t) /\ Kind(call[t].op) = "write" /\ Finish(t, "Success", Done)
      /\ store' = Applied(call[t], DOMAIN call[t].keys)
  BY Zenon DEF EngineWrite
<1>2. /\ Request(t).kind = "write" /\ Request(t).keys = call[t].keys
      /\ Request(t) # NoRequest /\ Reply(t) = NoReply
  BY <1>1, PendingRequest
<1>3. /\ UNCHANGED [u \in Threads |-> Request(u)]
      /\ [u \in Threads |-> Reply(u)]' = [[u \in Threads |-> Reply(u)] EXCEPT ![t] = Reply(t)']
      /\ Reply(t)' = Done
  BY <1>1, EngineReplies, ZenonT(60) DEF Finish
<1>4. [n \in Names |-> value_to_bytes(store[n])]'
         = Map!Written([n \in Names |-> value_to_bytes(store[n])], Request(t), DOMAIN call[t].keys)
  BY <1>1, AppliedIsWritten, Zenon
<1>5. QED
  BY <1>2, <1>3, <1>4, NothingAssumption, Zenon DEF Map!TakeEffect, Map!Answer

\* A call that only reads takes effect if its reply is the map's answer.
LEMMA ReadTakesEffect ==
  ASSUME IInv, NEW t \in Threads, InEngine(t), Kind(call[t].op) # "write", UNCHANGED store,
         NEW res \in {"Success", "NotFound"}, NEW answer, Finish(t, res, answer),
         answer # NoReply,
         \/ Kind(call[t].op) = "text" /\ ~PlainText(value_to_bytes(store[call[t].keys[1]]))
         \/ answer = Map!Answer(Request(t))
  PROVE  Map!TakeEffect(t)
<1>1. /\ Request(t).kind = Kind(call[t].op) /\ Request(t).keys = call[t].keys
      /\ Request(t) # NoRequest /\ Reply(t) = NoReply
  BY PendingRequest
<1>2. /\ UNCHANGED [u \in Threads |-> Request(u)]
      /\ [u \in Threads |-> Reply(u)]' = [[u \in Threads |-> Reply(u)] EXCEPT ![t] = Reply(t)']
      /\ Reply(t)' = answer
  BY EngineReplies, ZenonT(60) DEF Finish
<1>3. UNCHANGED [n \in Names |-> value_to_bytes(store[n])]
  BY Zenon
<1>4. Kind(call[t].op) = "text" =>
         [n \in Names |-> value_to_bytes(store[n])][call[t].keys[1]]
            = value_to_bytes(store[call[t].keys[1]])
  BY InEngineFacts, Zenon
<1>5. QED
  BY <1>1, <1>2, <1>3, <1>4, Zenon DEF Map!TakeEffect

\* What the map answers: the engine's answer, seen as bytes.
LEMMA Answers ==
  ASSUME IInv, NEW t \in Threads, InEngine(t)
  PROVE  LET k == call[t].keys[1]
             kind == Kind(call[t].op)
         IN  /\ kind = "maintain" => Map!Answer(Request(t)) = Done
             /\ kind \in {"read", "text"} => Map!Answer(Request(t)) = value_to_bytes(store[k])
             /\ kind = "exists" => Map!Answer(Request(t)) = (store[k] # Absent)
             /\ kind = "keys" => Map!Answer(Request(t)) = Matching(k)
             /\ kind = "pairs" => Map!Answer(Request(t))
                                     = {<<n, value_to_bytes(store[n])>> : n \in Matching(k)}
<1> DEFINE k == call[t].keys[1]
           kind == Kind(call[t].op)
           m == [n \in Names |-> value_to_bytes(store[n])]
<1>1. /\ Request(t).kind = kind /\ Request(t).keys[1] = k
      /\ store \in [Names -> Values \cup {Absent}]
      /\ kind \notin {"write", "maintain"} => k \in Names
  BY PendingRequest, InEngineFacts, SMTT(60)
<1>2. \A n \in Names : m[n] = value_to_bytes(store[n]) /\ (m[n] = Absent <=> store[n] = Absent)
  BY <1>1, NothingAssumption, Zenon DEF value_to_bytes, Contents
<1>3. Map!Under(m, k) = Matching(k)
  BY <1>2, Zenon DEF Map!Under, Matching
<1>4. {<<n, m[n]>> : n \in Matching(k)} = {<<n, value_to_bytes(store[n])>> : n \in Matching(k)}
  BY <1>2, Zenon DEF Matching
<1> HIDE DEF k, kind
<1>5. /\ kind = "maintain" => Map!Answer(Request(t)) = Done
      /\ kind \in {"read", "text"} => Map!Answer(Request(t)) = m[k]
      /\ kind = "exists" => Map!Answer(Request(t)) = (m[k] # Absent)
      /\ kind = "keys" => Map!Answer(Request(t)) = Map!Under(m, k)
      /\ kind = "pairs" => Map!Answer(Request(t)) = {<<n, m[n]>> : n \in Map!Under(m, k)}
  BY <1>1, Zenon DEF Map!Answer
<1>6. QED
  BY <1>1, <1>2, <1>3, <1>4, <1>5, Zenon DEF k, kind

\* A text read returns plain bytes as they are.
LEMMA PlainIsUnchanged ==
  ASSUME NEW v \in Values, PlainText(v.data), v.data # Absent
  PROVE  value_to_string(v) = v.data
<1>1. CASE v.type = "String"
  BY <1>1, Zenon DEF value_to_string
<1>2. CASE v.type # "String"
  <2>1. v.data \in Bytes
    BY <1>2, ValuesAreBytes, Zenon
  <2>2. v.data = [i \in DOMAIN v.data |-> v.data[i]]
    <3>1. ASSUME NEW S, NEW s \in Seq(S)
          PROVE  s = [i \in DOMAIN s |-> s[i]]
      <4>1. Len(s) \in Nat /\ s \in [1 .. Len(s) -> S]
        OBVIOUS
      <4>2. QED
        BY <4>1, Zenon
    <3>2. QED
      BY <2>1, <3>1, ZenonT(60)
  <2>3. \A i \in DOMAIN v.data : v.data[i] # NotUtf8
    BY Zenon DEF PlainText, Holds
  <2>4. QED
    BY <1>2, <2>2, <2>3, Zenon DEF value_to_string
<1>3. QED
  BY <1>1, <1>2, Zenon

LEMMA GetTakesEffect ==
  ASSUME IInv, NEW t \in Threads, EngineGet(t)
  PROVE  Map!TakeEffect(t)
<1> DEFINE k == call[t].keys[1]
           kind == Kind(call[t].op)
<1>1. InEngine(t) /\ kind \in {"read", "text"} /\ UNCHANGED store
  BY Zenon DEF EngineGet
<1>2. Map!Answer(Request(t)) = value_to_bytes(store[k]) /\ store[k] \in Values \cup {Absent}
  BY <1>1, Answers, InEngineFacts, Zenon
<1>3. CASE store[k] = Absent
  <2>1. Finish(t, "NotFound", Absent) /\ Absent # NoReply
    BY <1>3, NothingAssumption, Zenon DEF EngineGet
  <2>2. value_to_bytes(store[k]) = Absent
    BY <1>3, Zenon DEF value_to_bytes
  <2>3. QED
    BY <1>1, <1>2, <2>1, <2>2, ReadTakesEffect, Zenon
<1>4. CASE store[k] # Absent /\ kind = "read"
  <2>1. Finish(t, "Success", value_to_bytes(store[k]))
    BY <1>4, Zenon DEF EngineGet
  <2>2. value_to_bytes(store[k]) # NoReply
    BY <1>2, <1>4, NothingAssumption, Zenon DEF value_to_bytes, Contents
  <2>3. QED
    BY <1>1, <1>2, <2>1, <2>2, ReadTakesEffect, Zenon
<1>5. CASE store[k] # Absent /\ kind = "text"
  <2>1. Finish(t, "Success", value_to_string(store[k]))
    BY <1>5, Zenon DEF EngineGet
  <2>2. value_to_string(store[k]) # NoReply
    BY <1>2, <1>5, NothingAssumption, Zenon
  <2>3. PlainText(value_to_bytes(store[k])) => value_to_string(store[k]) = value_to_bytes(store[k])
    BY <1>2, <1>5, PlainIsUnchanged, NothingAssumption, Zenon DEF value_to_bytes, Contents
  <2>4. QED
    BY <1>1, <1>2, <1>5, <2>1, <2>2, <2>3, ReadTakesEffect, Zenon
<1>6. QED
  BY <1>1, <1>3, <1>4, <1>5, Zenon

LEMMA ScanTakesEffect ==
  ASSUME IInv, NEW t \in Threads, EngineScan(t)
  PROVE  Map!TakeEffect(t)
<1> DEFINE k == call[t].keys[1]
           kind == Kind(call[t].op)
           pairs == {<<n, value_to_bytes(store[n])>> : n \in Matching(k)}
<1>1. InEngine(t) /\ kind \in {"pairs", "keys"} /\ UNCHANGED store
  BY Zenon DEF EngineScan
<1>2. /\ kind = "keys" => Map!Answer(Request(t)) = Matching(k)
      /\ kind = "pairs" => Map!Answer(Request(t)) = pairs
  BY <1>1, Answers, Zenon
<1>3. Finish(t, "Success", Map!Answer(Request(t)))
  BY <1>1, <1>2, ZenonT(60) DEF EngineScan
<1>4. Map!Answer(Request(t)) # NoReply
  <2>1. PICK answer : answer # NoReply /\ Finish(t, "Success", answer)
    BY <1>1, ReadAnswers, Zenon
  <2>2. out'[t] = answer /\ out'[t] = Map!Answer(Request(t))
    BY <1>3, <2>1, Zenon DEF Finish, IInv, OutInv
  <2>3. QED
    BY <2>1, <2>2, Zenon
<1>5. QED
  BY <1>1, <1>3, <1>4, ReadTakesEffect, Zenon

LEMMA EngineStepRefines ==
  ASSUME IInv, NEW t \in Threads, EngineStep(t)
  PROVE  Map!TakeEffect(t) \/ Map!Fail(t)
<1>1. CASE EngineWrite(t)
  BY <1>1, WriteTakesEffect, Zenon
<1>2. CASE EngineMaintain(t)
  <2>1. /\ InEngine(t) /\ Kind(call[t].op) = "maintain" /\ UNCHANGED store
        /\ Finish(t, "Success", Done) /\ Done # NoReply
    BY <1>2, NothingAssumption, Zenon DEF EngineMaintain
  <2>2. QED
    BY <2>1, Answers, ReadTakesEffect, Zenon
<1>3. CASE EngineExists(t)
  <2>1. /\ InEngine(t) /\ Kind(call[t].op) = "exists" /\ UNCHANGED store
        /\ Finish(t, "Success", store[call[t].keys[1]] # Absent)
    BY <1>3, Zenon DEF EngineExists
  <2>2. Map!Answer(Request(t)) = (store[call[t].keys[1]] # Absent)
    BY <2>1, Answers, Zenon
  <2>3. Map!Answer(Request(t)) # NoReply
    BY <2>2, NothingAssumption, ZenonT(60)
  <2>4. QED
    BY <2>1, <2>2, <2>3, ReadTakesEffect, Zenon
<1>4. CASE EngineGet(t)
  BY <1>4, GetTakesEffect, Zenon
<1>5. CASE EngineScan(t)
  BY <1>5, ScanTakesEffect, Zenon
<1>6. ASSUME InEngine(t), UNCHANGED <<call, out>>, result' = [result EXCEPT ![t] = "Storage"],
             IF Kind(call[t].op) = "write"
             THEN \E places \in SUBSET DOMAIN call[t].keys : store' = Applied(call[t], places)
             ELSE UNCHANGED store
      PROVE  Map!Fail(t)
  <2>1. /\ Request(t).kind = Kind(call[t].op) /\ Request(t).keys = call[t].keys
        /\ Request(t) # NoRequest /\ Reply(t) = NoReply
    BY <1>6, PendingRequest
  <2>2. out' = [out EXCEPT ![t] = NoReply]
    BY <1>6, InEngineFacts, Zenon DEF IInv, OutInv
  <2>3. /\ UNCHANGED [u \in Threads |-> Request(u)]
        /\ [u \in Threads |-> Reply(u)]' = [[u \in Threads |-> Reply(u)] EXCEPT ![t] = Failed]
    BY <1>6, <2>2, EngineReplies, Zenon
  <2>4. CASE Kind(call[t].op) = "write"
    <3>1. \E places \in SUBSET DOMAIN call[t].keys :
            [n \in Names |-> value_to_bytes(store[n])]'
               = Map!Written([n \in Names |-> value_to_bytes(store[n])], Request(t), places)
      BY <1>6, <2>4, AppliedIsWritten, ZenonT(60)
    <3>2. QED
      BY <2>1, <2>3, <2>4, <3>1, ZenonT(60) DEF Map!Fail
  <2>5. CASE Kind(call[t].op) # "write"
    <3>1. UNCHANGED [n \in Names |-> value_to_bytes(store[n])]
      BY <1>6, <2>5, Zenon
    <3>2. QED
      BY <2>1, <2>3, <2>5, <3>1, Zenon DEF Map!Fail
  <2>6. QED
    BY <2>4, <2>5, Zenon
<1>7. CASE NoCString(t)
  BY <1>6, <1>7, Zenon DEF NoCString
<1>8. CASE EngineError(t)
  BY <1>6, <1>8, Zenon DEF EngineError
<1>9. QED
  BY <1>1, <1>2, <1>3, <1>4, <1>5, <1>7, <1>8, Zenon DEF EngineStep

\* A refused call is no step of the map.
LEMMA RefuseStutters ==
  ASSUME IInv, NEW t \in Threads, NEW op \in Ops, NEW why, Refuse(t, op, why)
  PROVE  UNCHANGED Map!avars
<1>1. /\ call[t] = NoRequest /\ result[t] = "None" /\ result'[t] = "InvalidArgument"
      /\ \A u \in Threads : u # t => call'[u] = call[u] /\ result'[u] = result[u]
      /\ UNCHANGED <<store, out>>
  BY Zenon DEF Refuse, IInv, TypeOK, CallInv
<1>2. \A u \in Threads : Request(u)' = Request(u) /\ Reply(u)' = Reply(u)
  BY <1>1, Zenon DEF Request, Reply
<1>3. QED
  BY <1>1, <1>2, Zenon DEF Map!avars

\* The return of a refused call is none either.
LEMMA ReturnRefines ==
  ASSUME IInv, NEW t \in Threads, Return(t)
  PROVE  Map!Respond(t) \/ UNCHANGED Map!avars
<1>1. /\ call'[t] = NoRequest /\ result'[t] = "None" /\ out'[t] = NoReply
      /\ \A u \in Threads : u # t => /\ call'[u] = call[u] /\ result'[u] = result[u]
                                     /\ out'[u] = out[u]
      /\ UNCHANGED store /\ result[t] # "None"
  BY Zenon DEF Return, IInv, TypeOK, OutInv
<1>2. Request(t)' = NoRequest /\ Reply(t)' = NoReply
  BY <1>1, Zenon DEF Request, Reply
<1>3. UNCHANGED [n \in Names |-> value_to_bytes(store[n])]
  BY <1>1, Zenon
<1>4. CASE result[t] = "InvalidArgument"
  <2>1. Request(t) = NoRequest /\ Reply(t) = NoReply
    BY <1>4, Zenon DEF Request, Reply, IInv, OutInv
  <2>2. \A u \in Threads : Request(u)' = Request(u) /\ Reply(u)' = Reply(u)
    BY <1>1, <1>2, <2>1, Zenon DEF Request, Reply
  <2>3. QED
    BY <1>3, <2>2, Zenon DEF Map!avars
<1>5. CASE result[t] # "InvalidArgument"
  <2>1. Reply(t) # NoReply
    BY <1>1, <1>5, NothingAssumption, Zenon DEF Reply, IInv, TypeOK, OutInv
  <2>2. QED
    BY <1>1, <1>2, <1>3, <2>1, OthersKeep, ZenonT(60) DEF Map!Respond
<1>6. QED
  BY <1>4, <1>5, Zenon

\* The data calls of all threads implement one map of bytes (ImplementsMap):
\* each accepted call takes effect at one instant, in its engine call, with
\* the answer that is right there, and a refused one has no effect at all.
THEOREM CallsImplementMap == Spec => ImplementsMap
<1>1. Init => Map!AInit
  BY DEF Init, Map!AInit, Request, Reply, value_to_bytes
<1>2. IInv /\ [Next]_vars => [Map!ANext]_(Map!avars)
  <2> SUFFICES ASSUME IInv, [Next]_vars
               PROVE  Map!ANext \/ UNCHANGED Map!avars
    BY Zenon
  <2>1. CASE UNCHANGED vars
    BY <2>1, Zenon DEF vars, Map!avars, Request, Reply
  <2>2. ASSUME NEW t \in Threads,
               Begins(t) \/ EngineStep(t) \/ Return(t) \/ f4kvs_get_last_error(t)
        PROVE  Map!ANext \/ UNCHANGED Map!avars
    <3>1. CASE Begins(t)
      BY <3>1, AcceptInvokes, RefuseStutters, Zenon DEF Begins, Map!ANext
    <3>2. CASE EngineStep(t)
      BY <3>2, EngineStepRefines, Zenon DEF Map!ANext
    <3>3. CASE Return(t)
      BY <3>3, ReturnRefines, Zenon DEF Map!ANext
    <3>4. CASE f4kvs_get_last_error(t)
      BY <3>4, Zenon DEF f4kvs_get_last_error, Map!avars, Request, Reply
    <3>5. QED
      BY <2>2, <3>1, <3>2, <3>3, <3>4, Zenon
  <2>3. QED
    BY <2>1, <2>2, NextCases, Zenon
<1>3. QED
  BY <1>1, <1>2, CallDiscipline, PTL DEF Spec, ImplementsMap, Map!ASpec
=============================================================================
