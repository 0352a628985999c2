------------------------------ MODULE FfiAlloc ------------------------------
(***************************************************************************)
(* Memory that crosses the C ABI (crates/f4kvs-ffi/src/lib.rs).            *)
(*                                                                         *)
(* Every string, byte buffer and result array a read or scan call returns  *)
(* is a Rust heap object whose ownership passes to the client.  Strings    *)
(* and buffers are recorded by address in two process-wide registries, and *)
(* f4kvs_string_free / f4kvs_bytes_free consult them before deallocating.  *)
(* Each registry operation takes a mutex of its own, so a call is a        *)
(* sequence of steps that other threads may interleave with.               *)
(*                                                                         *)
(* A slot is one out-variable of the client (char*, F4KvsScanResult, ...). *)
(* The pointers of one result form a set: the order in which a result's    *)
(* elements are released is left open, except that the array comes last.   *)
(***************************************************************************)
EXTENDS Naturals

CONSTANTS
    Threads,   \* threads calling the library
    Slots,     \* the client's out-variables
    Addrs,     \* heap addresses
    Dangling,  \* address of every empty boxed slice; not a heap object
    None,      \* no slot / no pointer
    Shapes,    \* the kinds of result this client asks for
    MaxPairs,  \* bound: pairs in one scan result
    MaxLen,    \* bound: length of a byte buffer
    Careless   \* TRUE: the client may keep a pointer it has freed

ASSUME AllocAssumption ==
    /\ Threads \cap Slots = {}
    /\ Dangling \notin Addrs
    /\ None \notin Threads \cup Slots \cup Addrs \cup {Dangling}
    /\ MaxPairs \in Nat /\ MaxLen \in Nat
    /\ Careless \in BOOLEAN
    /\ Shapes \subseteq {"string", "bytes", "keys", "pairs", "pairsKv"}

Kinds == {"str", "bytes", "arr"}
Ptr == [kind : Kinds, addr : Addrs \cup {Dangling}]
P(k, a) == [kind |-> k, addr |-> a]
Absent == MaxLen + 1   \* "no entry" in the bytes registry

VARIABLES
    heap,     \* [Addrs -> Kinds \cup {"free"}]: what lives at an address
    size,     \* [Addrs -> Nat]: the length a bytes object was allocated with
    strings,  \* STRING_ALLOCATOR.allocations
    bytes,    \* BYTES_ALLOCATOR.allocations: address -> length, or Absent
    own,      \* pointers held by each slot and by each call in progress
    pc,       \* where each thread is
    shape, left, out,  \* per call: result shape, allocations to go, its slot
    cur, curLen,       \* per call: pointer being registered or released
    corrupt   \* history: a deallocation hit memory it does not own

vars == <<heap, size, strings, bytes, own, pc, shape, left, out, cur, curLen,
          corrupt>>
callVars == <<shape, left, out>>
heapVars == <<heap, size, corrupt>>

TypeOK ==
    /\ heap \in [Addrs -> Kinds \cup {"free"}]
    /\ size \in [Addrs -> 0..MaxLen]
    /\ strings \subseteq Addrs
    /\ bytes \in [Addrs \cup {Dangling} -> 0..Absent]
    /\ own \in [Threads \cup Slots -> SUBSET Ptr]
    /\ pc \in [Threads -> {"idle", "build", "register", "release",
                           "unregister", "dealloc"}]
    /\ shape \in [Threads -> Shapes \cup {"none"}]
    /\ left \in [Threads -> Nat]
    /\ out \in [Threads -> Slots \cup {None}]
    /\ cur \in [Threads -> Ptr \cup {None}]
    /\ curLen \in [Threads -> 0..MaxLen]
    /\ corrupt \in BOOLEAN

Init ==
    /\ heap = [a \in Addrs |-> "free"]
    /\ size = [a \in Addrs |-> 0]
    /\ strings = {}
    /\ bytes = [a \in Addrs \cup {Dangling} |-> Absent]
    /\ own = [o \in Threads \cup Slots |-> {}]
    /\ pc = [t \in Threads |-> "idle"]
    /\ shape = [t \in Threads |-> "none"]
    /\ left = [t \in Threads |-> 0]
    /\ out = [t \in Threads |-> None]
    /\ cur = [t \in Threads |-> None]
    /\ curLen = [t \in Threads |-> 0]
    /\ corrupt = FALSE

-----------------------------------------------------------------------------
(* Calls that return memory.                                               *)

\* A call starts by reading the engine; it writes only to its own slot, which
\* the client has cleared and lends to no other call.  The null and UTF-8
\* checks that end a call before it allocates change none of this state.
Begin(t, s, sh, n) ==
    /\ sh \in Shapes
    /\ pc[t] = "idle"
    /\ own[s] = {}
    /\ \A u \in Threads : out[u] # s
    /\ pc' = [pc EXCEPT ![t] = "build"]
    /\ shape' = [shape EXCEPT ![t] = sh]
    /\ left' = [left EXCEPT ![t] = n]
    /\ out' = [out EXCEPT ![t] = s]
    /\ UNCHANGED <<strings, bytes, cur, curLen>>

\* A point read returns one object and no array.
GetOne(t, s, sh) ==
    /\ Begin(t, s, sh, 1)
    /\ UNCHANGED <<heap, size, own, corrupt>>

\* A scan that found nothing stores null and 0; otherwise the array is
\* allocated with room for all n pairs before the first element.
Scan(t, s, sh, width) ==
    \E n \in 0..MaxPairs :
        /\ Begin(t, s, sh, width * n)
        /\ \/ /\ n = 0
              /\ UNCHANGED <<heap, size, own, corrupt>>
           \/ /\ n > 0
              /\ \E a \in Addrs :
                    /\ heap[a] = "free"
                    /\ heap' = [heap EXCEPT ![a] = "arr"]
                    /\ own' = [own EXCEPT ![t] = {P("arr", a)}]
              /\ UNCHANGED <<size, corrupt>>

f4kvs_engine_get(t, s) == GetOne(t, s, "string")
f4kvs_engine_get_bytes(t, s) == GetOne(t, s, "bytes")
f4kvs_engine_scan_prefix_keys(t, s) == Scan(t, s, "keys", 1)
f4kvs_engine_scan_prefix(t, s) == Scan(t, s, "pairs", 2)
fill_scan_result_kv(t, s) == Scan(t, s, "pairsKv", 2)

\* The kind of the next element: a pair is a C-string key and a byte value,
\* except in the length-prefixed form, where both are byte buffers.
NextKind(t) ==
    IF shape[t] \in {"string", "keys"} THEN "str"
    ELSE IF shape[t] = "pairs" /\ left[t] % 2 = 0 THEN "str"
    ELSE "bytes"

\* Mutant: the error path returns without freeing the pairs built so far.
allocate_c_string_early_return(t) ==
    /\ pc[t] = "build" /\ left[t] > 0 /\ NextKind(t) = "str"
    /\ pc' = [pc EXCEPT ![t] = "idle"]
    /\ shape' = [shape EXCEPT ![t] = "none"]
    /\ left' = [left EXCEPT ![t] = 0]
    /\ own' = [own EXCEPT ![t] = {}]
    /\ out' = [out EXCEPT ![t] = None]
    /\ UNCHANGED <<heapVars, strings, bytes, cur, curLen>>

\* CString::new refuses a string with an interior NUL: the call gives back
\* what it has built and returns ErrorStorage, its slot untouched.
\* Otherwise into_raw hands out an address, which is registered next.
allocate_c_string(t) ==
    /\ pc[t] = "build" /\ left[t] > 0 /\ NextKind(t) = "str"
    /\ \/ /\ pc' = [pc EXCEPT ![t] = "release"]
          /\ shape' = [shape EXCEPT ![t] = "none"]
          /\ left' = [left EXCEPT ![t] = 0]
          /\ UNCHANGED <<heap, own, cur>>
       \/ \E a \in Addrs :
             /\ heap[a] = "free"
             /\ heap' = [heap EXCEPT ![a] = "str"]
             /\ own' = [own EXCEPT ![t] = @ \cup {P("str", a)}]
             /\ cur' = [cur EXCEPT ![t] = P("str", a)]
             /\ pc' = [pc EXCEPT ![t] = "register"]
             /\ UNCHANGED <<shape, left>>
    /\ UNCHANGED <<size, strings, bytes, out, curLen, corrupt>>

\* An empty vector has no heap object: as_mut_ptr is the dangling address,
\* which every empty buffer shares.
allocate_bytes(t) ==
    /\ pc[t] = "build" /\ left[t] > 0 /\ NextKind(t) = "bytes"
    /\ \E n \in 0..MaxLen, a \in Addrs \cup {Dangling} :
          /\ n = 0 <=> a = Dangling
          /\ a # Dangling =>
                /\ heap[a] = "free"
                /\ heap' = [heap EXCEPT ![a] = "bytes"]
                /\ size' = [size EXCEPT ![a] = n]
          /\ a = Dangling => UNCHANGED <<heap, size>>
          /\ own' = [own EXCEPT ![t] = @ \cup {P("bytes", a)}]
          /\ cur' = [cur EXCEPT ![t] = P("bytes", a)]
          /\ curLen' = [curLen EXCEPT ![t] = n]
    /\ pc' = [pc EXCEPT ![t] = "register"]
    /\ UNCHANGED <<strings, bytes, callVars, corrupt>>

Register(t) ==
    /\ pc[t] = "register"
    /\ pc' = [pc EXCEPT ![t] = "build"]
    /\ left' = [left EXCEPT ![t] = @ - 1]
    /\ cur' = [cur EXCEPT ![t] = None]
    /\ UNCHANGED <<heapVars, own, shape, out>>

StringAllocator_register(t) ==
    /\ Register(t) /\ cur[t].kind = "str"
    /\ strings' = strings \cup {cur[t].addr}
    /\ UNCHANGED <<bytes, curLen>>

\* Mutant: the length is recorded one short.
BytesAllocator_register_off_by_one(t) ==
    /\ Register(t) /\ cur[t].kind = "bytes"
    /\ bytes' = [bytes EXCEPT ![cur[t].addr] = curLen[t] - 1]
    /\ curLen' = [curLen EXCEPT ![t] = 0]
    /\ UNCHANGED strings

BytesAllocator_register(t) ==
    /\ Register(t) /\ cur[t].kind = "bytes"
    /\ bytes' = [bytes EXCEPT ![cur[t].addr] = curLen[t]]
    /\ curLen' = [curLen EXCEPT ![t] = 0]
    /\ UNCHANGED strings

\* Success: the result is stored through the out-pointer.
ReturnResult(t) ==
    /\ pc[t] = "build" /\ left[t] = 0
    /\ own' = [own EXCEPT ![out[t]] = own[t], ![t] = {}]
    /\ pc' = [pc EXCEPT ![t] = "idle"]
    /\ out' = [out EXCEPT ![t] = None]
    /\ shape' = [shape EXCEPT ![t] = "none"]
    /\ UNCHANGED <<heapVars, strings, bytes, left, cur, curLen>>

-----------------------------------------------------------------------------
(* Calls that take memory back.  The five differ in the result they accept *)
(* and share the steps below with the error path of an interrupted scan.   *)

\* Mutant: the result's pointers are not nulled once it is freed.
FreeCall_no_reset(t, s, kinds) ==
    /\ pc[t] = "idle"
    /\ {p.kind : p \in own[s]} = kinds
    /\ own' = [own EXCEPT ![t] = own[s]]
    /\ pc' = [pc EXCEPT ![t] = "release"]
    /\ UNCHANGED <<heapVars, strings, bytes, callVars, cur, curLen>>

FreeCall(t, s, kinds) ==
    /\ pc[t] = "idle"
    /\ {p.kind : p \in own[s]} = kinds
    /\ \/ own' = [own EXCEPT ![t] = own[s], ![s] = {}]
       \/ Careless /\ own' = [own EXCEPT ![t] = own[s]]
    /\ pc' = [pc EXCEPT ![t] = "release"]
    /\ UNCHANGED <<heapVars, strings, bytes, callVars, cur, curLen>>

f4kvs_string_free(t, s) == FreeCall(t, s, {"str"})
f4kvs_bytes_free(t, s) == FreeCall(t, s, {"bytes"})
f4kvs_key_scan_result_free(t, s) == FreeCall(t, s, {"str", "arr"})
f4kvs_scan_result_free(t, s) == FreeCall(t, s, {"str", "bytes", "arr"})
f4kvs_scan_result_kv_free(t, s) == FreeCall(t, s, {"bytes", "arr"})

\* All empty buffers of a result are one pointer of its set: when one of
\* them is done with, the result may have another.
Forget(t, p) ==
    \/ own' = [own EXCEPT ![t] = @ \ {p}]
    \/ /\ p.addr = Dangling
       /\ \E q \in own[t] : q.kind = "arr"
       /\ UNCHANGED own

\* string_free, first lock: an address that is not registered is ignored.
StringAllocator_is_allocated(t) ==
    /\ pc[t] = "release"
    /\ \E p \in own[t] :
          /\ p.kind = "str"
          /\ \/ /\ p.addr \in strings
                /\ cur' = [cur EXCEPT ![t] = p]
                /\ pc' = [pc EXCEPT ![t] = "unregister"]
                /\ UNCHANGED own
             \/ /\ p.addr \notin strings
                /\ Forget(t, p)
                /\ UNCHANGED <<cur, pc>>
    /\ UNCHANGED <<heapVars, strings, bytes, callVars, curLen>>

\* Mutant: the address stays registered when its string is freed.
StringAllocator_unregister_forgotten(t) ==
    /\ pc[t] = "unregister"
    /\ pc' = [pc EXCEPT ![t] = "dealloc"]
    /\ UNCHANGED <<heapVars, strings, bytes, own, callVars, cur, curLen>>

\* string_free, second lock: the result of the removal is not looked at.
StringAllocator_unregister(t) ==
    /\ pc[t] = "unregister"
    /\ strings' = strings \ {cur[t].addr}
    /\ pc' = [pc EXCEPT ![t] = "dealloc"]
    /\ UNCHANGED <<heapVars, bytes, own, callVars, cur, curLen>>

\* bytes_free, its only lock: look up and remove in one critical section.
BytesAllocator_unregister(t) ==
    /\ pc[t] = "release"
    /\ \E p \in own[t] :
          /\ p.kind = "bytes"
          /\ bytes' = [bytes EXCEPT ![p.addr] = Absent]
          /\ \/ /\ bytes[p.addr] # Absent
                /\ cur' = [cur EXCEPT ![t] = p]
                /\ curLen' = [curLen EXCEPT ![t] = bytes[p.addr]]
                /\ pc' = [pc EXCEPT ![t] = "dealloc"]
                /\ UNCHANGED own
             \/ /\ bytes[p.addr] = Absent
                /\ Forget(t, p)
                /\ UNCHANGED <<cur, curLen, pc>>
    /\ UNCHANGED <<heapVars, strings, callVars>>

\* CString::from_raw and Box::from_raw: the memory returns to the system
\* allocator.  Returning what is not there, or with another layout, is
\* undefined behaviour, recorded in corrupt.  A slice of length 0 returns
\* nothing, but one of another length at the dangling address would.
Drop(p, n) ==
    IF p.addr = Dangling
    THEN corrupt' = (corrupt \/ n # 0) /\ UNCHANGED <<heap, size>>
    ELSE /\ heap' = [heap EXCEPT ![p.addr] = "free"]
         /\ size' = [size EXCEPT ![p.addr] = 0]
         /\ corrupt' = (corrupt \/ heap[p.addr] # p.kind \/ size[p.addr] # n)

DropElement(t) ==
    /\ pc[t] = "dealloc"
    /\ Drop(cur[t], curLen[t])
    /\ Forget(t, cur[t])
    /\ pc' = [pc EXCEPT ![t] = "release"]
    /\ cur' = [cur EXCEPT ![t] = None]
    /\ curLen' = [curLen EXCEPT ![t] = 0]
    /\ UNCHANGED <<strings, bytes, callVars>>

\* All elements are gone: the array, if there is one, goes with the return.
ReleaseDone(t) ==
    /\ pc[t] = "release"
    /\ \A p \in own[t] : p.kind = "arr"
    /\ \/ own[t] = {} /\ UNCHANGED heapVars
       \/ \E p \in own[t] : Drop(p, 0)
    /\ own' = [own EXCEPT ![t] = {}]
    /\ pc' = [pc EXCEPT ![t] = "idle"]
    /\ out' = [out EXCEPT ![t] = None]
    /\ UNCHANGED <<strings, bytes, shape, left, cur, curLen>>

-----------------------------------------------------------------------------
Read(t, s) ==
    \/ f4kvs_engine_get(t, s)
    \/ f4kvs_engine_get_bytes(t, s)
    \/ f4kvs_engine_scan_prefix_keys(t, s)
    \/ f4kvs_engine_scan_prefix(t, s)
    \/ fill_scan_result_kv(t, s)

Free(t, s) ==
    \/ f4kvs_string_free(t, s)
    \/ f4kvs_bytes_free(t, s)
    \/ f4kvs_key_scan_result_free(t, s)
    \/ f4kvs_scan_result_free(t, s)
    \/ f4kvs_scan_result_kv_free(t, s)

\* The steps of a call in progress.
Step(t) ==
    \/ allocate_c_string(t)
    \/ StringAllocator_register(t)
    \/ allocate_bytes(t)
    \/ BytesAllocator_register(t)
    \/ ReturnResult(t)
    \/ StringAllocator_is_allocated(t)
    \/ StringAllocator_unregister(t)
    \/ BytesAllocator_unregister(t)
    \/ DropElement(t)
    \/ ReleaseDone(t)

Next ==
    \E t \in Threads :
        \/ \E s \in Slots : Read(t, s) \/ Free(t, s)
        \/ Step(t)

Spec == Init /\ [][Next]_vars

-----------------------------------------------------------------------------
(* Properties.                                                             *)

Live(p) == p.addr = Dangling \/ heap[p.addr] = p.kind

\* The free function for p's kind will find p and use the right layout.
Registered(p) ==
    \/ p.kind = "str" /\ p.addr \in strings
    \/ p.kind = "bytes" /\ (p.addr = Dangling \/ bytes[p.addr] = size[p.addr])
    \/ p.kind = "arr"

\* What a client holds is usable: every pointer of a result it has not freed
\* is live memory of its kind, and the registry still knows it, so that
\* freeing it later is neither ignored (a leak) nor done with a wrong length.
HeldUsable ==
    \A s \in Slots : \A p \in own[s] : Live(p) /\ Registered(p)

\* No deallocation by f4kvs_string_free, f4kvs_bytes_free or the result
\* frees hits memory that is already free, of another kind or of another
\* length (f4kvs.h: "Double-free is prevented").
NoCorruption == ~corrupt

\* No entry of either registry outlives the object it was made for.
RegistryMatchesHeap ==
    /\ \A a \in strings : heap[a] = "str"
    /\ \A a \in Addrs : bytes[a] # Absent =>
          heap[a] = "bytes" /\ size[a] = bytes[a]

\* Nothing is lost: live memory belongs to a result the client holds or to a
\* call in progress, also after a scan was given up halfway.
NoLeak ==
    \A a \in Addrs : heap[a] # "free" =>
        \E o \in Threads \cup Slots : \E p \in own[o] : p.addr = a

-----------------------------------------------------------------------------
(* The inductive strengthening, for a client that forgets what it frees.   *)

Owners == Threads \cup Slots

\* Apart from the shared dangling address, an address has one owner and one
\* kind, and it is live.
Ownership ==
    /\ \A o1, o2 \in Owners : \A p \in own[o1], q \in own[o2] :
          p.addr = q.addr /\ p.addr # Dangling => o1 = o2 /\ p = q
    /\ \A o \in Owners : \A p \in own[o] :
          /\ Live(p)
          /\ p.addr = Dangling => p.kind = "bytes"
    /\ \A o \in Owners : \A p, q \in own[o] :
          p.kind = "arr" /\ q.kind = "arr" => p = q

\* The thread holds cur between into_raw and register, or between unregister
\* and deallocation: the only times an owned element is not registered.
InFlight(o, p) ==
    o \in Threads /\ pc[o] \in {"register", "dealloc"} /\ cur[o] = p

Registration ==
    /\ \A o \in Owners : \A p \in own[o] : p.addr # Dangling =>
          IF InFlight(o, p)
          THEN /\ p.addr \notin strings /\ bytes[p.addr] = Absent
               /\ curLen[o] = size[p.addr]
          ELSE Registered(p)
    /\ \A a \in Addrs : heap[a] # "bytes" => size[a] = 0

Control ==
    /\ \A t \in Threads :
          /\ pc[t] = "idle" => own[t] = {}
          /\ pc[t] \in {"register", "unregister", "dealloc"} =>
                cur[t] \in own[t] /\ cur[t].kind # "arr"
          /\ pc[t] = "register" => left[t] > 0
          /\ pc[t] = "unregister" => cur[t].kind = "str"
          /\ pc[t] \in {"build", "register"} => out[t] \in Slots
          /\ out[t] # None => own[out[t]] = {}
          /\ pc[t] \notin {"register", "dealloc"} => curLen[t] = 0
    /\ \A t, u \in Threads : out[t] = out[u] /\ out[t] # None => t = u

\* Empty buffers share one entry, made, replaced and removed by whoever comes
\* next: it says length 0 whenever it is there.
EmptyBuffers ==
    /\ bytes[Dangling] \in {0, Absent}
    /\ \A t \in Threads :
          pc[t] \in {"register", "dealloc"} /\ cur[t].addr = Dangling => curLen[t] = 0

\* Why the frees are safe: ownership is exclusive, and the registries hold
\* exactly the elements that no thread is handing over.
Discipline ==
    /\ TypeOK
    /\ Ownership
    /\ Registration
    /\ Control
    /\ RegistryMatchesHeap
    /\ NoLeak
    /\ NoCorruption

\* Both together hold whatever the client frees when: no free finds memory of
\* another owner, kind or length, and an empty buffer is never more than empty.
IInv == Discipline /\ EmptyBuffers
=============================================================================
