--------------------------- MODULE FfiAllocProofs ---------------------------
(* Proofs about FfiAlloc, for every number of threads, slots and addresses: *)
(* the steps that build and deliver a result, the steps that take memory    *)
(* back, and the theorems.                                                  *)
EXTENDS FfiAlloc, TLAPS

USE AllocAssumption

\* The initial state satisfies the inductive invariant.
LEMMA InitDiscipline == Init => Discipline
<1> SUFFICES ASSUME Init PROVE Discipline
  BY Zenon
<1>1. TypeOK
  <2>1. 0 \in 0..MaxLen /\ Absent \in 0..Absent
    BY DEF Absent
  <2>2. QED
    BY <2>1, ZenonT(30) DEF Init, TypeOK, Kinds
<1>2. Ownership /\ Registration
  BY Zenon DEF Init, Ownership, Registration, Owners
<1>3. Control
  BY Zenon DEF Init, Control
<1>4. RegistryMatchesHeap /\ NoLeak
  BY Zenon DEF Init, RegistryMatchesHeap, NoLeak
<1>5. NoCorruption
  BY Zenon DEF Init, NoCorruption
<1>6. QED
  BY <1>1, <1>2, <1>3, <1>4, <1>5, Zenon DEF Discipline

\* What every owner holds is a set of pointers; used to type own[o].
LEMMA OwnPtrs ==
  ASSUME TypeOK, NEW o \in Owners, NEW p \in own[o]
  PROVE  p \in Ptr /\ p.kind \in Kinds /\ p.addr \in Addrs \cup {Dangling}
<1>1. own[o] \subseteq Ptr
  BY Zenon DEF TypeOK, Owners
<1>2. QED
  BY <1>1, Zenon DEF Ptr

\* The system allocator hands out addresses that nobody holds.
LEMMA FreshAddr ==
  ASSUME Discipline, NEW a \in Addrs, heap[a] = "free"
  PROVE  \A o \in Owners : \A p \in own[o] : p.addr # a
<1> SUFFICES ASSUME NEW o \in Owners, NEW p \in own[o], p.addr = a
             PROVE  FALSE
  BY Zenon
<1>1. p.kind \in Kinds
  BY OwnPtrs, Zenon DEF Discipline
<1>2. Live(p)
  BY Zenon DEF Discipline, Ownership
<1>3. QED
  BY <1>1, <1>2, Zenon DEF Live, Kinds

\* A thread that owns one more object, at a fresh address, disturbs neither
\* the ownership discipline nor the accounting of live memory.
LEMMA AddOwned ==
  ASSUME Discipline, NEW t \in Threads, NEW a \in Addrs, NEW k \in Kinds,
         heap[a] = "free", k = "arr" => own[t] = {},
         heap' = [heap EXCEPT ![a] = k],
         own' = [own EXCEPT ![t] = @ \cup {P(k, a)}]
  PROVE  Ownership' /\ NoLeak'
<1>1. t \in Owners /\ own \in [Owners -> SUBSET Ptr] /\ heap \in [Addrs -> Kinds \cup {"free"}]
  BY Zenon DEF Discipline, Owners, TypeOK
<1>2. \A o \in Owners : \A p \in own[o] : p.addr # a
  BY FreshAddr, Zenon
<1>3. \A o \in Owners : own'[o] = IF o = t THEN own[t] \cup {P(k, a)} ELSE own[o]
  BY <1>1, Zenon
<1>4. P(k, a).addr = a /\ P(k, a).kind = k
  BY Zenon DEF P
<1>5. Ownership'
  <2>1. \A o \in Owners : \A p \in own'[o] : Live(p)'
    <3> SUFFICES ASSUME NEW o \in Owners, NEW p \in own'[o]
                 PROVE  Live(p)'
      BY Zenon
    <3>1. CASE p = P(k, a)
      BY <1>1, <1>4, <3>1 DEF Live
    <3>2. CASE p # P(k, a)
      <4>1. p \in own[o]
        BY <1>3, <3>2
      <4>2. Live(p) /\ p.addr \in Addrs \cup {Dangling} /\ p.addr # a
        BY <4>1, <1>2, OwnPtrs, Zenon DEF Discipline, Ownership
      <4>3. QED
        BY <4>2, <1>1, Zenon DEF Live
    <3>3. QED
      BY <3>1, <3>2, Zenon
  <2>2. QED
    BY <1>2, <1>3, <1>4, <2>1 DEF Discipline, Ownership
<1>6. NoLeak'
  <2> SUFFICES ASSUME NEW b \in Addrs, heap'[b] # "free"
               PROVE  \E o \in Owners : \E p \in own'[o] : p.addr = b
    BY Zenon DEF NoLeak, Owners
  <2>1. CASE b = a
    BY <1>1, <1>3, <1>4, <2>1, Zenon
  <2>2. CASE b # a
    <3>1. PICK o \in Owners : \E p \in own[o] : p.addr = b
      BY <1>1, <2>2, Zenon DEF Discipline, NoLeak, Owners
    <3>2. QED
      BY <3>1, <1>3
  <2>3. QED
    BY <2>1, <2>2, Zenon
<1>7. QED
  BY <1>5, <1>6, Zenon

\* A point read allocates nothing until its first build step.
LEMMA GetOneDiscipline ==
  ASSUME Discipline, NEW t \in Threads, NEW s \in Slots, NEW sh, GetOne(t, s, sh)
  PROVE  Discipline'
<1> USE DEF Discipline, GetOne, Begin
<1>1. TypeOK'
  BY Zenon DEF TypeOK
<1>2. Ownership'
  BY DEF Ownership, Live, Owners
<1>3. Registration'
  BY SMTT(30) DEF Registration, InFlight, Registered, TypeOK, Owners
<1>4. Control'
  BY DEF Control, TypeOK
<1>5. (RegistryMatchesHeap /\ NoLeak /\ NoCorruption)'
  BY Zenon DEF RegistryMatchesHeap, NoLeak, NoCorruption
<1>6. QED
  BY <1>1, <1>2, <1>3, <1>4, <1>5, Zenon

\* An empty scan is like a point read; otherwise the call owns a new array.
LEMMA ScanDiscipline ==
  ASSUME Discipline, NEW t \in Threads, NEW s \in Slots, NEW sh, NEW w \in Nat,
         Scan(t, s, sh, w)
  PROVE  Discipline'
<1>1. PICK n \in 0..MaxPairs : Begin(t, s, sh, w * n) /\
        (\/ n = 0 /\ UNCHANGED <<heap, size, own, corrupt>>
         \/ /\ n > 0
            /\ \E a \in Addrs :
                  /\ heap[a] = "free"
                  /\ heap' = [heap EXCEPT ![a] = "arr"]
                  /\ own' = [own EXCEPT ![t] = {P("arr", a)}]
            /\ UNCHANGED <<size, corrupt>>)
  BY Zenon DEF Scan
<1>2. w * n \in Nat
  BY <1>1
<1>3. ASSUME UNCHANGED <<heap, size, own, corrupt>>
      PROVE  Discipline'
  <2> USE <1>1, <1>2, <1>3 DEF Discipline, Begin
  <2>1. TypeOK'
    BY Zenon DEF TypeOK
  <2>2. Ownership'
    BY DEF Ownership, Live, Owners
  <2>3. Registration'
    BY SMTT(30) DEF Registration, InFlight, Registered, TypeOK, Owners
  <2>4. Control'
    BY DEF Control, TypeOK
  <2>5. (RegistryMatchesHeap /\ NoLeak /\ NoCorruption)'
    BY Zenon DEF RegistryMatchesHeap, NoLeak, NoCorruption
  <2>6. QED
    BY <2>1, <2>2, <2>3, <2>4, <2>5, Zenon
<1>4. ASSUME NEW a \in Addrs, heap[a] = "free",
             heap' = [heap EXCEPT ![a] = "arr"],
             own' = [own EXCEPT ![t] = {P("arr", a)}],
             UNCHANGED <<size, corrupt>>
      PROVE  Discipline'
  <2> USE <1>1, <1>2, <1>4 DEF Discipline, Begin
  <2>0. own[t] = {} /\ "arr" \in Kinds /\ own' = [own EXCEPT ![t] = @ \cup {P("arr", a)}]
    <3>1. own[t] = {}
      BY Zenon DEF Control
    <3>2. own[t] \cup {P("arr", a)} = {P("arr", a)}
      BY <3>1, Zenon
    <3>3. QED
      BY <3>1, <3>2, Zenon DEF Kinds
  <2>1. TypeOK'
    BY DEF TypeOK, Kinds, Ptr, P
  <2>2. Ownership'
    BY <2>0, AddOwned, ZenonT(30)
  <2>3. Registration'
    BY SMTT(30) DEF Registration, InFlight, Registered, TypeOK, Owners, P, Ptr, Ownership, Live, Control
  <2>4. Control'
    BY DEF Control, TypeOK, P
  <2>5. (RegistryMatchesHeap /\ NoCorruption)'
    BY DEF RegistryMatchesHeap, NoCorruption, TypeOK
  <2>6. NoLeak'
    BY <2>0, AddOwned, ZenonT(30)
  <2>7. QED
    BY <2>1, <2>2, <2>3, <2>4, <2>5, <2>6, Zenon
<1>5. QED
  BY <1>1, <1>3, <1>4, Zenon

\* Building a C string: give up, or own a fresh string not yet registered.
LEMMA AllocStringDiscipline ==
  ASSUME Discipline, NEW t \in Threads, allocate_c_string(t)
  PROVE  Discipline'
<1>1. CASE pc' = [pc EXCEPT ![t] = "release"]
  <2> USE <1>1 DEF Discipline
  <2>0. /\ UNCHANGED <<heap, size, strings, bytes, own, out, cur, curLen, corrupt>>
        /\ shape' = [shape EXCEPT ![t] = "none"]
        /\ left' = [left EXCEPT ![t] = 0]
        /\ pc[t] = "build"
    BY DEF allocate_c_string, TypeOK
  <2>1. TypeOK'
    BY <2>0, Zenon DEF TypeOK
  <2>2. Ownership'
    BY <2>0 DEF Ownership, Live, Owners
  <2>3. Registration'
    BY <2>0, SMTT(30) DEF Registration, InFlight, Registered, TypeOK, Owners
  <2>4. Control'
    BY <2>0 DEF Control, TypeOK
  <2>5. (RegistryMatchesHeap /\ NoLeak /\ NoCorruption)'
    BY <2>0, Zenon DEF RegistryMatchesHeap, NoLeak, NoCorruption
  <2>6. QED
    BY <2>1, <2>2, <2>3, <2>4, <2>5, Zenon
<1>2. ASSUME NEW a \in Addrs, heap[a] = "free",
             heap' = [heap EXCEPT ![a] = "str"],
             own' = [own EXCEPT ![t] = @ \cup {P("str", a)}],
             cur' = [cur EXCEPT ![t] = P("str", a)],
             pc' = [pc EXCEPT ![t] = "register"],
             UNCHANGED <<shape, left>>
      PROVE  Discipline'
  <2> USE <1>2 DEF Discipline
  <2>0. /\ UNCHANGED <<size, strings, bytes, out, curLen, corrupt>>
        /\ pc[t] = "build" /\ left[t] > 0
    BY Zenon DEF allocate_c_string
  <2>1. TypeOK'
    BY <2>0 DEF TypeOK, Kinds, Ptr, P
  <2>2. Ownership' /\ NoLeak'
    BY AddOwned, ZenonT(30) DEF Kinds
  <2>3. Registration'
    <3>1. /\ \A o \in Owners : \A p \in own[o] : p.addr # a
          /\ a \notin strings /\ bytes[a] = Absent /\ size[a] = 0 /\ curLen[t] = 0
      BY <2>0, FreshAddr, Zenon DEF RegistryMatchesHeap, Registration, Control
    <3>2. QED
      BY <2>0, <3>1, SMTT(30) DEF Registration, InFlight, Registered, TypeOK, Owners, P, Ptr, Control
  <2>4. Control'
    BY <2>0 DEF Control, TypeOK, P
  <2>5. (RegistryMatchesHeap /\ NoCorruption)'
    BY <2>0, Zenon DEF RegistryMatchesHeap, NoCorruption, TypeOK
  <2>6. QED
    BY <2>1, <2>2, <2>3, <2>4, <2>5, Zenon
<1>3. QED
  BY <1>1, <1>2, Zenon DEF allocate_c_string

\* Building a buffer: an empty one shares the dangling address, any other
\* one is a fresh object whose length travels with it until registration.
LEMMA AllocBytesDiscipline ==
  ASSUME Discipline, NEW t \in Threads, allocate_bytes(t)
  PROVE  Discipline'
<1>1. PICK n \in 0..MaxLen, a \in Addrs \cup {Dangling} :
        /\ n = 0 <=> a = Dangling
        /\ a # Dangling =>
              /\ heap[a] = "free"
              /\ heap' = [heap EXCEPT ![a] = "bytes"]
              /\ size' = [size EXCEPT ![a] = n]
        /\ a = Dangling => UNCHANGED <<heap, size>>
        /\ own' = [own EXCEPT ![t] = @ \cup {P("bytes", a)}]
        /\ cur' = [cur EXCEPT ![t] = P("bytes", a)]
        /\ curLen' = [curLen EXCEPT ![t] = n]
  BY ZenonT(30) DEF allocate_bytes
<1>2. /\ UNCHANGED <<strings, bytes, shape, left, out, corrupt>>
      /\ pc[t] = "build" /\ left[t] > 0
      /\ pc' = [pc EXCEPT ![t] = "register"]
  BY Zenon DEF allocate_bytes, callVars
<1> USE <1>1, <1>2 DEF Discipline
<1>3. TypeOK'
  BY DEF TypeOK, Kinds, Ptr, P
<1>4. Control'
  BY DEF Control, TypeOK, P
<1>5. NoCorruption'
  BY Zenon DEF NoCorruption
<1>6. CASE a = Dangling
  <2> USE <1>6
  <2>1. \A o \in Owners : own'[o] = IF o = t THEN own[t] \cup {P("bytes", a)} ELSE own[o]
    BY Zenon DEF TypeOK, Owners
  <2>2. P("bytes", a).addr = Dangling /\ P("bytes", a).kind = "bytes"
    BY Zenon DEF P
  <2>3. Ownership'
    BY <2>1, <2>2 DEF Ownership, Live
  <2>4. Registration'
    BY <2>1, <2>2, SMTT(30) DEF Registration, InFlight, Registered, TypeOK, Control
  <2>5. RegistryMatchesHeap'
    BY Zenon DEF RegistryMatchesHeap
  <2>6. NoLeak'
    BY <2>1 DEF NoLeak, Owners
  <2>7. QED
    BY <1>3, <1>4, <1>5, <2>3, <2>4, <2>5, <2>6, Zenon
<1>7. CASE a # Dangling
  <2> USE <1>7
  <2>1. Ownership' /\ NoLeak'
    BY AddOwned, ZenonT(30) DEF Kinds
  <2>2. /\ \A o \in Owners : \A p \in own[o] : p.addr # a
        /\ a \notin strings /\ bytes[a] = Absent
    BY FreshAddr, Zenon DEF RegistryMatchesHeap
  <2>3. Registration'
    <3>0. /\ \A o \in Owners : own'[o] = IF o = t THEN own[t] \cup {P("bytes", a)} ELSE own[o]
          /\ P("bytes", a).addr = a /\ P("bytes", a).kind = "bytes"
          /\ \A b \in Addrs : heap'[b] # "bytes" => size'[b] = 0
      BY DEF TypeOK, Owners, P, Registration
    <3> SUFFICES ASSUME NEW o \in Owners, NEW p \in own'[o], p.addr # Dangling
                 PROVE  IF InFlight(o, p)'
                        THEN /\ p.addr \notin strings /\ bytes[p.addr] = Absent
                             /\ curLen'[o] = size'[p.addr]
                        ELSE Registered(p)'
      BY <3>0, Zenon DEF Registration
    <3>1. CASE p = P("bytes", a)
      <4>1. o = t
        BY <3>0, <3>1, <2>2, Zenon
      <4>2. QED
        BY <3>0, <3>1, <4>1, <2>2 DEF InFlight, TypeOK
    <3>2. CASE p # P("bytes", a)
      <4>1. p \in own[o] /\ p.addr \in Addrs /\ p.addr # a
        BY <3>0, <3>2, <2>2, OwnPtrs
      <4>2. InFlight(o, p)' <=> InFlight(o, p)
        BY <3>2 DEF InFlight, TypeOK
      <4>3. size'[p.addr] = size[p.addr] /\ (InFlight(o, p) => curLen'[o] = curLen[o])
        BY <4>1, Zenon DEF InFlight, TypeOK
      <4>4. QED
        BY <4>1, <4>2, <4>3, Zenon DEF Registration, Registered
    <3>3. QED
      BY <3>1, <3>2, Zenon
  <2>4. RegistryMatchesHeap'
    BY <2>2 DEF RegistryMatchesHeap, TypeOK
  <2>5. QED
    BY <1>3, <1>4, <1>5, <2>1, <2>3, <2>4, Zenon
<1>8. QED
  BY <1>6, <1>7, Zenon

\* Registration ends the hand-over of a new string.
LEMMA RegisterStringDiscipline ==
  ASSUME Discipline, NEW t \in Threads, StringAllocator_register(t)
  PROVE  Discipline'
<1> USE DEF Discipline, StringAllocator_register, Register, heapVars
<1>1. /\ cur[t] \in own[t] /\ cur[t].kind = "str" /\ t \in Owners /\ left[t] > 0
      /\ cur[t].addr \in Addrs /\ heap[cur[t].addr] = "str"
      /\ cur[t].addr \notin strings /\ bytes[cur[t].addr] = Absent
      /\ curLen[t] = size[cur[t].addr] /\ size[cur[t].addr] = 0
  <2>1. cur[t] \in own[t] /\ cur[t].kind = "str" /\ t \in Owners /\ left[t] > 0
    BY Zenon DEF Control, Owners
  <2>2. /\ cur[t].addr \in Addrs \cup {Dangling} /\ Live(cur[t])
        /\ cur[t].addr # Dangling
    BY <2>1, OwnPtrs, Zenon DEF Ownership
  <2>3. InFlight(t, cur[t])
    BY Zenon DEF InFlight
  <2>4. QED
    BY <2>1, <2>2, <2>3, SMTT(30) DEF Registration, Live
<1>2. TypeOK'
  BY <1>1, SMTT(30) DEF TypeOK
<1>3. Ownership'
  BY SMTT(30) DEF Ownership, Live
<1>4. Registration'
  <2> SUFFICES ASSUME NEW o \in Owners, NEW p \in own[o], p.addr # Dangling
               PROVE  IF InFlight(o, p)'
                      THEN /\ p.addr \notin strings' /\ bytes[p.addr] = Absent
                           /\ curLen[o] = size[p.addr]
                      ELSE Registered(p)'
    BY Zenon DEF Registration
  <2>1. CASE p = cur[t] /\ o = t
    BY <2>1, <1>1, SMTT(30) DEF InFlight, Registered, TypeOK
  <2>2. CASE ~(p = cur[t] /\ o = t)
    <3>1. p.addr # cur[t].addr
      BY <2>2, <1>1 DEF Ownership
    <3>2. InFlight(o, p)' <=> InFlight(o, p)
      BY <2>2, Zenon DEF InFlight, TypeOK
    <3>3. QED
      BY <3>1, <3>2, Zenon DEF Registration, Registered
  <2>3. QED
    BY <2>1, <2>2, Zenon
<1>5. Control'
  BY <1>1 DEF Control, TypeOK
<1>6. (RegistryMatchesHeap /\ NoLeak /\ NoCorruption)'
  BY <1>1, Zenon DEF RegistryMatchesHeap, NoLeak, NoCorruption
<1>7. QED
  BY <1>2, <1>3, <1>4, <1>5, <1>6, Zenon

\* Registration of a buffer records the length it was allocated with.
LEMMA RegisterBytesDiscipline ==
  ASSUME Discipline, NEW t \in Threads, BytesAllocator_register(t)
  PROVE  Discipline'
<1> USE DEF Discipline, BytesAllocator_register, Register, heapVars
<1>1. /\ cur[t] \in own[t] /\ cur[t].kind = "bytes" /\ t \in Owners /\ left[t] > 0
      /\ cur[t].addr \in Addrs \cup {Dangling}
      /\ cur[t].addr # Dangling =>
            /\ heap[cur[t].addr] = "bytes" /\ cur[t].addr \notin strings
            /\ curLen[t] = size[cur[t].addr]
  <2>1. cur[t] \in own[t] /\ cur[t].kind = "bytes" /\ t \in Owners /\ left[t] > 0
    BY Zenon DEF Control, Owners
  <2>2. cur[t].addr \in Addrs \cup {Dangling} /\ Live(cur[t])
    BY <2>1, OwnPtrs, Zenon DEF Ownership
  <2>3. InFlight(t, cur[t])
    BY Zenon DEF InFlight
  <2>4. QED
    BY <2>1, <2>2, <2>3, SMTT(30) DEF Registration, Live
<1>2. TypeOK'
  BY <1>1, SMTT(30) DEF TypeOK, Absent
<1>3. Ownership'
  BY ZenonT(30) DEF Ownership, Live
<1>4. Registration'
  <2> SUFFICES ASSUME NEW o \in Owners, NEW p \in own[o], p.addr # Dangling
               PROVE  IF InFlight(o, p)'
                      THEN /\ p.addr \notin strings /\ bytes'[p.addr] = Absent
                           /\ curLen'[o] = size[p.addr]
                      ELSE Registered(p)'
    BY Zenon DEF Registration
  <2>0. p.addr \in Addrs
    BY OwnPtrs, Zenon
  <2>1. CASE p = cur[t] /\ o = t
    BY <2>0, <2>1, <1>1, SMTT(30) DEF InFlight, Registered, TypeOK
  <2>2. CASE ~(p = cur[t] /\ o = t)
    <3>1. p.addr # cur[t].addr
      BY <2>2, <1>1 DEF Ownership
    <3>2. InFlight(o, p)' <=> InFlight(o, p)
      BY <2>2, Zenon DEF InFlight, TypeOK
    <3>3. bytes'[p.addr] = bytes[p.addr]
      BY <2>0, <3>1, Zenon DEF TypeOK
    <3>4. InFlight(o, p) => curLen'[o] = curLen[o]
      BY <2>2, SMTT(30) DEF InFlight, TypeOK
    <3>5. QED
      BY <3>1, <3>2, <3>3, <3>4 DEF Registration, Registered
  <2>3. QED
    BY <2>1, <2>2, Zenon
<1>5. Control'
  BY <1>1 DEF Control, TypeOK
<1>6. (RegistryMatchesHeap /\ NoLeak /\ NoCorruption)'
  BY <1>1 DEF RegistryMatchesHeap, NoLeak, NoCorruption, TypeOK
<1>7. QED
  BY <1>2, <1>3, <1>4, <1>5, <1>6, Zenon

\* Moving everything one owner holds to an owner that holds nothing.
LEMMA MoveOwned ==
  ASSUME Ownership, NoLeak, UNCHANGED heap,
         NEW f \in Owners, NEW g \in Owners, f # g, own[g] = {},
         \A o \in Owners : own'[o] = IF o = f THEN {} ELSE IF o = g THEN own[f] ELSE own[o]
  PROVE  /\ Ownership' /\ NoLeak'
         /\ \A o \in Owners : \A p \in own'[o] :
               (o = g /\ p \in own[f]) \/ (o # f /\ o # g /\ p \in own[o])
<1>1. \A o \in Owners : \A p \in own'[o] :
        (o = g /\ p \in own[f]) \/ (o # f /\ o # g /\ p \in own[o])
  BY Zenon
<1>2. \A p : Live(p)' <=> Live(p)
  BY Zenon DEF Live
<1>3. \A o1, o2 \in Owners : \A p \in own'[o1], q \in own'[o2] :
        p.addr = q.addr /\ p.addr # Dangling => o1 = o2 /\ p = q
  <2> SUFFICES ASSUME NEW o1 \in Owners, NEW o2 \in Owners,
                      NEW p \in own'[o1], NEW q \in own'[o2],
                      p.addr = q.addr, p.addr # Dangling
               PROVE  o1 = o2 /\ p = q
    OBVIOUS
  <2>1. PICK d1 \in Owners : p \in own[d1] /\ d1 = (IF o1 = g THEN f ELSE o1) /\ o1 # f
    BY <1>1, Zenon
  <2>2. PICK d2 \in Owners : q \in own[d2] /\ d2 = (IF o2 = g THEN f ELSE o2) /\ o2 # f
    BY <1>1, Zenon
  <2>3. d1 = d2 /\ p = q
    BY <2>1, <2>2 DEF Ownership
  <2>4. QED
    BY <2>1, <2>2, <2>3, Zenon
<1>4. \A o \in Owners : \A p \in own'[o] :
        Live(p)' /\ (p.addr = Dangling => p.kind = "bytes")
  BY <1>1, <1>2, Zenon DEF Ownership
<1>5. \A o \in Owners : \A p, q \in own'[o] :
        p.kind = "arr" /\ q.kind = "arr" => p = q
  <2> SUFFICES ASSUME NEW o \in Owners, NEW p \in own'[o], NEW q \in own'[o],
                      p.kind = "arr", q.kind = "arr"
               PROVE  p = q
    BY Zenon
  <2>1. PICK d \in Owners : p \in own[d] /\ q \in own[d]
    BY <1>1, Zenon
  <2>2. QED
    BY <2>1, Zenon DEF Ownership
<1>6. NoLeak'
  <2> SUFFICES ASSUME NEW a \in Addrs, heap[a] # "free"
               PROVE  \E o \in Owners : \E p \in own'[o] : p.addr = a
    BY Zenon DEF NoLeak, Owners
  <2>1. PICK o \in Owners : \E p \in own[o] : p.addr = a
    BY Zenon DEF NoLeak, Owners
  <2>2. PICK p \in own[o] : p.addr = a
    BY <2>1, Zenon
  <2>3. CASE o = f
    <3>1. p \in own'[g]
      BY <2>2, <2>3, Zenon
    <3>2. QED
      BY <2>2, <3>1, Zenon
  <2>4. CASE o # f
    <3>1. o # g
      BY <2>2, Zenon
    <3>2. p \in own'[o]
      BY <2>2, <2>4, <3>1, Zenon
    <3>3. QED
      BY <2>2, <3>2, Zenon
  <2>5. QED
    BY <2>3, <2>4, Zenon
<1>7. QED
  BY <1>1, <1>3, <1>4, <1>5, <1>6, Zenon DEF Ownership

\* A finished call moves all it owns, registered and complete, to its slot.
LEMMA ReturnDiscipline ==
  ASSUME Discipline, NEW t \in Threads, ReturnResult(t)
  PROVE  Discipline'
<1> USE DEF Discipline, ReturnResult, heapVars
<1>1. /\ out[t] \in Slots /\ own[out[t]] = {} /\ t \in Owners
      /\ out[t] \in Owners /\ out[t] # t
  BY SMTT(30) DEF Control, Owners
<1>2. \A o \in Owners : own'[o] = IF o = t THEN {} ELSE IF o = out[t] THEN own[t] ELSE own[o]
  BY <1>1, Zenon DEF TypeOK, Owners
<1>3. TypeOK'
  BY <1>1, Zenon DEF TypeOK
<1>4. /\ Ownership' /\ NoLeak'
      /\ \A o \in Owners : \A p \in own'[o] :
            (o = out[t] /\ p \in own[t]) \/ (o # t /\ o # out[t] /\ p \in own[o])
  BY <1>1, <1>2, MoveOwned, ZenonT(30)
<1>5. Registration'
  <2>1. \A p : ~InFlight(t, p) /\ ~InFlight(out[t], p)
    BY <1>1, Zenon DEF InFlight
  <2>2. \A o \in Owners : \A p : InFlight(o, p)' <=> InFlight(o, p)
    BY Zenon DEF InFlight, TypeOK
  <2>3. \A p : Registered(p)' <=> Registered(p)
    BY Zenon DEF Registered
  <2>4. ASSUME NEW o \in Owners, NEW p \in own'[o], p.addr # Dangling
        PROVE  IF InFlight(o, p)'
               THEN /\ p.addr \notin strings /\ bytes[p.addr] = Absent
                    /\ curLen[o] = size[p.addr]
               ELSE Registered(p)'
    <3>1. PICK d \in Owners : p \in own[d] /\ d = (IF o = out[t] THEN t ELSE o)
      BY <1>1, <1>4, ZenonT(30)
    <3>2. CASE d = o
      BY <2>2, <2>3, <2>4, <3>1, <3>2, Zenon DEF Registration
    <3>3. CASE d # o
      BY <2>1, <2>2, <2>3, <2>4, <3>1, <3>3, Zenon DEF Registration
    <3>4. QED
      BY <3>2, <3>3, Zenon
  <2>5. QED
    BY <2>4, ZenonT(30) DEF Registration
<1>6. Control'
  <2>1. \A u \in Threads : u \in Owners /\ u # out[t]
    BY <1>1, Zenon DEF Owners
  <2>2. \A u \in Threads : out'[u] # None => out'[u] \in Owners /\ out'[u] # out[t] /\ out'[u] = out[u]
    BY <1>1 DEF Control, TypeOK, Owners
  <2>3. QED
    BY <1>1, <1>2, <2>1, <2>2 DEF Control, TypeOK
<1>7. (RegistryMatchesHeap /\ NoCorruption)'
  BY Zenon DEF RegistryMatchesHeap, NoCorruption
<1>8. QED
  BY <1>3, <1>4, <1>5, <1>6, <1>7, Zenon

\* A free call takes the result out of the client's hands.
LEMMA FreeCallDiscipline ==
  ASSUME Discipline, ~Careless, NEW t \in Threads, NEW s \in Slots, NEW kinds,
         FreeCall(t, s, kinds)
  PROVE  Discipline'
<1> USE DEF Discipline, FreeCall, heapVars, callVars
<1>1. own[t] = {} /\ t \in Owners /\ s \in Owners /\ s # t
      /\ own' = [own EXCEPT ![t] = own[s], ![s] = {}]
  BY Zenon DEF Control, Owners
<1>2. \A o \in Owners : own'[o] = IF o = s THEN {} ELSE IF o = t THEN own[s] ELSE own[o]
  BY <1>1, Zenon DEF TypeOK, Owners
<1>3. TypeOK'
  BY <1>1, Zenon DEF TypeOK
<1>4. /\ Ownership' /\ NoLeak'
      /\ \A o \in Owners : \A p \in own'[o] :
            (o = t /\ p \in own[s]) \/ (o # s /\ o # t /\ p \in own[o])
  BY <1>1, <1>2, MoveOwned, ZenonT(30)
<1>5. Registration'
  <2>1. \A p : ~InFlight(t, p) /\ ~InFlight(s, p)
    BY <1>1, Zenon DEF InFlight
  <2>2. \A o \in Owners : \A p : InFlight(o, p)' <=> InFlight(o, p)
    BY Zenon DEF InFlight, TypeOK
  <2>3. \A p : Registered(p)' <=> Registered(p)
    BY Zenon DEF Registered
  <2>4. ASSUME NEW o \in Owners, NEW p \in own'[o], p.addr # Dangling
        PROVE  IF InFlight(o, p)'
               THEN /\ p.addr \notin strings /\ bytes[p.addr] = Absent
                    /\ curLen[o] = size[p.addr]
               ELSE Registered(p)'
    <3>1. PICK d \in Owners : p \in own[d] /\ d = (IF o = t THEN s ELSE o)
      BY <1>1, <1>4, ZenonT(30)
    <3>2. CASE d = o
      BY <2>2, <2>3, <2>4, <3>1, <3>2, Zenon DEF Registration
    <3>3. CASE d # o
      BY <2>1, <2>2, <2>3, <2>4, <3>1, <3>3, Zenon DEF Registration
    <3>4. QED
      BY <3>2, <3>3, Zenon
  <2>5. QED
    BY <2>4, Zenon DEF Registration
<1>6. Control'
  <2>1. \A u \in Threads : u \in Owners /\ u # s /\ (out[u] # None => out[u] \in Owners /\ out[u] # t)
    BY DEF TypeOK, Owners
  <2>2. QED
    BY <1>1, <1>2, <2>1 DEF Control, TypeOK
<1>7. (RegistryMatchesHeap /\ NoCorruption)'
  BY Zenon DEF RegistryMatchesHeap, NoCorruption
<1>8. QED
  BY <1>3, <1>4, <1>5, <1>6, <1>7, Zenon

\* Dropping an owned pointer from a thread's set, while its address stays
\* accounted for or goes away with it.
LEMMA ForgetOwned ==
  ASSUME Discipline, NEW t \in Threads, NEW p \in own[t], Forget(t, p)
  PROVE  /\ own' \in [Owners -> SUBSET Ptr]
         /\ \A o \in Owners : own'[o] \subseteq own[o]
         /\ \A o \in Owners : \A q \in own[o] : q \in own'[o] \/ (o = t /\ q = p)
         /\ p.addr # Dangling => p \notin own'[t]
<1>1. CASE own' = [own EXCEPT ![t] = @ \ {p}]
  BY <1>1, Zenon DEF Discipline, TypeOK, Owners
<1>2. CASE p.addr = Dangling /\ UNCHANGED own
  BY <1>2, Zenon DEF Discipline, TypeOK, Owners
<1>3. QED
  BY <1>1, <1>2, Zenon DEF Forget

\* An element that is owned and not in flight is registered, so in a careful
\* client only the dangling address is ever unknown to bytes_free.
LEMMA OwnedRegistered ==
  ASSUME Discipline, NEW t \in Threads, pc[t] = "release", NEW p \in own[t],
         p.addr # Dangling
  PROVE  Registered(p) /\ p.addr \in Addrs /\ heap[p.addr] = p.kind
<1>1. t \in Owners /\ ~InFlight(t, p)
  BY Zenon DEF Owners, InFlight
<1>2. p.addr \in Addrs /\ Live(p)
  BY <1>1, OwnPtrs, Zenon DEF Discipline, Ownership
<1>3. QED
  BY <1>1, <1>2, Zenon DEF Discipline, Registration, Live

\* The check of string_free always succeeds for a careful client.
LEMMA IsAllocatedDiscipline ==
  ASSUME Discipline, NEW t \in Threads, StringAllocator_is_allocated(t)
  PROVE  Discipline'
<1>1. /\ pc[t] = "release"
      /\ UNCHANGED <<heap, size, corrupt, strings, bytes, shape, left, out, curLen>>
  BY Zenon DEF StringAllocator_is_allocated, heapVars, callVars
<1>2. PICK p \in own[t] :
        /\ p.kind = "str"
        /\ \/ /\ p.addr \in strings
              /\ cur' = [cur EXCEPT ![t] = p]
              /\ pc' = [pc EXCEPT ![t] = "unregister"]
              /\ UNCHANGED own
           \/ /\ p.addr \notin strings
              /\ Forget(t, p)
              /\ UNCHANGED <<cur, pc>>
  BY Zenon DEF StringAllocator_is_allocated
<1>3. t \in Owners /\ p.addr # Dangling /\ p \in Ptr
  BY <1>2, OwnPtrs, Zenon DEF Discipline, Ownership, Owners
<1>4. p.addr \in strings
  BY <1>1, <1>2, <1>3, OwnedRegistered, Zenon DEF Registered
<1>5. UNCHANGED own /\ cur' = [cur EXCEPT ![t] = p] /\ pc' = [pc EXCEPT ![t] = "unregister"]
  BY <1>2, <1>4, Zenon
<1> USE <1>1, <1>5 DEF Discipline
<1>6. TypeOK'
  BY <1>3, Zenon DEF TypeOK
<1>7. Ownership'
  BY DEF Ownership, Live
<1>8. Registration'
  <2>1. \A o \in Owners : \A q : InFlight(o, q)' <=> InFlight(o, q)
    BY Zenon DEF InFlight, TypeOK
  <2>2. \A q : Registered(q)' <=> Registered(q)
    BY Zenon DEF Registered
  <2>3. QED
    BY <2>1, <2>2, Zenon DEF Registration
<1>9. Control'
  BY <1>2 DEF Control, TypeOK
<1>10. (RegistryMatchesHeap /\ NoLeak /\ NoCorruption)'
  BY Zenon DEF RegistryMatchesHeap, NoLeak, NoCorruption
<1>11. QED
  BY <1>6, <1>7, <1>8, <1>9, <1>10, Zenon

\* Unregistering puts the string in flight to its deallocation.
LEMMA UnregisterStringDiscipline ==
  ASSUME Discipline, NEW t \in Threads, StringAllocator_unregister(t)
  PROVE  Discipline'
<1> USE DEF Discipline, StringAllocator_unregister, heapVars, callVars
<1>1. /\ cur[t] \in own[t] /\ cur[t].kind = "str" /\ t \in Owners
      /\ cur[t].addr \in Addrs /\ cur[t].addr # Dangling
      /\ heap[cur[t].addr] = "str" /\ bytes[cur[t].addr] = Absent
      /\ curLen[t] = 0 /\ size[cur[t].addr] = 0
  <2>1. cur[t] \in own[t] /\ cur[t].kind = "str" /\ t \in Owners /\ curLen[t] = 0
    BY Zenon DEF Control, Owners
  <2>2. /\ cur[t].addr \in Addrs \cup {Dangling} /\ Live(cur[t])
        /\ cur[t].addr # Dangling
    BY <2>1, OwnPtrs, Zenon DEF Ownership
  <2>3. cur[t].addr \in Addrs /\ heap[cur[t].addr] = "str"
    BY <2>1, <2>2, Zenon DEF Live
  <2>4. QED
    BY <2>1, <2>2, <2>3, Zenon DEF RegistryMatchesHeap, Registration
<1>2. TypeOK'
  BY Zenon DEF TypeOK
<1>3. Ownership'
  BY DEF Ownership, Live
<1>4. Registration'
  <2> SUFFICES ASSUME NEW o \in Owners, NEW p \in own[o], p.addr # Dangling
               PROVE  IF InFlight(o, p)'
                      THEN /\ p.addr \notin strings' /\ bytes[p.addr] = Absent
                           /\ curLen[o] = size[p.addr]
                      ELSE Registered(p)'
    BY Zenon DEF Registration
  <2>1. CASE p = cur[t] /\ o = t
    BY <2>1, <1>1, Zenon DEF InFlight, TypeOK
  <2>2. CASE ~(p = cur[t] /\ o = t)
    <3>1. p.addr # cur[t].addr
      BY <2>2, <1>1, SMTT(30) DEF Ownership
    <3>2. InFlight(o, p)' <=> InFlight(o, p)
      BY <2>2, Zenon DEF InFlight, TypeOK
    <3>3. QED
      BY <3>1, <3>2, Zenon DEF Registration, Registered
  <2>3. QED
    BY <2>1, <2>2, Zenon
<1>5. Control'
  BY <1>1 DEF Control, TypeOK
<1>6. (RegistryMatchesHeap /\ NoLeak /\ NoCorruption)'
  BY Zenon DEF RegistryMatchesHeap, NoLeak, NoCorruption
<1>7. QED
  BY <1>2, <1>3, <1>4, <1>5, <1>6, Zenon

\* Forgetting a pointer to the dangling address: no object goes with it.
LEMMA ForgetDangling ==
  ASSUME Discipline, NEW t \in Threads, NEW p \in own[t], p.addr = Dangling,
         Forget(t, p), UNCHANGED heap
  PROVE  Ownership' /\ NoLeak'
<1>1. /\ \A o \in Owners : own'[o] \subseteq own[o]
      /\ \A o \in Owners : \A q \in own[o] : q \in own'[o] \/ (o = t /\ q = p)
  BY ForgetOwned, Zenon
<1>2. \A q : Live(q)' <=> Live(q)
  BY Zenon DEF Live
<1>3. Ownership'
  BY <1>1, <1>2 DEF Discipline, Ownership
<1>4. NoLeak'
  <2> SUFFICES ASSUME NEW a \in Addrs, heap[a] # "free"
               PROVE  \E o \in Owners : \E q \in own'[o] : q.addr = a
    BY Zenon DEF NoLeak, Owners
  <2>1. PICK o \in Owners : \E q \in own[o] : q.addr = a
    BY Zenon DEF Discipline, NoLeak, Owners
  <2>2. PICK q \in own[o] : q.addr = a
    BY <2>1, Zenon
  <2>3. q \in own'[o]
    BY <1>1, <2>2, Zenon
  <2>4. QED
    BY <2>2, <2>3, Zenon
<1>5. QED
  BY <1>3, <1>4, Zenon

\* bytes_free finds every real buffer and puts it in flight; what it does not
\* find is the dangling address, freed before by another empty result.
LEMMA UnregisterBytesDiscipline ==
  ASSUME Discipline, NEW t \in Threads, BytesAllocator_unregister(t)
  PROVE  Discipline'
<1>1. /\ pc[t] = "release"
      /\ UNCHANGED <<heap, size, corrupt, strings, shape, left, out>>
  BY Zenon DEF BytesAllocator_unregister, heapVars, callVars
<1>2. PICK p \in own[t] :
        /\ p.kind = "bytes"
        /\ bytes' = [bytes EXCEPT ![p.addr] = Absent]
        /\ \/ /\ bytes[p.addr] # Absent
              /\ cur' = [cur EXCEPT ![t] = p]
              /\ curLen' = [curLen EXCEPT ![t] = bytes[p.addr]]
              /\ pc' = [pc EXCEPT ![t] = "dealloc"]
              /\ UNCHANGED own
           \/ /\ bytes[p.addr] = Absent
              /\ Forget(t, p)
              /\ UNCHANGED <<cur, curLen, pc>>
  BY ZenonT(30) DEF BytesAllocator_unregister
<1>3. /\ t \in Owners /\ p \in Ptr /\ p.addr \in Addrs \cup {Dangling}
      /\ bytes[p.addr] \in 0..Absent
  BY <1>2, OwnPtrs, Zenon DEF Discipline, Owners, TypeOK
<1>4. p.addr # Dangling => /\ bytes[p.addr] = size[p.addr] /\ bytes[p.addr] # Absent
                           /\ heap[p.addr] = "bytes" /\ p.addr \notin strings
  <2> SUFFICES ASSUME p.addr # Dangling
               PROVE  /\ bytes[p.addr] = size[p.addr] /\ bytes[p.addr] # Absent
                      /\ heap[p.addr] = "bytes" /\ p.addr \notin strings
    BY Zenon
  <2>1. bytes[p.addr] = size[p.addr] /\ p.addr \in Addrs /\ heap[p.addr] = "bytes"
    BY <1>1, <1>2, OwnedRegistered, Zenon DEF Registered
  <2>2. size[p.addr] \in 0..MaxLen
    BY <2>1, Zenon DEF Discipline, TypeOK
  <2>3. QED
    BY <2>1, <2>2 DEF Absent, Discipline, RegistryMatchesHeap
<1>5. RegistryMatchesHeap' /\ NoCorruption'
  BY <1>1, <1>2, <1>3, Zenon DEF Discipline, RegistryMatchesHeap, NoCorruption, TypeOK
<1>6. CASE bytes[p.addr] # Absent
  <2> USE <1>1, <1>2, <1>3, <1>6 DEF Discipline
  <2>0. bytes[p.addr] \in 0..MaxLen
    BY DEF Absent
  <2>1. TypeOK'
    <3>1. bytes' \in [Addrs \cup {Dangling} -> 0..Absent]
      BY DEF TypeOK, Absent
    <3>2. QED
      BY <2>0, <3>1 DEF TypeOK
  <2>2. Ownership' /\ NoLeak'
    BY DEF Ownership, Live, NoLeak
  <2>3. Registration'
    <3> SUFFICES ASSUME NEW o \in Owners, NEW q \in own[o], q.addr # Dangling
                 PROVE  IF InFlight(o, q)'
                        THEN /\ q.addr \notin strings /\ bytes'[q.addr] = Absent
                             /\ curLen'[o] = size[q.addr]
                        ELSE Registered(q)'
      BY Zenon DEF Registration
    <3>0. q.addr \in Addrs
      BY OwnPtrs, Zenon
    <3>1. CASE q = p /\ o = t
      BY <3>0, <3>1, <1>4 DEF InFlight, TypeOK
    <3>2. CASE ~(q = p /\ o = t)
      <4>1. q.addr # p.addr
        BY <3>2 DEF Ownership
      <4>2. InFlight(o, q)' <=> InFlight(o, q)
        BY <3>2 DEF InFlight, TypeOK
      <4>3. bytes'[q.addr] = bytes[q.addr] /\ (InFlight(o, q) => curLen'[o] = curLen[o])
        BY <3>0, <4>1 DEF TypeOK, InFlight
      <4>4. QED
        BY <4>1, <4>2, <4>3, Zenon DEF Registration, Registered
    <3>3. QED
      BY <3>1, <3>2, Zenon
  <2>4. Control'
    BY SMTT(30) DEF Control, TypeOK
  <2>5. QED
    BY <1>5, <2>1, <2>2, <2>3, <2>4, Zenon
<1>7. CASE bytes[p.addr] = Absent
  <2> USE <1>1, <1>2, <1>3, <1>7 DEF Discipline
  <2>0. p.addr = Dangling
    BY <1>4, Zenon
  <2>1. Ownership' /\ NoLeak'
    BY <2>0, ForgetDangling, Zenon
  <2>2. /\ own' \in [Owners -> SUBSET Ptr]
        /\ \A o \in Owners : own'[o] \subseteq own[o]
        /\ \A o \in Owners : \A q \in own[o] : q \in own'[o] \/ (o = t /\ q = p)
    BY ForgetOwned, Zenon
  <2>3. TypeOK'
    BY <2>2, SMTT(30) DEF TypeOK, Owners, Absent
  <2>4. Registration'
    <3>1. \A o \in Owners : \A q : InFlight(o, q)' <=> InFlight(o, q)
      BY Zenon DEF InFlight
    <3>2. \A q : q.addr # Dangling => (Registered(q)' <=> Registered(q))
      BY <2>0 DEF Registered, TypeOK
    <3>3. \A a \in Addrs : bytes'[a] = bytes[a]
      BY <2>0, Zenon DEF TypeOK
    <3>4. ASSUME NEW o \in Owners, NEW q \in own'[o], q.addr # Dangling
          PROVE  IF InFlight(o, q)'
                 THEN /\ q.addr \notin strings /\ bytes'[q.addr] = Absent
                      /\ curLen[o] = size[q.addr]
                 ELSE Registered(q)'
      <4>1. q \in own[o] /\ q.addr \in Addrs
        BY <2>2, <3>4, OwnPtrs, Zenon
      <4>2. QED
        BY <4>1, <3>1, <3>2, <3>3, <3>4, Zenon DEF Registration
    <3>5. QED
      BY <3>4, Zenon DEF Registration
  <2>5. Control'
    <3>1. \A u \in Threads : pc[u] \in {"register", "unregister", "dealloc"} => cur[u] \in own'[u]
      BY <2>2, Zenon DEF Control, Owners
    <3>2. \A o \in Owners : own[o] = {} => own'[o] = {}
      BY <2>2, Zenon
    <3>3. \A u \in Threads : pc[u] = "idle" => own'[u] = {}
      BY <3>2, Zenon DEF Control, Owners
    <3>4. ASSUME NEW u \in Threads, out[u] # None
          PROVE  own'[out[u]] = {}
      <4>1. out[u] \in Owners
        BY <3>4, Zenon DEF Owners, TypeOK
      <4>2. own[out[u]] = {}
        BY <3>4, Zenon DEF Control
      <4>3. QED
        BY <3>2, <4>1, <4>2, Zenon
    <3>5. QED
      BY <3>1, <3>3, <3>4 DEF Control
  <2>6. QED
    BY <1>5, <2>1, <2>3, <2>4, <2>5, Zenon
<1>8. QED
  BY <1>6, <1>7, Zenon

\* Deallocating an object together with the only pointer to it, once no
\* registry knows its address.
LEMMA DropOwned ==
  ASSUME Discipline, NEW t \in Threads, NEW p \in own[t], p.addr # Dangling,
         Forget(t, p), Drop(p, size[p.addr]),
         p.addr \notin strings, bytes[p.addr] = Absent,
         UNCHANGED <<strings, bytes>>
  PROVE  /\ heap' \in [Addrs -> Kinds \cup {"free"}] /\ size' \in [Addrs -> 0..MaxLen]
         /\ \A a \in Addrs : a # p.addr => heap'[a] = heap[a] /\ size'[a] = size[a]
         /\ \A o \in Owners : \A q \in own'[o] : q.addr # p.addr
         /\ Ownership' /\ NoLeak' /\ RegistryMatchesHeap' /\ corrupt' = corrupt
         /\ \A a \in Addrs : heap'[a] # "bytes" => size'[a] = 0
<1>1. /\ t \in Owners /\ p.addr \in Addrs /\ heap[p.addr] = p.kind
      /\ size[p.addr] \in 0..MaxLen
  <2>1. t \in Owners
    BY SMTT(30) DEF Owners
  <2>2. p.addr \in Addrs \cup {Dangling} /\ Live(p)
    BY <2>1, OwnPtrs, Zenon DEF Discipline, Ownership
  <2>3. QED
    BY <2>1, <2>2, Zenon DEF Live, Discipline, TypeOK
<1>2. /\ heap' = [heap EXCEPT ![p.addr] = "free"]
      /\ size' = [size EXCEPT ![p.addr] = 0]
  BY Zenon DEF Drop
<1>3. corrupt' = corrupt
  <2>1. corrupt' = (corrupt \/ heap[p.addr] # p.kind \/ size[p.addr] # size[p.addr])
    BY Zenon DEF Drop
  <2>2. corrupt \in BOOLEAN
    BY Zenon DEF Discipline, TypeOK
  <2>3. QED
    BY <1>1, <2>1, <2>2, Zenon
<1>4. /\ heap' \in [Addrs -> Kinds \cup {"free"}] /\ size' \in [Addrs -> 0..MaxLen]
      /\ \A a \in Addrs : a # p.addr => heap'[a] = heap[a] /\ size'[a] = size[a]
      /\ heap'[p.addr] = "free" /\ size'[p.addr] = 0
  BY <1>1, <1>2 DEF Discipline, TypeOK
<1>5. /\ \A o \in Owners : own'[o] \subseteq own[o]
      /\ \A o \in Owners : \A q \in own[o] : q \in own'[o] \/ (o = t /\ q = p)
      /\ p \notin own'[t]
  BY ForgetOwned, Zenon
<1>6. \A o \in Owners : \A q \in own'[o] : q.addr # p.addr
  BY <1>1, <1>5 DEF Discipline, Ownership
<1>7. Ownership'
  <2>1. \A o \in Owners : \A q \in own'[o] : Live(q)'
    <3> SUFFICES ASSUME NEW o \in Owners, NEW q \in own'[o]
                 PROVE  Live(q)'
      BY Zenon
    <3>1. q \in own[o] /\ q.addr # p.addr
      BY <1>5, <1>6, Zenon
    <3>2. Live(q) /\ q.addr \in Addrs \cup {Dangling}
      BY <3>1, OwnPtrs, SMTT(30) DEF Discipline, Ownership
    <3>3. QED
      BY <1>4, <3>1, <3>2, Zenon DEF Live
  <2>2. QED
    BY <1>5, <2>1 DEF Discipline, Ownership
<1>8. NoLeak'
  <2> SUFFICES ASSUME NEW a \in Addrs, heap'[a] # "free"
               PROVE  \E o \in Owners : \E q \in own'[o] : q.addr = a
    BY Zenon DEF NoLeak, Owners
  <2>1. a # p.addr /\ heap[a] # "free"
    BY <1>4, Zenon
  <2>2. PICK o \in Owners : \E q \in own[o] : q.addr = a
    BY <2>1, Zenon DEF Discipline, NoLeak, Owners
  <2>3. PICK q \in own[o] : q.addr = a
    BY <2>2, Zenon
  <2>4. q \in own'[o]
    BY <1>5, <2>1, <2>3, Zenon
  <2>5. QED
    BY <2>3, <2>4, Zenon
<1>9. RegistryMatchesHeap'
  BY <1>4 DEF Discipline, RegistryMatchesHeap, TypeOK
<1>10. \A a \in Addrs : heap'[a] # "bytes" => size'[a] = 0
  BY <1>4, SMTT(30) DEF Discipline, Registration
<1>11. QED
  BY <1>3, <1>4, <1>6, <1>7, <1>8, <1>9, <1>10, Zenon

\* Owned pointers other than the one a thread lets go of stay registered or
\* in flight as they were.
LEMMA KeepRegistration ==
  ASSUME Discipline, NEW t \in Threads, pc[t] \in {"release", "dealloc"},
         pc[t] = "dealloc" /\ cur[t].addr # Dangling => cur[t] \notin own'[t],
         UNCHANGED <<strings, bytes>>,
         \A o \in Owners : own'[o] \subseteq own[o],
         \A o \in Owners : \A q \in own'[o] : q.addr # Dangling => size'[q.addr] = size[q.addr],
         pc' = [pc EXCEPT ![t] = "release"] \/ pc' = [pc EXCEPT ![t] = "idle"],
         \A u \in Threads : u # t => cur'[u] = cur[u] /\ curLen'[u] = curLen[u],
         \A a \in Addrs : heap'[a] # "bytes" => size'[a] = 0
  PROVE  Registration'
<1> SUFFICES ASSUME NEW o \in Owners, NEW q \in own'[o], q.addr # Dangling
             PROVE  IF InFlight(o, q)'
                    THEN /\ q.addr \notin strings /\ bytes[q.addr] = Absent
                         /\ curLen'[o] = size'[q.addr]
                    ELSE Registered(q)'
  BY Zenon DEF Registration
<1>1. q \in own[o] /\ size'[q.addr] = size[q.addr]
  BY Zenon
<1>2. Registered(q)' <=> Registered(q)
  BY <1>1, Zenon DEF Registered
<1>3. CASE o = t
  <2>1. ~InFlight(o, q)'
    BY <1>3 DEF InFlight, Discipline, TypeOK
  <2>2. ~InFlight(o, q)
    BY <1>3, Zenon DEF InFlight
  <2>3. QED
    BY <1>1, <1>2, <2>1, <2>2, Zenon DEF Discipline, Registration
<1>4. CASE o # t
  <2>1. (InFlight(o, q)' <=> InFlight(o, q)) /\ (InFlight(o, q) => curLen'[o] = curLen[o])
    BY <1>4, SMTT(30) DEF InFlight, Discipline, TypeOK
  <2>2. QED
    BY <1>1, <1>2, <2>1, Zenon DEF Discipline, Registration
<1>5. QED
  BY <1>3, <1>4, Zenon

\* The deallocation of a string or buffer is of the object in flight.
LEMMA DropElementDiscipline ==
  ASSUME Discipline, EmptyBuffers, NEW t \in Threads, DropElement(t)
  PROVE  Discipline'
<1>1. /\ pc[t] = "dealloc" /\ Drop(cur[t], curLen[t]) /\ Forget(t, cur[t])
      /\ pc' = [pc EXCEPT ![t] = "release"]
      /\ cur' = [cur EXCEPT ![t] = None]
      /\ curLen' = [curLen EXCEPT ![t] = 0]
      /\ UNCHANGED <<strings, bytes, shape, left, out>>
  BY SMTT(30) DEF DropElement, callVars
<1>2. t \in Owners /\ cur[t] \in own[t] /\ InFlight(t, cur[t])
  BY <1>1, Zenon DEF Discipline, Control, Owners, InFlight
<1>3. cur[t].addr # Dangling =>
        /\ cur[t].addr \notin strings /\ bytes[cur[t].addr] = Absent
        /\ curLen[t] = size[cur[t].addr]
  BY <1>2, SMTT(30) DEF Discipline, Registration
<1>4. /\ own' \in [Owners -> SUBSET Ptr]
      /\ \A o \in Owners : own'[o] \subseteq own[o]
      /\ \A o \in Owners : \A q \in own[o] : q \in own'[o] \/ (o = t /\ q = cur[t])
      /\ cur[t].addr # Dangling => cur[t] \notin own'[t]
  BY <1>1, <1>2, ForgetOwned, Zenon
<1>5. /\ heap' \in [Addrs -> Kinds \cup {"free"}] /\ size' \in [Addrs -> 0..MaxLen]
      /\ \A o \in Owners : \A q \in own'[o] : q.addr # Dangling => size'[q.addr] = size[q.addr]
      /\ Ownership' /\ NoLeak' /\ RegistryMatchesHeap' /\ corrupt' = corrupt
      /\ \A a \in Addrs : heap'[a] # "bytes" => size'[a] = 0
  <2>1. CASE cur[t].addr = Dangling
    <3>1. UNCHANGED <<heap, size, corrupt>>
      <4>1. curLen[t] = 0 /\ corrupt \in BOOLEAN
        BY <1>1, <2>1, Zenon DEF EmptyBuffers, Discipline, TypeOK
      <4>2. QED
        BY <1>1, <2>1, <4>1, Zenon DEF Drop
    <3>2. Ownership' /\ NoLeak'
      BY <1>1, <1>2, <2>1, <3>1, ForgetDangling, Zenon
    <3>3. QED
      BY <1>1, <3>1, <3>2, SMTT(30) DEF Discipline, TypeOK, RegistryMatchesHeap, Registration
  <2>2. CASE cur[t].addr # Dangling
    <3>1. /\ heap' \in [Addrs -> Kinds \cup {"free"}] /\ size' \in [Addrs -> 0..MaxLen]
          /\ \A a \in Addrs : a # cur[t].addr => heap'[a] = heap[a] /\ size'[a] = size[a]
          /\ \A o \in Owners : \A q \in own'[o] : q.addr # cur[t].addr
          /\ Ownership' /\ NoLeak' /\ RegistryMatchesHeap' /\ corrupt' = corrupt
          /\ \A a \in Addrs : heap'[a] # "bytes" => size'[a] = 0
      BY <1>1, <1>2, <1>3, <2>2, DropOwned, Zenon
    <3>2. \A o \in Owners : \A q \in own'[o] : q.addr \in Addrs \cup {Dangling}
      BY <1>4, OwnPtrs, SMTT(30) DEF Discipline
    <3>3. \A o \in Owners : \A q \in own'[o] : q.addr # Dangling => size'[q.addr] = size[q.addr]
      BY <3>1, <3>2, Zenon
    <3>4. QED
      BY <3>1, <3>3, Zenon
  <2>3. QED
    BY <2>1, <2>2, Zenon
<1>6. Registration'
  <2>1. \A u \in Threads : u # t => cur'[u] = cur[u] /\ curLen'[u] = curLen[u]
    BY <1>1, Zenon DEF Discipline, TypeOK
  <2>2. QED
    BY <1>1, <1>4, <1>5, <2>1, KeepRegistration, ZenonT(30)
<1>7. TypeOK'
  <2>1. 0 \in 0..MaxLen
    OBVIOUS
  <2>2. cur' \in [Threads -> Ptr \cup {None}] /\ curLen' \in [Threads -> 0..MaxLen]
    BY <1>1, <2>1, Zenon DEF Discipline, TypeOK
  <2>3. QED
    BY <1>1, <1>4, <1>5, <2>2, Zenon DEF Discipline, TypeOK, Owners
<1>8. Control'
  <2>1. \A u \in Threads : out[u] # None => own'[out[u]] = {}
    BY <1>4 DEF Discipline, Control, Owners, TypeOK
  <2>2. \A u \in Threads : u # t =>
          /\ own'[u] = own[u] /\ pc'[u] = pc[u] /\ cur'[u] = cur[u] /\ curLen'[u] = curLen[u]
    BY <1>1, Zenon DEF Discipline, TypeOK, Forget
  <2>3. pc'[t] = "release" /\ curLen'[t] = 0
    BY <1>1, Zenon DEF Discipline, TypeOK
  <2>4. Control
    BY Zenon DEF Discipline
  <2>5. \A u \in Threads :
          /\ pc'[u] = "idle" => own'[u] = {}
          /\ pc'[u] \in {"register", "unregister", "dealloc"} =>
                cur'[u] \in own'[u] /\ cur'[u].kind # "arr"
          /\ pc'[u] = "unregister" => cur'[u].kind = "str"
          /\ pc'[u] \notin {"register", "dealloc"} => curLen'[u] = 0
    BY <2>2, <2>3, <2>4 DEF Control
  <2>6. \A u \in Threads :
          /\ pc'[u] = "register" => left[u] > 0
          /\ pc'[u] \in {"build", "register"} => out[u] \in Slots
    BY <2>2, <2>3, <2>4, Zenon DEF Control
  <2>7. QED
    BY <1>1, <2>1, <2>4, <2>5, <2>6, Zenon DEF Control
<1>9. NoCorruption'
  BY <1>5, Zenon DEF Discipline, NoCorruption
<1>10. QED
  BY <1>5, <1>6, <1>7, <1>8, <1>9, Zenon DEF Discipline

\* The array is the last object of its result, and it was never registered.
LEMMA ReleaseDoneDiscipline ==
  ASSUME Discipline, NEW t \in Threads, ReleaseDone(t)
  PROVE  Discipline'
<1>1. /\ pc[t] = "release" /\ \A p \in own[t] : p.kind = "arr"
      /\ own' = [own EXCEPT ![t] = {}]
      /\ pc' = [pc EXCEPT ![t] = "idle"]
      /\ out' = [out EXCEPT ![t] = None]
      /\ UNCHANGED <<strings, bytes, shape, left, cur, curLen>>
  BY Zenon DEF ReleaseDone
<1>2. \A o \in Owners : own'[o] = IF o = t THEN {} ELSE own[o]
  BY <1>1, Zenon DEF Discipline, TypeOK, Owners
<1>3. t \in Owners
  BY SMTT(30) DEF Owners
<1>4. /\ heap' \in [Addrs -> Kinds \cup {"free"}] /\ size' \in [Addrs -> 0..MaxLen]
      /\ \A o \in Owners : \A q \in own'[o] : q.addr # Dangling => size'[q.addr] = size[q.addr]
      /\ Ownership' /\ NoLeak' /\ RegistryMatchesHeap' /\ corrupt' = corrupt
      /\ \A a \in Addrs : heap'[a] # "bytes" => size'[a] = 0
  <2>1. CASE own[t] = {} /\ UNCHANGED heapVars
    <3>1. own' = own
      BY <1>1, <2>1 DEF Discipline, TypeOK
    <3>2. heap' = heap /\ size' = size /\ corrupt' = corrupt /\ strings' = strings /\ bytes' = bytes
      BY <1>1, <2>1, Zenon DEF heapVars
    <3>3. Ownership'
      BY <3>1, <3>2 DEF Discipline, Ownership, Live
    <3>4. NoLeak'
      BY <3>1, <3>2, Zenon DEF Discipline, NoLeak
    <3>5. RegistryMatchesHeap'
      BY <3>2, Zenon DEF Discipline, RegistryMatchesHeap
    <3>6. \A a \in Addrs : heap'[a] # "bytes" => size'[a] = 0
      BY <3>2, Zenon DEF Discipline, Registration
    <3>7. heap' \in [Addrs -> Kinds \cup {"free"}] /\ size' \in [Addrs -> 0..MaxLen]
      BY <3>2, SMTT(30) DEF Discipline, TypeOK
    <3>8. QED
      BY <3>2, <3>3, <3>4, <3>5, <3>6, <3>7, Zenon
  <2>2. ASSUME NEW p \in own[t], Drop(p, 0)
        PROVE  /\ heap' \in [Addrs -> Kinds \cup {"free"}] /\ size' \in [Addrs -> 0..MaxLen]
               /\ \A o \in Owners : \A q \in own'[o] : q.addr # Dangling => size'[q.addr] = size[q.addr]
               /\ Ownership' /\ NoLeak' /\ RegistryMatchesHeap' /\ corrupt' = corrupt
               /\ \A a \in Addrs : heap'[a] # "bytes" => size'[a] = 0
    <3>1. p.kind = "arr" /\ p.addr # Dangling /\ p.addr \in Addrs /\ heap[p.addr] = "arr"
      BY <1>1, <1>3, OwnPtrs, Zenon DEF Discipline, Ownership, Live
    <3>2. own[t] = {p}
      BY <1>1, <1>3, <3>1 DEF Discipline, Ownership
    <3>3. Forget(t, p)
      BY <1>1, <3>2, ZenonT(30) DEF Forget
    <3>4. p.addr \notin strings /\ bytes[p.addr] = Absent /\ size[p.addr] = 0
      BY <3>1, Zenon DEF Discipline, RegistryMatchesHeap, Registration
    <3>5. /\ heap' \in [Addrs -> Kinds \cup {"free"}] /\ size' \in [Addrs -> 0..MaxLen]
          /\ \A a \in Addrs : a # p.addr => heap'[a] = heap[a] /\ size'[a] = size[a]
          /\ \A o \in Owners : \A q \in own'[o] : q.addr # p.addr
          /\ Ownership' /\ NoLeak' /\ RegistryMatchesHeap' /\ corrupt' = corrupt
          /\ \A a \in Addrs : heap'[a] # "bytes" => size'[a] = 0
      BY <1>1, <2>2, <3>1, <3>3, <3>4, DropOwned, Zenon
    <3>6. \A o \in Owners : \A q \in own'[o] : q.addr \in Addrs \cup {Dangling}
      BY <1>2, OwnPtrs, SMTT(30) DEF Discipline
    <3>7. QED
      BY <3>5, <3>6, ZenonT(30)
  <2>3. QED
    BY <2>1, <2>2, Zenon DEF ReleaseDone
<1>5. Registration'
  <2>1. \A o \in Owners : own'[o] \subseteq own[o]
    BY <1>2, Zenon
  <2>2. QED
    BY <1>1, <1>4, <2>1, KeepRegistration, ZenonT(30)
<1>6. TypeOK'
  BY <1>1, <1>4, Zenon DEF Discipline, TypeOK
<1>7. Control'
  <2>1. \A u \in Threads : out'[u] # None => out'[u] = out[u] /\ own'[out[u]] = {}
    BY <1>1, <1>2 DEF Discipline, Control, TypeOK, Owners
  <2>2. QED
    BY <1>1, <1>2, <1>3, <2>1 DEF Discipline, Control, TypeOK, Owners
<1>8. NoCorruption'
  BY <1>4, Zenon DEF Discipline, NoCorruption
<1>9. QED
  BY <1>4, <1>5, <1>6, <1>7, <1>8, Zenon DEF Discipline

-----------------------------------------------------------------------------
\* One case per action of Next.
LEMMA NextDiscipline ==
  ASSUME IInv, ~Careless, [Next]_vars
  PROVE  Discipline'
<1>0. Discipline /\ EmptyBuffers
  BY Zenon DEF IInv
<1> USE <1>0
<1>1. CASE UNCHANGED vars
  <2>1. TypeOK'
    BY <1>1, Zenon DEF vars, Discipline, TypeOK
  <2>2. Ownership'
    BY <1>1, SMTT(30) DEF vars, Discipline, Ownership, Live
  <2>3. Registration'
    BY <1>1, SMTT(30) DEF vars, Discipline, Registration, Registered, InFlight
  <2>4. Control'
    BY <1>1, SMTT(30) DEF vars, Discipline, Control
  <2>5. RegistryMatchesHeap' /\ NoLeak' /\ NoCorruption'
    BY <1>1, SMTT(30) DEF vars, Discipline, RegistryMatchesHeap, NoLeak, NoCorruption
  <2>6. QED
    BY <2>1, <2>2, <2>3, <2>4, <2>5, Zenon DEF Discipline
<1>2. ASSUME NEW t \in Threads, NEW s \in Slots, Read(t, s)
      PROVE  Discipline'
  <2>1. CASE f4kvs_engine_get(t, s) \/ f4kvs_engine_get_bytes(t, s)
    BY <2>1, GetOneDiscipline, Zenon DEF f4kvs_engine_get, f4kvs_engine_get_bytes
  <2>2. CASE f4kvs_engine_scan_prefix_keys(t, s)
    BY <2>2, ScanDiscipline, Zenon DEF f4kvs_engine_scan_prefix_keys
  <2>3. CASE f4kvs_engine_scan_prefix(t, s)
    BY <2>3, ScanDiscipline, Zenon DEF f4kvs_engine_scan_prefix
  <2>4. CASE fill_scan_result_kv(t, s)
    BY <2>4, ScanDiscipline, Zenon DEF fill_scan_result_kv
  <2>5. QED
    BY <1>2, <2>1, <2>2, <2>3, <2>4, Zenon DEF Read
<1>3. ASSUME NEW t \in Threads, NEW s \in Slots, Free(t, s)
      PROVE  Discipline'
  BY <1>3, FreeCallDiscipline, SMTT(30) DEF Free, f4kvs_string_free, f4kvs_bytes_free,
     f4kvs_key_scan_result_free, f4kvs_scan_result_free, f4kvs_scan_result_kv_free
<1>4. ASSUME NEW t \in Threads, Step(t)
      PROVE  Discipline'
  BY <1>4, AllocStringDiscipline, AllocBytesDiscipline, RegisterStringDiscipline, RegisterBytesDiscipline,
     ReturnDiscipline, IsAllocatedDiscipline, UnregisterStringDiscipline, UnregisterBytesDiscipline,
     DropElementDiscipline, ReleaseDoneDiscipline, Zenon DEF Step
<1>5. QED
  BY <1>1, <1>2, <1>3, <1>4, Zenon DEF Next

\* The entry that empty buffers share: made with length 0 and removed as a
\* whole, whichever thread does either.
LEMMA NextEmptyBuffers ==
  ASSUME IInv, [Next]_vars
  PROVE  EmptyBuffers'
<1> USE DEF IInv, Discipline
<1>1. CASE UNCHANGED vars
  BY <1>1, Zenon DEF vars, EmptyBuffers
<1>2. ASSUME NEW t \in Threads, UNCHANGED <<bytes, cur, curLen>>,
             NEW where \in {"idle", "build", "release", "unregister"},
             pc' = [pc EXCEPT ![t] = where]
      PROVE  EmptyBuffers'
  BY <1>2 DEF EmptyBuffers, TypeOK
<1>3. ASSUME NEW t \in Threads, NEW s \in Slots, Read(t, s)
      PROVE  EmptyBuffers'
  BY <1>2, <1>3, Zenon DEF Read, f4kvs_engine_get, f4kvs_engine_get_bytes, GetOne, Scan, Begin,
     f4kvs_engine_scan_prefix_keys, f4kvs_engine_scan_prefix, fill_scan_result_kv
<1>4. ASSUME NEW t \in Threads, NEW s \in Slots, Free(t, s)
      PROVE  EmptyBuffers'
  BY <1>2, <1>4, Zenon DEF Free, FreeCall, f4kvs_string_free, f4kvs_bytes_free,
     f4kvs_key_scan_result_free, f4kvs_scan_result_free, f4kvs_scan_result_kv_free
<1>5. ASSUME NEW t \in Threads, Step(t)
      PROVE  EmptyBuffers'
  <2>1. CASE allocate_c_string(t)
    BY <2>1 DEF allocate_c_string, EmptyBuffers, TypeOK, P
  <2>2. CASE allocate_bytes(t)
    BY <2>2 DEF allocate_bytes, EmptyBuffers, TypeOK, P
  <2>3. CASE StringAllocator_register(t)
    BY <2>3 DEF StringAllocator_register, Register, EmptyBuffers, TypeOK
  <2>4. CASE BytesAllocator_register(t)
    BY <2>4 DEF BytesAllocator_register, Register, EmptyBuffers, TypeOK
  <2>5. CASE ReturnResult(t) \/ ReleaseDone(t)
    BY <1>2, <2>5, Zenon DEF ReturnResult, ReleaseDone
  <2>6. CASE StringAllocator_is_allocated(t)
    BY <2>6 DEF StringAllocator_is_allocated, EmptyBuffers, TypeOK
  <2>7. CASE StringAllocator_unregister(t)
    BY <2>7 DEF StringAllocator_unregister, Control, EmptyBuffers, TypeOK
  <2>8. CASE BytesAllocator_unregister(t)
    BY <2>8 DEF BytesAllocator_unregister, EmptyBuffers, TypeOK
  <2>9. CASE DropElement(t)
    BY <2>9 DEF DropElement, EmptyBuffers, TypeOK
  <2>10. QED
    BY <1>5, <2>1, <2>2, <2>3, <2>4, <2>5, <2>6, <2>7, <2>8, <2>9, Zenon DEF Step
<1>6. QED
  BY <1>1, <1>3, <1>4, <1>5, Zenon DEF Next

\* With any number of threads, results and addresses, a client that forgets
\* what it frees keeps the ownership discipline of allocate_* and *_free.
THEOREM OwnershipDiscipline ==
  ASSUME ~Careless
  PROVE  Spec => []IInv
<1>1. Init => IInv
  BY InitDiscipline, Zenon DEF Init, EmptyBuffers, IInv
<1>2. IInv /\ [Next]_vars => IInv'
  BY NextDiscipline, NextEmptyBuffers, Zenon DEF IInv
<1>3. QED
  BY <1>1, <1>2, PTL DEF Spec

\* Every pointer a client holds stays live and known to its registry until
\* the client frees it, whatever other threads allocate and free meanwhile.
THEOREM HeldPointersUsable ==
  ASSUME ~Careless
  PROVE  Spec => []HeldUsable
<1>1. IInv => HeldUsable
  <2> SUFFICES ASSUME IInv, NEW s \in Slots, NEW p \in own[s]
               PROVE  Live(p) /\ Registered(p)
    BY Zenon DEF HeldUsable
  <2>1. s \in Owners /\ ~InFlight(s, p)
    BY SMTT(30) DEF Owners, InFlight
  <2>2. CASE p.addr = Dangling
    BY <2>1, <2>2, SMTT(30) DEF IInv, Discipline, Ownership, Registered
  <2>3. CASE p.addr # Dangling
    BY <2>1, <2>3, Zenon DEF IInv, Discipline, Ownership, Registration
  <2>4. QED
    BY <2>2, <2>3, Zenon
<1>2. QED
  BY <1>1, OwnershipDiscipline, PTL

\* No free function ever hands the system allocator memory that is not
\* there, is of another kind or has another length.
THEOREM FreesAreExact ==
  ASSUME ~Careless
  PROVE  Spec => []NoCorruption
<1>1. IInv => NoCorruption
  BY Zenon DEF IInv, Discipline
<1>2. QED
  BY <1>1, OwnershipDiscipline, PTL

\* No error path and no interleaving leaves an allocation without an owner.
THEOREM NothingLeaks ==
  ASSUME ~Careless
  PROVE  Spec => []NoLeak
<1>1. IInv => NoLeak
  BY Zenon DEF IInv, Discipline
<1>2. QED
  BY <1>1, OwnershipDiscipline, PTL

\* A registry entry always describes the allocation at its address, with its
\* length: the order of registry and heap operations in allocate_* and *_free.
THEOREM RegistriesMatchHeap ==
  ASSUME ~Careless
  PROVE  Spec => []RegistryMatchesHeap
<1>1. IInv => RegistryMatchesHeap
  BY Zenon DEF IInv, Discipline
<1>2. QED
  BY <1>1, OwnershipDiscipline, PTL

\* Type correctness.
THEOREM TypeCorrect ==
  ASSUME ~Careless
  PROVE  Spec => []TypeOK
<1>1. IInv => TypeOK
  BY Zenon DEF IInv, Discipline
<1>2. QED
  BY <1>1, OwnershipDiscipline, PTL
=============================================================================
