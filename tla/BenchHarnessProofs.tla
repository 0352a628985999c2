------------------------- MODULE BenchHarnessProofs -------------------------
(* Proofs about BenchHarness, for any flags, any number of processes and   *)
(* any number of faults: the invariants, and that each step keeps them.    *)
(* What the scripts are like is an assumption of theirs, by the name it    *)
(* has in BenchTraces.  BenchProofs puts the two together.                 *)
EXTENDS BenchHarness, BenchTraces, TLAPS

\* Steps that name no prover are for Zenon.
USE ZenonT(60)

Counts == [memoir : Nat, chunk : Nat]
StoreSet == [open : BOOLEAN, lazy : BOOLEAN, limit : Nat, acked : Counts, safe : Counts, units : Nat]
RowSet == [phase : RowPhases, profile : Known, metric : Metrics \cup {""}, value : Nat, units : Nat,
           durable : BOOLEAN]

\* A store at a path: all it has acknowledged is durable, unless it is lazy.
GoodStore(p, s) ==
    /\ s \in StoreSet /\ \A k \in Keys : s.safe[k] <= s.acked[k]
    /\ IF s.lazy THEN p \in LazyPaths ELSE s.safe = s.acked

\* Nothing of a store waits for a flush, just after its FlushWAL and after
\* the SetBulkImport that follows one.
AfterFlush ==
    status = "running" =>
        LET s == Scripts[flags]
            at == s[pc - 1].at
        IN  \/ pc > 1 /\ s[pc - 1] = FlushWAL(at)
            \/ pc > 2 /\ s[pc - 1] = SetBulkImport(at) /\ s[pc - 2] = FlushWAL(at)
            => Store(at).safe = Store(at).acked

\* What BenchScriptProofs shows of the scripts.
GoodScripts == \A f \in Flags : Scripts[f] \in Good(f)
StackScripts == \A f \in Flags : Scripts[f] \in Leads(Stacks, <<<<>>, {}>>, <<<<>>, {}>>)
StageScripts ==
    \A f \in Flags \cap EmbedFlags(RunIds), p \in Known :
        \E b \in {"before", "passed"} : Scripts[f] \in Leads(Staging(f, p), "before", b)
RankScripts ==
    \A f \in Flags \cap EmbedFlags(RunIds) :
        /\ Wanted(f) \subseteq Known
        /\ \A p \in Known : Scripts[f] \in Leads(Ranks(p), 0, IF p \in Wanted(f) THEN LastRank(p) ELSE 0)
PublishScripts ==
    \A f \in Flags \cap EmbedFlags(RunIds) :
        Scripts[f] \in Leads(Publishing(f), "none", IF f.root THEN "published" ELSE "none")

\* What the variables hold.
HTypes ==
    /\ GoodScripts
    /\ runs \in 0 .. MaxRuns /\ faults \in 0 .. MaxFaults /\ counted \in Nat /\ prepared \in Nat
    /\ status \in Working \cup Ends
    /\ status \in Working => flags \in Flags /\ pc \in 1 .. Len(Scripts[flags]) + 1
    /\ defers \in Seq(Put_Off) /\ rows \in Seq(RowSet)
    /\ wpc # "none" => status \in Working

\* Of the writes that are to be counted for a row of batched ingest, those
\* that have been made are in the units of its store: n calls of the script
\* have been made, and the k writes come just after call b.
Done(b, k, n) == IF n <= b THEN 0 ELSE IF n <= b + k THEN n - b ELSE k
CountsUnits ==
    status = "running" =>
        LET s == Scripts[flags]
        IN  \A i, a, b \in 1 .. Len(s) :
                /\ Batched(s[i]) /\ s[i].at \notin LazyPaths /\ a < pc /\ pc <= i
                /\ Window(s, i, a, b, UnitsOf(flags, s[i].profile))
                => Store(s[i].at).units = Done(b, UnitsOf(flags, s[i].profile), pc - 1)

GoodStores == \A p \in DOMAIN stores : GoodStore(p, stores[p])

HInv == HTypes /\ GoodStores /\ AfterFlush /\ DurableRows /\ ComparesNameFaster

-----------------------------------------------------------------------------
(* Stores.                                                                 *)

LEMMA StoreGood ==
  ASSUME GoodStores, NEW p
  PROVE  GoodStore(p, Store(p))
<1>1. Zero \in Counts
  BY DEF Zero, Counts
<1>2. NewStore \in StoreSet /\ NewStore.safe = Zero /\ NewStore.acked = Zero /\ ~NewStore.lazy
  BY <1>1 DEF NewStore, StoreSet
<1>3. GoodStore(p, NewStore)
  BY <1>2, SMT DEF GoodStore, Zero, Keys
<1>4. QED
  BY <1>3 DEF Store, GoodStores

LEMMA WithGood ==
  ASSUME GoodStores, NEW p, NEW s, GoodStore(p, s), stores' = With(p, s)
  PROVE  /\ GoodStores' /\ Store(p)' = s
         /\ \A q : q # p => Store(q)' = Store(q)
<1>1. /\ DOMAIN stores' = DOMAIN stores \cup {p} /\ stores'[p] = s
      /\ \A q \in DOMAIN stores \ {p} : stores'[q] = stores[q]
  BY DEF With
<1>2. GoodStores'
  BY <1>1 DEF GoodStores
<1>3. QED
  BY <1>1, <1>2 DEF Store

\* A write keeps a store good.
LEMMA WrittenGood ==
  ASSUME NEW p, NEW s, GoodStore(p, s), NEW c \in WriteCalls
  PROVE  GoodStore(p, Written(s, c)) /\ (~s.lazy => Written(s, c).units = s.units + 1)
<1> DEFINE top == IF s.acked[c.key] < c.upto THEN c.upto ELSE s.acked[c.key]
           acked == [s.acked EXCEPT ![c.key] = top]
           t == [s EXCEPT !.acked = acked]
<1>1. s \in StoreSet /\ s.acked \in Counts /\ s.safe \in Counts /\ c.key \in Keys /\ c.upto \in Int
  BY DEF GoodStore, StoreSet, WriteCalls
<1>2. \A k \in Keys : s.acked[k] \in Nat /\ s.safe[k] \in Nat
  BY <1>1 DEF Counts, Keys
<1>3. top \in Nat /\ top >= s.acked[c.key]
  BY <1>1, <1>2, SMT
<1>4. acked \in Counts /\ \A k \in Keys : s.safe[k] <= acked[k]
  <2>1. DOMAIN s.acked = Keys /\ DOMAIN acked = Keys
    BY <1>1 DEF Counts, Keys
  <2>2. \A k \in Keys : acked[k] = IF k = c.key THEN top ELSE s.acked[k]
    BY <2>1
  <2> HIDE DEF top
  <2>3. \A k \in Keys : s.safe[k] <= s.acked[k]
    BY DEF GoodStore
  <2>4. acked \in Counts
    BY <1>1, <1>3 DEF Counts, Keys
  <2> HIDE DEF acked
  <2>5. QED
    BY <1>2, <1>3, <2>2, <2>3, <2>4, SMT
<1>5. t = [s EXCEPT !.acked[c.key] = IF @ < c.upto THEN c.upto ELSE @]
  BY <1>1 DEF StoreSet
<1> HIDE DEF acked
<1>6. /\ t \in StoreSet /\ t.lazy = s.lazy /\ t.acked = acked /\ t.safe = s.safe /\ t.units = s.units
  BY <1>1, <1>4 DEF StoreSet
<1>7. CASE s.lazy
  <2>1. Written(s, c) = t
    BY <1>5, <1>7 DEF Written
  <2> HIDE DEF t
  <2>2. QED
    BY <1>4, <1>6, <1>7, <2>1, ZenonT(60) DEF GoodStore
<1>8. CASE ~s.lazy
  <2>1. Written(s, c) = [t EXCEPT !.safe = t.acked, !.units = @ + 1]
    BY <1>5, <1>8, ZenonT(60) DEF Written
  <2> HIDE DEF t
  <2>2. /\ Written(s, c) \in StoreSet /\ Written(s, c).acked = acked /\ Written(s, c).safe = acked
        /\ ~Written(s, c).lazy /\ Written(s, c).units = s.units + 1
    <3> DEFINE w == [t EXCEPT !.safe = t.acked, !.units = @ + 1]
    <3>1. t.units + 1 \in Nat /\ t.acked \in Counts
      BY <1>6, SMT DEF StoreSet
    <3>2. w \in StoreSet
      BY <1>6, <3>1 DEF StoreSet
    <3>3. w.acked = t.acked /\ w.safe = t.acked /\ w.lazy = t.lazy /\ w.units = t.units + 1
      BY <1>6 DEF StoreSet
    <3>4. Written(s, c) = w
      BY <2>1
    <3> HIDE DEF w
    <3>5. ~w.lazy
      BY <1>6, <1>8, <3>3
    <3>6. QED
      BY <1>6, <3>2, <3>3, <3>4, <3>5
  <2>3. \A k \in Keys : acked[k] \in Nat
    BY <1>4 DEF Counts, Keys
  <2>4. QED
    BY <2>2, <2>3, SMT DEF GoodStore
<1>9. QED
  BY <1>7, <1>8

\* So do a flush and a checkpoint.
LEMMA SyncedGood ==
  ASSUME NEW p, NEW s, GoodStore(p, s)
  PROVE  /\ GoodStore(p, Synced(s)) /\ Synced(s).safe = Synced(s).acked
         /\ GoodStore(p, [Synced(s) EXCEPT !.open = FALSE]) /\ GoodStore(p, [s EXCEPT !.units = 0])
<1>1. /\ s \in StoreSet /\ s.acked \in Counts
      /\ IF s.lazy THEN p \in LazyPaths ELSE s.safe = s.acked
      /\ \A k \in Keys : s.safe[k] <= s.acked[k]
  BY DEF GoodStore, StoreSet
<1>2. \A k \in Keys : s.acked[k] \in Nat /\ s.acked[k] <= s.acked[k]
  BY <1>1, SMT DEF Counts, Keys
<1>3. /\ Synced(s) \in StoreSet /\ Synced(s).safe = s.acked /\ Synced(s).acked = s.acked
      /\ Synced(s).lazy = s.lazy
  BY <1>1 DEF Synced, StoreSet
<1>4. GoodStore(p, Synced(s))
  BY <1>1, <1>2, <1>3 DEF GoodStore
<1>5. GoodStore(p, [Synced(s) EXCEPT !.open = FALSE])
  <2> DEFINE t == [Synced(s) EXCEPT !.open = FALSE]
  <2>1. t \in StoreSet /\ t.safe = s.acked /\ t.acked = s.acked /\ t.lazy = s.lazy
    BY <1>3 DEF StoreSet
  <2> HIDE DEF t
  <2>2. GoodStore(p, t)
    BY <1>1, <1>2, <2>1 DEF GoodStore
  <2>3. QED
    BY <2>2 DEF t
<1>6. GoodStore(p, [s EXCEPT !.units = 0])
  <2> DEFINE t == [s EXCEPT !.units = 0]
  <2>1. t \in StoreSet /\ t.safe = s.safe /\ t.acked = s.acked /\ t.lazy = s.lazy
    BY <1>1 DEF StoreSet
  <2> HIDE DEF t
  <2>2. GoodStore(p, t)
    BY <1>1, <2>1 DEF GoodStore
  <2>3. QED
    BY <2>2 DEF t
<1>7. QED
  BY <1>3, <1>4, <1>5, <1>6

LEMMA SyncedUnits ==
  ASSUME NEW p, NEW s, GoodStore(p, s)
  PROVE  Synced(s).units = s.units
  BY DEF GoodStore, StoreSet, Synced

\* A store as it is after Open, and one that has lost rows.
LEMMA OpenGood ==
  ASSUME NEW p, NEW s, GoodStore(p, s), NEW c \in OpenCalls, c.lazy <=> p \in LazyPaths
  PROVE  LET t == [s EXCEPT !.open = TRUE, !.lazy = c.lazy, !.limit = c.limit, !.units = 0]
         IN  /\ GoodStore(p, t) /\ t.acked = s.acked /\ t.units = 0
             /\ \A kind \in Keys : GoodStore(p, [t EXCEPT !.acked[kind] = 0, !.safe[kind] = 0])
<1> DEFINE t == [s EXCEPT !.open = TRUE, !.lazy = c.lazy, !.limit = c.limit, !.units = 0]
<1>1. /\ s \in StoreSet /\ c.lazy \in BOOLEAN /\ c.limit \in Nat /\ (~c.lazy => ~s.lazy)
      /\ ~s.lazy => s.safe = s.acked
      /\ \A k \in Keys : s.safe[k] <= s.acked[k]
  BY DEF GoodStore, OpenCalls
<1>2. s.acked \in Counts /\ s.safe \in Counts
  BY <1>1 DEF StoreSet
<1>3. t \in StoreSet
  <2>1. 0 \in Nat
    OBVIOUS
  <2>2. QED
    BY <1>1, <2>1 DEF StoreSet
<1>4. t.lazy = c.lazy /\ t.safe = s.safe /\ t.acked = s.acked /\ t.units = 0
  BY <1>1 DEF StoreSet
<1> HIDE DEF t
<1>5. ~t.lazy => s.safe = s.acked
  BY <1>1, <1>4
<1>6. GoodStore(p, t)
  <2>1. t.lazy => p \in LazyPaths
    BY <1>4
  <2>2. QED
    BY <1>1, <1>3, <1>4, <1>5, <2>1 DEF GoodStore
<1>7. ASSUME NEW kind \in Keys
      PROVE  GoodStore(p, [t EXCEPT !.acked[kind] = 0, !.safe[kind] = 0])
  <2> DEFINE a == [s.acked EXCEPT ![kind] = 0]
             b == [s.safe EXCEPT ![kind] = 0]
             u == [t EXCEPT !.acked[kind] = 0, !.safe[kind] = 0]
  <2>1. a \in Counts /\ b \in Counts
    BY <1>2 DEF Counts
  <2>2. /\ \A k \in Keys : a[k] = IF k = kind THEN 0 ELSE s.acked[k]
        /\ \A k \in Keys : b[k] = IF k = kind THEN 0 ELSE s.safe[k]
    BY <1>2 DEF Counts, Keys
  <2>3. \A k \in Keys : b[k] <= a[k]
    <3> HIDE DEF a, b
    <3>1. QED
      BY <1>1, <2>2, SMT
  <2>4. ~t.lazy => a = b
    BY <1>5
  <2>5. u = [[t EXCEPT !.acked = a] EXCEPT !.safe = b]
    BY <1>3, <1>4 DEF StoreSet
  <2> HIDE DEF a, b, u
  <2>6. u \in StoreSet
    BY <1>3, <2>1, <2>5 DEF StoreSet
  <2>7. u.lazy = t.lazy /\ u.acked = a /\ u.safe = b
    BY <1>3, <2>5 DEF StoreSet
  <2>8. GoodStore(p, u)
    BY <1>6, <2>3, <2>4, <2>6, <2>7 DEF GoodStore
  <2>9. QED
    BY <2>8 DEF u
<1>8. QED
  BY <1>4, <1>6, <1>7 DEF t

LEMMA ReducedGood ==
  ASSUME NEW p, NEW s, GoodStore(p, s), NEW t \in Reduced(s)
  PROVE  GoodStore(p, t)
<1>1. /\ s \in StoreSet /\ s.acked \in Counts /\ s.safe \in Counts
      /\ IF s.lazy THEN p \in LazyPaths ELSE s.safe = s.acked
  BY DEF GoodStore, StoreSet
<1>2. PICK a \in [memoir : s.safe.memoir .. s.acked.memoir, chunk : s.safe.chunk .. s.acked.chunk] :
         t = [s EXCEPT !.open = FALSE, !.acked = a, !.safe = a]
  BY DEF Reduced
<1>3. s.safe.memoir \in Nat /\ s.acked.memoir \in Nat /\ s.safe.chunk \in Nat /\ s.acked.chunk \in Nat
  BY <1>1 DEF Counts
<1>4. a \in Counts /\ \A k \in Keys : a[k] <= a[k]
  BY <1>3, SMT DEF Counts, Keys
<1>5. t = [s EXCEPT !.open = FALSE, !.acked = a, !.safe = a]
  BY <1>2
<1>6. t \in StoreSet
  BY <1>1, <1>4, <1>5 DEF StoreSet
<1>7. t.lazy = s.lazy /\ t.acked = a /\ t.safe = a
  <2>1. t.lazy = s.lazy
    BY <1>1, <1>5 DEF StoreSet
  <2>2. t.acked = a
    BY <1>1, <1>5 DEF StoreSet
  <2>3. t.safe = a
    BY <1>1, <1>5 DEF StoreSet
  <2>4. QED
    BY <2>1, <2>2, <2>3
<1>8. QED
  BY <1>1, <1>4, <1>6, <1>7 DEF GoodStore

-----------------------------------------------------------------------------
(* Calls.                                                                  *)

LEMMA FlagsGood ==
  ASSUME HTypes, NEW f \in Flags
  PROVE  Scripts[f] \in Good(f)
  BY DEF HTypes, GoodScripts

\* The present call is one of the script, or one that has been put off.
LEMMA CurrentCall ==
  ASSUME HTypes, Running \/ Deferred
  PROVE  /\ status \in Working /\ flags \in Flags /\ Current \in Allowed(flags)
         /\ Deferred => Current \in Put_Off
         /\ Running => pc \in 1 .. Len(Scripts[flags]) /\ Scripts[flags][pc] \in Allowed(flags)
         /\ Running /\ Deferred => Scripts[flags][pc].op = "return"
         /\ ~Deferred => Current = Scripts[flags][pc]
<1>1. status \in Working /\ flags \in Flags
  BY DEF HTypes, Running, Deferred, Working
<1>2. Scripts[flags] \in Good(flags) /\ Scripts[flags] \in Seq(Allowed(flags))
  BY <1>1, FlagsGood DEF Good
<1>3. Running => pc \in 1 .. Len(Scripts[flags]) /\ Scripts[flags][pc] \in Allowed(flags)
  <2>1. SUFFICES ASSUME Running PROVE pc \in 1 .. Len(Scripts[flags])
    BY <1>2, SMT
  <2>2. QED
    BY <1>1, <1>2, <2>1, SMT DEF HTypes, Running
<1>4. Deferred => Current \in Put_Off
  BY SMT DEF HTypes, Deferred, Current
<1>5. Put_Off \subseteq Allowed(flags)
  BY DEF Put_Off, Allowed, CallSet, SimpleCalls, PlainOps, Errs, WriterOps
<1>6. /\ Running /\ Deferred => Scripts[flags][pc].op = "return"
      /\ ~Deferred => Current = Scripts[flags][pc]
  BY DEF Deferred, Current, Running
<1>7. QED
  BY <1>1, <1>3, <1>4, <1>5, <1>6

\* By what it does, a call has the fields it needs.
LEMMA CallFields ==
  ASSUME NEW f, NEW c \in Allowed(f)
  PROVE  /\ c.op = "open" => c \in OpenCalls /\ (c.lazy <=> c.at \in LazyPaths)
         /\ c.op \in {"put", "batch", "commit"} => c \in WriteCalls
         /\ c.op \in {"get", "scan", "scan_more"} => c \in ReadCalls
         /\ c.op = "defer" => c \in DeferCalls
         /\ c.op = "row" => c \in RowCalls
         /\ c.op \in {"row"} \cup WriterOps => f.program = "embed_vs_sqlite"
<1>1. c \in CallSet
  BY DEF Allowed
<1>2. /\ c \in SimpleCalls => c.op \in PlainOps \cup WriterOps
      /\ c \in OpenCalls => c.op = "open"
      /\ c \in WriteCalls => c.op \in {"put", "batch", "commit"}
      /\ c \in ReadCalls => c.op \in {"get", "scan", "scan_more"}
      /\ c \in CountCalls => c.op = "count"
      /\ c \in DeferCalls => c.op = "defer"
      /\ c \in RowCalls => c.op = "row"
  BY DEF SimpleCalls, OpenCalls, WriteCalls, ReadCalls, CountCalls, DeferCalls, RowCalls
<1>3. /\ c.op = "open" => (c.lazy <=> c.at \in LazyPaths)
      /\ c.op \in {"row"} \cup WriterOps => f.program = "embed_vs_sqlite"
  BY DEF Allowed
<1>4. QED
  BY <1>1, <1>2, <1>3 DEF CallSet, PlainOps, WriterOps

\* What a call leaves of a store that it can be made on.
LEMMA AfterGood ==
  ASSUME GoodStores, NEW f, NEW c \in Allowed(f), stores' = After(c)
  PROVE  /\ GoodStores'
         /\ \A p : c.op = "flush_wal" /\ c.at = p => Store(p)'.safe = Store(p)'.acked
         /\ c.op = "set_bulk_import" => stores' = stores
<1> DEFINE s == Store(c.at)
<1>0. GoodStore(c.at, s)
  BY StoreGood
<1>1. CASE c.op = "open"
  <2> DEFINE t == [s EXCEPT !.open = TRUE, !.lazy = c.lazy, !.limit = c.limit, !.units = 0]
  <2>1. GoodStore(c.at, t)
    BY <1>0, <1>1, CallFields, OpenGood
  <2>2. After(c) = With(c.at, t)
    BY <1>1 DEF After
  <2>3. QED
    BY <1>1, <2>1, <2>2, WithGood
<1>2. CASE c.op \in {"put", "batch", "commit"}
  <2>1. GoodStore(c.at, Written(s, c))
    BY <1>0, <1>2, CallFields, WrittenGood
  <2>2. After(c) = With(c.at, Written(s, c))
    BY <1>2 DEF After
  <2>3. QED
    BY <1>2, <2>1, <2>2, WithGood
<1>3. CASE c.op = "flush_wal"
  <2>1. After(c) = With(c.at, Synced(s))
    BY <1>3 DEF After
  <2>2. GoodStore(c.at, Synced(s)) /\ Synced(s).safe = Synced(s).acked
    BY <1>0, SyncedGood, ZenonT(60)
  <2>3. QED
    BY <1>3, <2>1, <2>2, WithGood
<1>4. CASE c.op = "close"
  <2>1. After(c) = With(c.at, [Synced(s) EXCEPT !.open = FALSE])
    BY <1>4 DEF After
  <2>2. GoodStore(c.at, [Synced(s) EXCEPT !.open = FALSE])
    BY <1>0, SyncedGood, ZenonT(60)
  <2>3. QED
    BY <1>4, <2>1, <2>2, WithGood, ZenonT(60)
<1>5. CASE c.op = "remove_all"
  <2>1. After(c) = [p \in DOMAIN stores \ Under(c.at) |-> stores[p]]
    BY <1>5 DEF After, Keep
  <2>2. QED
    BY <1>5, <2>1 DEF GoodStores
<1>6. CASE c.op \notin {"open", "put", "batch", "commit", "flush_wal", "close", "remove_all"}
  <2>1. After(c) = stores
    BY <1>6 DEF After
  <2>2. QED
    BY <1>6, <2>1 DEF GoodStores
<1>7. QED
  BY <1>1, <1>2, <1>3, <1>4, <1>5, <1>6

-----------------------------------------------------------------------------
(* The invariant.                                                          *)

\* What a step leaves alone that neither records rows nor compares.
LEMMA RowsKept ==
  ASSUME HTypes, DurableRows, rows' \in {rows, <<>>}, printed' = None
  PROVE  rows' \in Seq(RowSet) /\ DurableRows' /\ ComparesNameFaster'
<1>1. rows' \in Seq(RowSet)
  <2>1. rows \in Seq(RowSet) /\ <<>> \in Seq(RowSet)
    BY SMT DEF HTypes
  <2>2. QED
    BY <2>1, ZenonT(60)
<1>2. DurableRows'
  <2>1. CASE rows' = rows
    BY <2>1 DEF DurableRows
  <2>2. CASE rows' = <<>>
    BY <2>2, SMT DEF DurableRows
  <2>3. QED
    BY <2>1, <2>2
<1>3. ComparesNameFaster'
  BY DEF ComparesNameFaster
<1>4. QED
  BY <1>1, <1>2, <1>3

\* After a step past a call of the script.
LEMMA FlushedNext ==
  ASSUME HTypes, AfterFlush, UNCHANGED <<flags, status>>, status = "running" => Running /\ pc' = pc + 1,
         status = "running" =>
            \A p : /\ Scripts[flags][pc] = FlushWAL(p) => Store(p)'.safe = Store(p)'.acked
                   /\ Scripts[flags][pc] = SetBulkImport(p) => stores' = stores
  PROVE  AfterFlush'
<1> SUFFICES ASSUME status = "running" PROVE AfterFlush'
  BY DEF AfterFlush
<1>1. pc \in Nat /\ pc' = pc + 1 /\ pc' - 1 = pc /\ pc' - 2 = pc - 1 /\ (pc' > 2 => pc > 1)
  BY SMT DEF HTypes, Working
<1>2. ASSUME NEW p, Scripts[flags][pc] = SetBulkImport(p), pc > 1, Scripts[flags][pc - 1] = FlushWAL(p)
      PROVE  Store(p)'.safe = Store(p)'.acked
  <2>1. Scripts[flags][pc - 1].at = p
    BY <1>2, SMT DEF FlushWAL, Call
  <2>2. Store(p).safe = Store(p).acked
    BY <1>2, <2>1 DEF AfterFlush
  <2>3. stores' = stores
    BY <1>2
  <2>4. QED
    BY <2>2, <2>3 DEF Store
<1>3. QED
  BY <1>1, <1>2 DEF AfterFlush

LEMMA AdvanceTypes ==
  ASSUME HTypes, Running \/ Deferred, Advance
  PROVE  /\ UNCHANGED <<runs, flags, status, prepared>> /\ printed' = None
         /\ status' \in Working /\ flags' \in Flags
         /\ pc' \in 1 .. Len(Scripts[flags']) + 1 /\ defers' \in Seq(Put_Off)
         /\ status = "running" => Running /\ pc' = pc + 1
<1>1. /\ UNCHANGED <<runs, flags, status, prepared>> /\ printed' = None /\ status' \in Working
      /\ flags' \in Flags
  BY CurrentCall DEF Advance
<1>2. Len(Scripts[flags]) \in Nat
  BY CurrentCall, FlagsGood, SMT DEF Good
<1>3. status = "running" => Running /\ pc' = pc + 1
  BY DEF Advance, Running, Deferred
<1>4. pc' \in 1 .. Len(Scripts[flags']) + 1
  <2>1. pc \in 1 .. Len(Scripts[flags]) + 1
    BY CurrentCall DEF HTypes
  <2>2. CASE status = "running"
    BY <1>1, <1>2, <1>3, <2>1, <2>2, CurrentCall, SMT
  <2>3. CASE status # "running"
    BY <1>1, <2>1, <2>3 DEF Advance
  <2>4. QED
    BY <2>2, <2>3
<1>5. defers' \in Seq(Put_Off)
  <2>1. defers \in Seq(Put_Off)
    BY DEF HTypes
  <2>2. CASE Deferred
    BY <2>1, <2>2, SMT DEF Advance, Deferred
  <2>3. CASE ~Deferred /\ Current.op = "defer"
    <3>1. Current.call \in Put_Off
      BY <2>3, CurrentCall, CallFields, SMT DEF DeferCalls
    <3>2. defers' = <<Current.call>> \o defers
      BY <2>3 DEF Advance, Pushed
    <3>3. QED
      BY <2>1, <3>1, <3>2, SMT
  <2>4. CASE ~Deferred /\ Current.op # "defer"
    BY <2>1, <2>4 DEF Advance
  <2>5. QED
    BY <2>2, <2>3, <2>4
<1>6. QED
  BY <1>1, <1>3, <1>4, <1>5

\* What is kept, apart from the writer's own invariant.
LEMMA DoInv ==
  ASSUME HInv, Do
  PROVE  HInv'
<1>1. HTypes /\ GoodStores /\ (Running \/ Deferred) /\ Advance /\ stores' = After(Current)
      /\ UNCHANGED <<rows, faults, lost, wvars>>
  BY DEF HInv, Do
<1>2. GoodStores'
  BY <1>1, CurrentCall, AfterGood
<1>3. counted' \in Nat
  <2> DEFINE found == Store(Current.at).acked
  <2>1. found \in Counts /\ counted \in Nat
    BY <1>1, StoreGood DEF GoodStore, StoreSet, HTypes
  <2>2. /\ found.memoir \in Nat /\ found.chunk \in Nat
        /\ Current.op \in {"scan", "scan_more"} => found[Current.key] \in Nat
    <3>1. \A k \in Keys : found[k] \in Nat
      BY <2>1 DEF Counts, Keys
    <3>2. Current.op \in {"scan", "scan_more"} => Current.key \in Keys
      BY <1>1, CurrentCall, CallFields, SMT DEF ReadCalls
    <3>3. QED
      BY <3>1, <3>2 DEF Keys
  <2>3. counted' = CASE Current.op = "scan" -> found[Current.key]
                     [] Current.op = "scan_more" -> counted + found[Current.key]
                     [] Current.op = "count" -> found.memoir + found.chunk
                     [] OTHER -> counted
    BY DEF Do
  <2> HIDE DEF found
  <2>4. QED
    BY <2>1, <2>2, <2>3, SMT
<1>4. HTypes'
  BY <1>1, <1>3, AdvanceTypes DEF HTypes, wvars
<1>5. AfterFlush'
  <2>1. status = "running" =>
            \A p : /\ Scripts[flags][pc] = FlushWAL(p) => Store(p)'.safe = Store(p)'.acked
                   /\ Scripts[flags][pc] = SetBulkImport(p) => stores' = stores
    <3> SUFFICES ASSUME status = "running", NEW p
                 PROVE  /\ Scripts[flags][pc] = FlushWAL(p) => Store(p)'.safe = Store(p)'.acked
                        /\ Scripts[flags][pc] = SetBulkImport(p) => stores' = stores
      OBVIOUS
    <3>1. Running
      BY <1>1, AdvanceTypes
    <3>2. CASE Deferred
      BY <1>1, <3>1, <3>2, CurrentCall, SMT DEF FlushWAL, SetBulkImport, Call
    <3>3. CASE ~Deferred
      BY <1>1, <3>1, <3>3, CurrentCall, AfterGood, SMT DEF FlushWAL, SetBulkImport, Call
    <3>4. QED
      BY <3>2, <3>3
  <2>2. QED
    BY <1>1, <2>1, AdvanceTypes, FlushedNext DEF HInv
<1>6. DurableRows' /\ ComparesNameFaster'
  BY <1>1, AdvanceTypes, RowsKept DEF HInv
<1>7. QED
  BY <1>2, <1>4, <1>5, <1>6 DEF HInv

LEMMA FailUnseenInv ==
  ASSUME HInv, FailUnseen
  PROVE  HInv'
<1>1. HTypes /\ (Running \/ Deferred) /\ Advance /\ UNCHANGED <<stores, rows, lost, wvars>>
      /\ faults < MaxFaults /\ faults' = faults + 1 /\ counted' \in {0, counted}
  BY DEF HInv, FailUnseen
<1>2. HTypes'
  <2>1. faults' \in 0 .. MaxFaults /\ counted' \in Nat
    BY <1>1, HarnessAssumption, SMT DEF HTypes
  <2>2. QED
    BY <1>1, <2>1, AdvanceTypes DEF HTypes, wvars
<1>3. GoodStores'
  BY <1>1 DEF HInv, GoodStores
<1>4. ASSUME status = "running", NEW p
      PROVE  /\ Scripts[flags][pc] = FlushWAL(p) => Store(p)'.safe = Store(p)'.acked
             /\ Scripts[flags][pc] = SetBulkImport(p) => stores' = stores
  <2>1. Running
    BY <1>1, <1>4, AdvanceTypes
  <2>2. Scripts[flags][pc] # FlushWAL(p)
    <3>1. CASE Deferred
      BY <1>1, <2>1, <3>1, CurrentCall, SMT DEF FlushWAL, Call
    <3>2. CASE ~Deferred
      BY <1>1, <2>1, <3>2, CurrentCall, SMT DEF FlushWAL, Call, FailUnseen
    <3>3. QED
      BY <3>1, <3>2
  <2>3. QED
    BY <1>1, <2>2
<1>5. AfterFlush'
  BY <1>1, <1>4, AdvanceTypes, FlushedNext DEF HInv
<1>6. DurableRows' /\ ComparesNameFaster'
  BY <1>1, AdvanceTypes, RowsKept DEF HInv
<1>7. QED
  BY <1>2, <1>3, <1>5, <1>6 DEF HInv

LEMMA LoseRowsInv ==
  ASSUME HInv, LoseRows
  PROVE  HInv'
<1>1. HTypes /\ GoodStores /\ (Running \/ Deferred) /\ Advance /\ UNCHANGED <<rows, counted, wvars>>
      /\ faults < MaxFaults /\ faults' = faults + 1 /\ Current.op \in {"close", "open"}
  BY DEF HInv, LoseRows
<1>2. HTypes'
  <2>1. faults' \in 0 .. MaxFaults
    BY <1>1, HarnessAssumption, SMT DEF HTypes
  <2>2. QED
    BY <1>1, <2>1, AdvanceTypes DEF HTypes, wvars
<1>3. GoodStores'
  <2> DEFINE s == Store(Current.at)
  <2>1. GoodStore(Current.at, s) /\ Current \in Allowed(flags)
    BY <1>1, StoreGood, CurrentCall
  <2>2. CASE \E t \in Reduced(s) : stores' = With(Current.at, t)
    BY <1>1, <2>1, <2>2, ReducedGood, WithGood
  <2>3. ASSUME Current.op = "open",
               NEW kind \in DOMAIN Zero,
               stores' = With(Current.at,
                      [After(Current)[Current.at] EXCEPT !.acked[kind] = 0, !.safe[kind] = 0])
        PROVE  GoodStores'
    <3> DEFINE t == [s EXCEPT !.open = TRUE, !.lazy = Current.lazy, !.limit = Current.limit, !.units = 0]
               u == [t EXCEPT !.acked[kind] = 0, !.safe[kind] = 0]
    <3>1. kind \in Keys
      BY DEF Zero, Keys
    <3>2. Current \in OpenCalls /\ (Current.lazy <=> Current.at \in LazyPaths)
      BY <2>1, <2>3, CallFields
    <3>3. GoodStore(Current.at, u)
      BY <2>1, <3>1, <3>2, OpenGood
    <3>4. After(Current)[Current.at] = t
      BY <2>3 DEF After, With
    <3>5. stores' = With(Current.at, u)
      BY <2>3, <3>4
    <3> HIDE DEF u
    <3>6. QED
      BY <1>1, <3>3, <3>5, WithGood
  <2>4. QED
    BY <2>2, <2>3 DEF LoseRows
<1>4. ASSUME status = "running", NEW p
      PROVE  /\ Scripts[flags][pc] = FlushWAL(p) => Store(p)'.safe = Store(p)'.acked
             /\ Scripts[flags][pc] = SetBulkImport(p) => stores' = stores
  <2>1. Running
    BY <1>1, <1>4, AdvanceTypes
  <2>2. Scripts[flags][pc] # FlushWAL(p) /\ Scripts[flags][pc] # SetBulkImport(p)
    <3>1. CASE Deferred
      BY <1>1, <2>1, <3>1, CurrentCall, SMT DEF FlushWAL, SetBulkImport, Call
    <3>2. CASE ~Deferred
      BY <1>1, <2>1, <3>2, CurrentCall, SMT DEF FlushWAL, SetBulkImport, Call
    <3>3. QED
      BY <3>1, <3>2
  <2>3. QED
    BY <2>2
<1>5. AfterFlush'
  BY <1>1, <1>4, AdvanceTypes, FlushedNext DEF HInv
<1>6. DurableRows' /\ ComparesNameFaster'
  BY <1>1, AdvanceTypes, RowsKept DEF HInv
<1>7. QED
  BY <1>2, <1>3, <1>5, <1>6 DEF HInv

\* However a process ends.
LEMMA EndInv ==
  ASSUME HInv, status \in Working, NEW how \in Ends, End(how), faults' \in 0 .. MaxFaults
  PROVE  HInv' /\ (UNCHANGED wvars \/ Stop)
<1>1. /\ HTypes /\ GoodStores /\ status' = how /\ UNCHANGED <<runs, flags>>
      /\ stores' = [p \in DOMAIN stores \cap {<<"dir">>} |-> [stores[p] EXCEPT !.open = FALSE]]
      /\ rows' \in {rows, <<>>} /\ defers' = <<>> /\ counted' = 0 /\ printed' = None
  BY DEF HInv, End
<1>2. status' \notin Working
  BY <1>1 DEF Ends, Working
<1>3. wpc' = "none" /\ (UNCHANGED wvars \/ Stop)
  BY DEF End, Stop, Goto, wvars
<1>4. prepared' \in Nat
  <2>1. flags \in Flags /\ prepared \in Nat
    BY <1>1 DEF HTypes
  <2>2. flags.program = "ffi_read_tax" => flags.chunks \in Nat
    BY <2>1, HarnessAssumption DEF EmbedFlags, ReadTaxFlags, ProbeFlags
  <2>3. QED
    BY <2>1, <2>2 DEF End
<1>5. HTypes'
  <2>1. rows' \in Seq(RowSet) /\ defers' \in Seq(Put_Off)
    BY <1>1, RowsKept, SMT DEF HInv
  <2>2. QED
    BY <1>1, <1>2, <1>3, <1>4, <2>1 DEF HTypes
<1>6. GoodStores'
  <2>1. ASSUME NEW p, NEW s, GoodStore(p, s) PROVE GoodStore(p, [s EXCEPT !.open = FALSE])
    <3> DEFINE t == [s EXCEPT !.open = FALSE]
    <3>1. t \in StoreSet /\ t.lazy = s.lazy /\ t.acked = s.acked /\ t.safe = s.safe
      BY <2>1 DEF GoodStore, StoreSet
    <3> HIDE DEF t
    <3>2. GoodStore(p, t)
      BY <2>1, <3>1 DEF GoodStore
    <3>3. QED
      BY <3>2 DEF t
  <2>2. QED
    BY <1>1, <2>1 DEF GoodStores
<1>7. AfterFlush'
  BY <1>2 DEF AfterFlush, Working
<1>8. DurableRows' /\ ComparesNameFaster'
  BY <1>1, RowsKept DEF HInv
<1>9. QED
  BY <1>3, <1>5, <1>6, <1>7, <1>8 DEF HInv

\* A call fails, or the process dies.
LEMMA FailInv ==
  ASSUME HInv, Fail \/ Crash \/ Panicked \/ Finish
  PROVE  HInv' /\ (UNCHANGED wvars \/ Stop)
<1>1. HTypes /\ status \in Working
  BY DEF HInv, Fail, Crash, Panicked, Finish, Running, Working
<1>2. faults' \in 0 .. MaxFaults
  BY <1>1, HarnessAssumption, SMT DEF HTypes, Fail, Crash, Panicked, Finish
<1>3. CASE \E how \in Ends : End(how)
  BY <1>1, <1>2, <1>3, EndInv
<1>4. CASE /\ status' = "panicking"
           /\ UNCHANGED <<runs, flags, pc, defers, stores, rows, counted, printed, prepared, wvars>>
  <2>1. HTypes'
    BY <1>1, <1>2, <1>4 DEF HTypes, Working, wvars
  <2>2. GoodStores'
    BY <1>4 DEF HInv, GoodStores
  <2>3. AfterFlush'
    BY <1>4 DEF AfterFlush
  <2>4. DurableRows' /\ ComparesNameFaster'
    BY <1>4 DEF HInv, DurableRows, ComparesNameFaster
  <2>5. QED
    BY <1>4, <2>1, <2>2, <2>3, <2>4 DEF HInv
<1>5. QED
  BY <1>3, <1>4 DEF Fail, Abort, Crash, Panicked, Finish, Ends

\* The present call of the script is of a kind that is never put off.
LEMMA ScriptCall ==
  ASSUME HTypes, Running, Current.op \notin {"close", "remove_all"}
  PROVE  /\ flags \in Flags /\ pc \in 1 .. Len(Scripts[flags]) /\ Current = Scripts[flags][pc]
         /\ Current \in Allowed(flags)
<1>1. ~Deferred
  BY CurrentCall DEF Put_Off
<1>2. QED
  BY <1>1, CurrentCall

\* A row that is recorded is durable if it should be.
LEMMA RowDurable ==
  ASSUME HTypes, GoodStores, AfterFlush, Running, Current.op = "row", Current.phase \in DurablePhases,
         Current.profile # "sqlite_wal_normal"
  PROVE  Store(Current.at).safe = Store(Current.at).acked
<1> DEFINE s == Scripts[flags]
           at == Current.at
<1>1. flags \in Flags /\ pc \in 1 .. Len(s) /\ Current = s[pc]
  BY ScriptCall
<1>2. NoDurableRow(s[pc]) \/ Flushed(s, pc)
  BY <1>1, FlagsGood DEF Good, GoodAt
<1>3. CASE NoDurableRow(s[pc])
  <2>1. at \notin LazyPaths
    BY <1>1, <1>3 DEF NoDurableRow
  <2>2. GoodStore(at, Store(at))
    BY StoreGood
  <2>3. QED
    BY <2>1, <2>2 DEF GoodStore
<1>4. CASE Flushed(s, pc)
  <2>1. s[pc - 1].at = at
    BY <1>1, <1>4, SMT DEF Flushed, FlushWAL, SetBulkImport, Call
  <2>2. status = "running"
    BY DEF Running
  <2>3. QED
    BY <1>1, <1>4, <2>1, <2>2 DEF Flushed, AfterFlush
<1>5. QED
  BY <1>2, <1>3, <1>4

LEMMA RowInv ==
  ASSUME HInv, Row
  PROVE  HInv'
<1> DEFINE s == Store(Current.at)
           row == [phase |-> Current.phase, profile |-> Current.profile, metric |-> Current.metric,
                   value |-> Value(Current.metric), units |-> s.units,
                   durable |-> Current.phase \in DurablePhases => s.safe = s.acked]
<1>1. /\ HTypes /\ GoodStores /\ AfterFlush /\ Running /\ Current.op = "row" /\ Advance
      /\ rows' = Append(rows, row) /\ stores' = With(Current.at, [s EXCEPT !.units = 0])
      /\ UNCHANGED <<counted, faults, lost, wvars>>
  BY DEF HInv, Row
<1>2. /\ Current = Scripts[flags][pc] /\ Current \in RowCalls /\ flags.program = "embed_vs_sqlite"
      /\ flags \in Flags
  BY <1>1, ScriptCall, CallFields
<1>3. GoodStore(Current.at, s) /\ s.units \in Nat
  BY <1>1, StoreGood DEF GoodStore, StoreSet
<1>4. Value(Current.metric) \in Nat
  <2>1. flags.memoirs \in Nat /\ flags.chunks \in Nat /\ counted \in Nat
    BY <1>1, <1>2, HarnessAssumption, ZenonT(60) DEF HTypes, EmbedFlags, ReadTaxFlags, ProbeFlags
  <2>2. Expected \in Nat
    BY <2>1, SMT DEF Expected
  <2>3. QED
    BY <2>1, <2>2 DEF Value
<1>5. row \in RowSet /\ (row.profile # "sqlite_wal_normal" => row.durable)
  <2>1. Current.phase \in RowPhases /\ Current.profile \in Known /\ Current.metric \in Metrics \cup {""}
    BY <1>2 DEF RowCalls
  <2>2. (Current.phase \in DurablePhases => s.safe = s.acked) \in BOOLEAN
    OBVIOUS
  <2>3. row \in RowSet
    BY <1>3, <1>4, <2>1, <2>2 DEF RowSet
  <2>4. Current.profile # "sqlite_wal_normal" => (Current.phase \in DurablePhases => s.safe = s.acked)
    BY <1>1, RowDurable
  <2>5. QED
    BY <2>3, <2>4, ZenonT(60)
<1> HIDE DEF row
<1>6. rows' \in Seq(RowSet) /\ DurableRows'
  <2>1. rows \in Seq(RowSet)
    BY <1>1 DEF HTypes
  <2>2. rows' \in Seq(RowSet) /\ Len(rows') = Len(rows) + 1 /\ rows'[Len(rows) + 1] = row
        /\ \A i \in 1 .. Len(rows) : rows'[i] = rows[i]
    BY <1>1, <1>5, <2>1, SMT
  <2>3. \A i \in 1 .. Len(rows) : rows[i].profile # "sqlite_wal_normal" => rows[i].durable
    BY <2>1, SMT DEF HInv, DurableRows
  <2>4. QED
    BY <1>5, <2>1, <2>2, <2>3, SMT DEF DurableRows
<1>7. GoodStores'
  <2>1. GoodStore(Current.at, [s EXCEPT !.units = 0])
    BY <1>3, SyncedGood, ZenonT(60)
  <2>2. QED
    BY <1>1, <2>1, WithGood
<1>8. HTypes'
  BY <1>1, <1>6, AdvanceTypes DEF HTypes, wvars
<1>9. AfterFlush'
  <2>1. \A p : Scripts[flags][pc] # FlushWAL(p) /\ Scripts[flags][pc] # SetBulkImport(p)
    BY <1>1, <1>2, SMT DEF FlushWAL, SetBulkImport, Call
  <2>2. QED
    BY <1>1, <2>1, AdvanceTypes, FlushedNext
<1>10. ComparesNameFaster'
  BY <1>1, AdvanceTypes DEF ComparesNameFaster
<1>11. QED
  BY <1>6, <1>7, <1>8, <1>9, <1>10 DEF HInv

-----------------------------------------------------------------------------
(* The comparisons.                                                        *)

LEMMA LineFair ==
  ASSUME NEW a, NEW b, NEW x \in Nat, NEW y \in Nat, NEW line \in speedRatioLine(a, x, b, y)
  PROVE  /\ x > 0 /\ y > 0
         /\ \/ line.faster = a /\ line.slower = b /\ x <= y
            \/ line.faster = b /\ line.slower = a /\ y <= x
<1>1. CASE x > y
  BY <1>1, SMT DEF speedRatioLine
<1>2. CASE ~(x > y)
  BY <1>2, SMT DEF speedRatioLine
<1>3. QED
  BY <1>1, <1>2

LEMMA SomeKnown ==
  {"f4kvs_wal_segment", "f4kvs_wal_frame", "f4kvs_wal_indexed", "f4kvs_group_commit_10ms", "sqlite_wal_full"}
      \subseteq Known
<1>1. DOMAIN knownProfiles = {1, 2, 3, 4, 5, 6, 7, 8}
  BY SMT DEF knownProfiles
<1>2. QED
  BY <1>1, SMT DEF Known, knownProfiles

\* Whatever the durations, the lines printed for a phase are right, and the
\* two products are compared, except after the restart.
LEMMA ComparesRight ==
  ASSUME NEW phase, NEW ms \in [Known -> Nat], NEW base \in [Known -> Nat],
         printed' = [phase |-> phase, ms |-> [p \in Present(phase) |-> ms[p]],
                     base |-> [p \in Present(phase) |-> base[p]],
                     lines |-> phaseCompares(phase, ms, base)]
  PROVE  ComparesNameFaster'
<1> DEFINE r == [phase |-> phase, ms |-> [p \in Present(phase) |-> ms[p]],
                 base |-> [p \in Present(phase) |-> base[p]],
                 lines |-> phaseCompares(phase, ms, base)]
           time(name) == IF name[1] = r.phase THEN r.ms[name[2]] ELSE r.base[name[2]]
           Right(line) == 0 < time(line.faster) /\ time(line.faster) <= time(line.slower)
           batched == "chunk_batch_put_batched"
           bulk == "chunk_batch_put_bulk_import"
           both == {"f4kvs_wal_segment", "sqlite_wal_full"}
<1>1. /\ r.phase = phase /\ r.lines = phaseCompares(phase, ms, base) /\ DOMAIN r.ms = Present(phase)
      /\ \A p \in Present(phase) : r.ms[p] = ms[p] /\ r.base[p] = base[p]
  OBVIOUS
<1> HIDE DEF r
<1>2. /\ "f4kvs_wal_segment" \in Known /\ "f4kvs_wal_frame" \in Known /\ "f4kvs_wal_indexed" \in Known
      /\ "f4kvs_group_commit_10ms" \in Known /\ "sqlite_wal_full" \in Known
  BY SomeKnown
<1>3. ASSUME NEW p \in Known
      PROVE  /\ phaseMs(phase, ms, p) \in Nat /\ phaseMs(batched, base, p) \in Nat
             /\ phaseMs(phase, ms, p) > 0 =>
                   p \in Present(phase) /\ time(<<phase, p>>) = phaseMs(phase, ms, p)
             /\ phase = bulk /\ p \in Present(phase) /\ phaseMs(batched, base, p) > 0 =>
                   time(<<batched, p>>) = phaseMs(batched, base, p)
  <2>1. ms[p] \in Nat /\ base[p] \in Nat
    OBVIOUS
  <2>2. time(<<phase, p>>) = r.ms[p] /\ (phase = bulk => time(<<batched, p>>) = r.base[p])
    BY <1>1
  <2> HIDE DEF time
  <2>3. QED
    BY <1>1, <2>1, <2>2, SMT DEF phaseMs
<1>4. ASSUME NEW a \in Known, NEW b \in Known, NEW line \in ratioLine(phase, ms, a, b)
      PROVE  Right(line)
  <2> DEFINE last(p) == IF phase = "post_restart_row_count" THEN 0 ELSE phaseMs(phase, ms, p)
  <2>1. last(a) \in Nat /\ last(b) \in Nat
    BY <1>3
  <2>2. line \in speedRatioLine(<<phase, a>>, last(a), <<phase, b>>, last(b))
    BY <1>4 DEF ratioLine
  <2>3. /\ last(a) > 0 => time(<<phase, a>>) = last(a)
        /\ last(b) > 0 => time(<<phase, b>>) = last(b)
    BY <1>3, SMT
  <2> HIDE DEF last, time
  <2>4. QED
    BY <2>1, <2>2, <2>3, LineFair, SMT
<1>5. ASSUME NEW line \in speedRatioLine(
                 <<phase, "f4kvs_wal_indexed">>, phaseMs(phase, ms, "f4kvs_wal_indexed"),
                 <<phase, "f4kvs_wal_segment">>, phaseMs(phase, ms, "f4kvs_wal_segment"))
      PROVE  Right(line)
  <2> DEFINE a == "f4kvs_wal_indexed"
             b == "f4kvs_wal_segment"
             x == phaseMs(phase, ms, a)
             y == phaseMs(phase, ms, b)
  <2>1. x \in Nat /\ y \in Nat /\ (x > 0 => time(<<phase, a>>) = x) /\ (y > 0 => time(<<phase, b>>) = y)
    BY <1>2, <1>3
  <2>2. line \in speedRatioLine(<<phase, a>>, x, <<phase, b>>, y)
    BY <1>5
  <2> HIDE DEF time, a, b, x, y
  <2>3. QED
    BY <2>1, <2>2, LineFair, SMTT(60)
<1>6. ASSUME NEW p \in {"f4kvs_wal_segment", "f4kvs_wal_frame", "f4kvs_group_commit_10ms"}, phase = bulk,
             NEW line \in speedRatioLine(<<batched, p>>, phaseMs(batched, base, p),
                                         <<phase, p>>, phaseMs(phase, ms, p))
      PROVE  Right(line)
  <2>1. p \in Known
    BY <1>2
  <2> HIDE DEF time, batched, bulk
  <2>2. phaseMs(batched, base, p) > 0 /\ phaseMs(phase, ms, p) > 0
    BY <1>3, <1>6, <2>1, LineFair
  <2>3. QED
    BY <1>3, <1>6, <2>1, <2>2, LineFair, SMT
<1>7. ASSUME NEW line \in r.lines PROVE Right(line)
  <2>1. \/ \E a, b \in Known : line \in ratioLine(phase, ms, a, b)
        \/ line \in speedRatioLine(
                 <<phase, "f4kvs_wal_indexed">>, phaseMs(phase, ms, "f4kvs_wal_indexed"),
                 <<phase, "f4kvs_wal_segment">>, phaseMs(phase, ms, "f4kvs_wal_segment"))
        \/ phase = bulk /\ \E p \in {"f4kvs_wal_segment", "f4kvs_wal_frame", "f4kvs_group_commit_10ms"} :
              line \in speedRatioLine(<<batched, p>>, phaseMs(batched, base, p),
                                      <<phase, p>>, phaseMs(phase, ms, p))
    BY <1>1, <1>2, <1>7, SMTT(60) DEF phaseCompares
  <2> HIDE DEF Right, batched, bulk
  <2>2. QED
    BY <1>4, <1>5, <1>6, <2>1
<1>8. ASSUME both \subseteq DOMAIN r.ms, phase # "post_restart_row_count", \A p \in both : r.ms[p] > 0
      PROVE  \E line \in r.lines : {line.faster[2], line.slower[2]} = both
  <2> DEFINE a == <<phase, "f4kvs_wal_segment">>
             b == <<phase, "sqlite_wal_full">>
             x == ms["f4kvs_wal_segment"]
             y == ms["sqlite_wal_full"]
  <2>1. x \in Nat /\ y \in Nat /\ x > 0 /\ y > 0
    BY <1>1, <1>2, <1>8
  <2>2. ratioLine(phase, ms, "f4kvs_wal_segment", "sqlite_wal_full") = speedRatioLine(a, x, b, y)
    BY <1>1, <1>8 DEF ratioLine, phaseMs
  <2>3. \E line \in speedRatioLine(a, x, b, y) : {line.faster[2], line.slower[2]} = both
    <3>1. CASE x > y
      <4>1. speedRatioLine(a, x, b, y) = {[faster |-> b, slower |-> a]}
        BY <2>1, <3>1, SMT DEF speedRatioLine
      <4>2. QED
        BY <4>1, ZenonT(60)
    <3>2. CASE ~(x > y)
      <4>1. speedRatioLine(a, x, b, y) = {[faster |-> a, slower |-> b]}
        BY <2>1, <3>2, SMT DEF speedRatioLine
      <4>2. QED
        BY <4>1, ZenonT(60)
    <3>3. QED
      BY <3>1, <3>2, ZenonT(60)
  <2>4. ratioLine(phase, ms, "f4kvs_wal_segment", "sqlite_wal_full") \subseteq r.lines
    BY <1>1 DEF phaseCompares
  <2>5. QED
    BY <2>2, <2>3, <2>4
<1>9. ASSUME phase = "post_restart_row_count"
      PROVE  r.lines = {}
  <2>1. ASSUME NEW a, NEW b
        PROVE  ratioLine(phase, ms, a, b) = {}
    BY <1>9, SMT DEF ratioLine, speedRatioLine
  <2>2. phase # "chunk_batch_put" /\ phase # "chunk_batch_put_bulk_import"
    BY <1>9
  <2>3. QED
    BY <1>1, <2>1, <2>2, SMT DEF phaseCompares
<1>10. printed' = r
  BY DEF r
<1>11. QED
  BY <1>1, <1>7, <1>8, <1>9, <1>10, ZenonT(60) DEF ComparesNameFaster

-----------------------------------------------------------------------------
(* The steps of main, and those outside the programs.                      *)

LEMMA PrintInv ==
  ASSUME HInv, printTable
  PROVE  HInv'
<1>1. /\ HTypes /\ Running /\ Current.op = "print_table" /\ pc' = pc + 1
      /\ UNCHANGED <<runs, flags, status, defers, stores, rows, counted, faults, lost, prepared, wvars>>
  BY DEF HInv, printTable
<1>2. /\ flags \in Flags /\ pc \in 1 .. Len(Scripts[flags]) /\ Current = Scripts[flags][pc]
  BY <1>1, ScriptCall
<1>3. HTypes'
  <2>1. pc' \in 1 .. Len(Scripts[flags']) + 1
    BY <1>1, <1>2, FlagsGood, SMT DEF Good
  <2>2. QED
    BY <1>1, <2>1 DEF HTypes, wvars
<1>4. GoodStores' /\ DurableRows'
  BY <1>1 DEF HInv, GoodStores, DurableRows
<1>5. AfterFlush'
  <2>1. \A p : Scripts[flags][pc] # FlushWAL(p) /\ Scripts[flags][pc] # SetBulkImport(p)
    BY <1>1, <1>2, SMT DEF FlushWAL, SetBulkImport, Call
  <2>2. QED
    BY <1>1, <2>1, FlushedNext DEF HInv
<1>6. ComparesNameFaster'
  <2>1. PICK phase \in Phases, ms \in Timings :
           \E base \in IF phase = "chunk_batch_put_bulk_import" THEN Baselines ELSE {ms} :
             printed' = [phase |-> phase, ms |-> [p \in Present(phase) |-> ms[p]],
                         base |-> [p \in Present(phase) |-> base[p]],
                         lines |-> phaseCompares(phase, ms, base)]
    BY ZenonT(60) DEF printTable
  <2>2. PICK base \in IF phase = "chunk_batch_put_bulk_import" THEN Baselines ELSE {ms} :
             printed' = [phase |-> phase, ms |-> [p \in Present(phase) |-> ms[p]],
                         base |-> [p \in Present(phase) |-> base[p]],
                         lines |-> phaseCompares(phase, ms, base)]
    BY <2>1, ZenonT(60)
  <2>3. ms \in [Known -> Nat] /\ base \in [Known -> Nat]
    BY HarnessAssumption
  <2>4. QED
    BY <2>2, <2>3, ComparesRight
<1>7. QED
  BY <1>3, <1>4, <1>5, <1>6 DEF HInv

\* A step past a call that leaves stores and rows alone.
LEMMA PassInv ==
  ASSUME HInv, Running, Current.op \in {"gate", "append", "new_run_writer", "finalize"}, Advance,
         UNCHANGED <<stores, rows, counted>>, faults' \in 0 .. MaxFaults
  PROVE  HInv'
<1>1. HTypes /\ Current = Scripts[flags][pc]
  BY ScriptCall DEF HInv
<1>2. HTypes'
  BY <1>1, AdvanceTypes DEF HTypes
<1>3. GoodStores'
  BY DEF HInv, GoodStores
<1>4. AfterFlush'
  <2>1. \A p : Scripts[flags][pc] # FlushWAL(p) /\ Scripts[flags][pc] # SetBulkImport(p)
    BY <1>1, SMT DEF FlushWAL, SetBulkImport, Call
  <2>2. QED
    BY <1>1, <2>1, AdvanceTypes, FlushedNext DEF HInv
<1>5. DurableRows' /\ ComparesNameFaster'
  BY <1>1, AdvanceTypes, RowsKept DEF HInv
<1>6. QED
  BY <1>2, <1>3, <1>4, <1>5 DEF HInv

LEMMA GateInv ==
  ASSUME HInv, CheckGate
  PROVE  HInv' /\ (UNCHANGED wvars \/ Stop)
<1>1. HTypes /\ Running /\ Current.op = "gate" /\ status \in Working
  BY DEF HInv, CheckGate, Running, Working
<1>2. faults' \in 0 .. MaxFaults
  BY <1>1 DEF HTypes, CheckGate
<1>3. CASE End("integrity")
  BY <1>1, <1>2, <1>3, EndInv DEF Ends
<1>4. CASE Advance /\ UNCHANGED <<stores, rows, counted, faults, lost, wvars>>
  BY <1>1, <1>2, <1>4, PassInv
<1>5. QED
  BY <1>3, <1>4 DEF CheckGate

LEMMA AppendInv ==
  ASSUME HInv, AppendResults
  PROVE  HInv'
<1>1. HTypes /\ Running /\ Current.op = "append" /\ Advance /\ UNCHANGED <<stores, rows, counted, faults>>
  BY DEF HInv, AppendResults
<1>2. QED
  BY <1>1, PassInv DEF HTypes

LEMMA WriterInv ==
  ASSUME HInv, Writer
  PROVE  HInv' /\ WNext
<1>1. /\ HTypes /\ Running /\ Current.op \in {"new_run_writer", "finalize"}
      /\ UNCHANGED <<stores, rows, counted, lost>>
  BY DEF HInv, Writer
<1>2. flags \in Flags /\ flags.id \in RunIds
  <2>1. flags \in Flags /\ flags.program = "embed_vs_sqlite"
    BY <1>1, ScriptCall, CallFields DEF WriterOps
  <2>2. QED
    BY <2>1, HarnessAssumption DEF EmbedFlags, ReadTaxFlags, ProbeFlags
<1>3. WNext
  BY <1>2 DEF Writer, WNext
<1>4. faults' \in 0 .. MaxFaults
  BY <1>1, HarnessAssumption, SMT DEF Writer, HTypes
<1>5. CASE Advance
  BY <1>1, <1>3, <1>4, <1>5, PassInv
<1>6. CASE UNCHANGED <<runs, flags, status, pc, defers, printed, prepared>>
  <2>1. HTypes'
    BY <1>1, <1>4, <1>6 DEF HTypes, Running, Working
  <2>2. GoodStores' /\ DurableRows' /\ ComparesNameFaster'
    BY <1>1, <1>6 DEF HInv, GoodStores, DurableRows, ComparesNameFaster
  <2>3. AfterFlush'
    BY <1>1, <1>6 DEF HInv, AfterFlush, Store
  <2>4. QED
    BY <1>3, <2>1, <2>2, <2>3 DEF HInv
<1>7. QED
  BY <1>5, <1>6 DEF Writer

LEMMA BackgroundInv ==
  ASSUME HInv, NEW p \in DOMAIN stores, Background(p)
  PROVE  HInv'
<1>1. /\ HTypes /\ GoodStores /\ stores' = With(p, Synced(stores[p]))
      /\ UNCHANGED <<runs, flags, status, pc, defers, rows, counted, printed, faults, prepared, wvars>>
  BY DEF HInv, Background
<1>2. HTypes'
  BY <1>1 DEF HTypes, wvars
<1>3. GoodStore(p, Synced(stores[p])) /\ Synced(stores[p]).safe = Synced(stores[p]).acked
  BY <1>1, SyncedGood, ZenonT(60) DEF GoodStores
<1>4. /\ GoodStores' /\ Store(p)'.safe = Store(p)'.acked
      /\ \A q : q # p => Store(q)' = Store(q)
  BY <1>1, <1>3, WithGood
<1>5. \A q : Store(q).safe = Store(q).acked => Store(q)'.safe = Store(q)'.acked
  BY <1>4, SMT
<1>6. AfterFlush'
  BY <1>1, <1>5 DEF HInv, AfterFlush
<1>7. DurableRows' /\ ComparesNameFaster'
  BY <1>1 DEF HInv, DurableRows, ComparesNameFaster
<1>8. QED
  BY <1>2, <1>4, <1>6, <1>7 DEF HInv

LEMMA LaunchInv ==
  ASSUME HInv, NEW f \in Flags, Launch(f)
  PROVE  HInv'
<1>1. /\ HTypes /\ runs < MaxRuns /\ runs' = runs + 1 /\ flags' = f /\ status' = "running" /\ pc' = 1
      /\ defers' = <<>> /\ rows' = <<>> /\ counted' = 0 /\ printed' = None /\ faults' = 0
      /\ UNCHANGED <<stores, prepared, wvars>>
  BY DEF HInv, Launch
<1>2. HTypes'
  <2>1. Len(Scripts[f]) \in Nat
    BY FlagsGood, SMT DEF Good
  <2>2. pc' \in 1 .. Len(Scripts[flags']) + 1 /\ runs' \in 0 .. MaxRuns /\ faults' \in 0 .. MaxFaults
    BY <1>1, <2>1, HarnessAssumption, SMT DEF HTypes
  <2>3. rows' \in Seq(RowSet) /\ defers' \in Seq(Put_Off)
    BY <1>1, SMT
  <2>4. QED
    BY <1>1, <2>2, <2>3 DEF HTypes, wvars, Working
<1>3. GoodStores'
  BY <1>1 DEF HInv, GoodStores
<1>4. AfterFlush'
  BY <1>1, SMT DEF AfterFlush
<1>5. DurableRows' /\ ComparesNameFaster'
  BY <1>1, RowsKept DEF HInv
<1>6. QED
  BY <1>2, <1>3, <1>4, <1>5 DEF HInv

-----------------------------------------------------------------------------
(* Durable units.                                                          *)

\* What a step past a call does to the units of the stores.
UnitsStep(c) ==
    \A p :
        /\ c.op \in {"open", "row"} /\ c.err = "exit" /\ c.at = p => Store(p)'.units = 0
        /\ /\ c.op \in {"put", "batch", "commit"} /\ c.err = "exit" /\ c.at = p /\ p \notin LazyPaths
           => Store(p)'.units = Store(p).units + 1
        /\ c.op \in QuietOps => Store(p)'.units = Store(p).units

LEMMA AfterUnits ==
  ASSUME GoodStores, NEW f, NEW c \in Allowed(f), c.op # "row", stores' = After(c)
  PROVE  UnitsStep(c)
<1> DEFINE s == Store(c.at)
<1>0. GoodStore(c.at, s)
  BY StoreGood
<1>1. ASSUME c.op = "open" PROVE Store(c.at)'.units = 0
  <2> DEFINE t == [s EXCEPT !.open = TRUE, !.lazy = c.lazy, !.limit = c.limit, !.units = 0]
  <2>1. GoodStore(c.at, t)
    BY <1>0, <1>1, CallFields, OpenGood
  <2>2. t.units = 0
    BY <1>0 DEF GoodStore, StoreSet
  <2>3. After(c) = With(c.at, t)
    BY <1>1 DEF After
  <2> HIDE DEF t
  <2>4. QED
    BY <2>1, <2>2, <2>3, WithGood
<1>2. ASSUME c.op \in {"put", "batch", "commit"}, c.at \notin LazyPaths
      PROVE  Store(c.at)'.units = Store(c.at).units + 1
  <2>1. ~s.lazy
    BY <1>0, <1>2 DEF GoodStore
  <2>2. GoodStore(c.at, Written(s, c)) /\ Written(s, c).units = s.units + 1
    BY <1>0, <1>2, <2>1, CallFields, WrittenGood
  <2>3. After(c) = With(c.at, Written(s, c))
    BY <1>2 DEF After
  <2>4. QED
    BY <2>2, <2>3, WithGood
<1>3. ASSUME c.op \in QuietOps, NEW p PROVE Store(p)'.units = Store(p).units
  <2>1. CASE c.op = "flush_wal"
    <3>1. After(c) = With(c.at, Synced(s))
      BY <2>1 DEF After
    <3>2. GoodStore(c.at, Synced(s)) /\ Synced(s).units = s.units
      BY <1>0, SyncedUnits, SyncedGood, ZenonT(60)
    <3>3. QED
      BY <3>1, <3>2, WithGood
  <2>2. CASE c.op # "flush_wal"
    <3>1. After(c) = stores
      BY <1>3, <2>2 DEF After, QuietOps
    <3>2. QED
      BY <3>1 DEF Store
  <2>3. QED
    BY <2>1, <2>2
<1>4. QED
  BY <1>1, <1>2, <1>3 DEF UnitsStep, QuietOps

\* After a step past a call of the script.
LEMMA CountsNext ==
  ASSUME HTypes, CountsUnits, UNCHANGED <<flags, status>>, status = "running" => Running /\ pc' = pc + 1,
         status = "running" => UnitsStep(Scripts[flags][pc])
  PROVE  CountsUnits'
<1> SUFFICES ASSUME status = "running" PROVE CountsUnits'
  BY DEF CountsUnits
<1> DEFINE s == Scripts[flags]
           c == s[pc]
<1>1. pc \in Nat /\ pc' = pc + 1 /\ Len(s) \in Nat
  BY FlagsGood, SMT DEF HTypes, Working, Good
<1>2. ASSUME NEW i \in 1 .. Len(s), NEW a \in 1 .. Len(s), NEW b \in 1 .. Len(s),
             NEW k, k = UnitsOf(flags, s[i].profile), NEW p, p = s[i].at,
             Batched(s[i]), p \notin LazyPaths, a < pc + 1, pc + 1 <= i, Window(s, i, a, b, k)
      PROVE  Store(p)'.units = Done(b, k, pc)
  <2>0. k \in Nat /\ a <= b /\ b + k < i /\ i \in Nat /\ a \in Nat /\ b \in Nat
    BY <1>2, SMTT(40) DEF Window
  <2>1. CASE a = pc
    <3>1. c.op \in {"open", "row"} /\ c.err = "exit" /\ c.at = p
      BY <1>2, <2>1 DEF Window
    <3>2. Store(p)'.units = 0
      BY <3>1 DEF UnitsStep
    <3>3. Done(b, k, pc) = 0
      BY <2>0, <2>1 DEF Done
    <3>4. QED
      BY <3>2, <3>3
  <2>2. CASE a # pc
    <3>1. a < pc /\ pc <= i /\ pc \in a + 1 .. i - 1 /\ pc - 1 \in Nat
      BY <1>1, <1>2, <2>0, <2>2, SMTT(60)
    <3>2. Store(p).units = Done(b, k, pc - 1)
      BY <1>2, <3>1 DEF CountsUnits
    <3>3. CASE pc \in b + 1 .. b + k
      <4>1. c.op \in {"put", "batch", "commit"} /\ c.at = p /\ c.err = "exit"
        BY <1>2, <3>1, <3>3 DEF Window
      <4>2. Store(p)'.units = Store(p).units + 1
        BY <1>2, <4>1 DEF UnitsStep
      <4>3. Done(b, k, pc) = Done(b, k, pc - 1) + 1
        BY <1>1, <2>0, <3>3, SMT DEF Done
      <4>4. QED
        BY <3>2, <4>2, <4>3
    <3>4. CASE pc \notin b + 1 .. b + k
      <4>1. c.op \in QuietOps
        BY <1>2, <3>1, <3>4 DEF Window
      <4>2. Store(p)'.units = Store(p).units
        BY <4>1 DEF UnitsStep
      <4>3. Done(b, k, pc) = Done(b, k, pc - 1)
        BY <1>1, <2>0, <3>4, SMT DEF Done
      <4>4. QED
        BY <3>2, <4>2, <4>3
    <3>5. QED
      BY <3>3, <3>4
  <2>3. QED
    BY <2>1, <2>2
<1>3. pc' - 1 = pc /\ flags' = flags
  BY <1>1, SMT
<1>4. ASSUME NEW i \in 1 .. Len(s), NEW a \in 1 .. Len(s), NEW b \in 1 .. Len(s), Batched(s[i]),
             s[i].at \notin LazyPaths, a < pc', pc' <= i, Window(s, i, a, b, UnitsOf(flags, s[i].profile))
      PROVE  (\A p : p = s[i].at => Store(p)'.units = Done(b, UnitsOf(flags, s[i].profile), pc))
  BY <1>1, <1>2, <1>4, SMTT(40)
<1>5. QED
  BY <1>3, <1>4 DEF CountsUnits

\* While the program stays where it is, or does not run.
LEMMA CountsSame ==
  ASSUME CountsUnits,
         status' = "running" =>
            UNCHANGED <<flags, status, pc>> /\ \A p : Store(p)'.units = Store(p).units
  PROVE  CountsUnits'
<1> SUFFICES ASSUME status' = "running" PROVE CountsUnits'
  BY DEF CountsUnits
<1>1. status = "running" /\ flags' = flags /\ pc' = pc /\ \A p : Store(p)'.units = Store(p).units
  OBVIOUS
<1>2. QED
  BY <1>1, SMTT(40) DEF CountsUnits

\* No row is added.
LEMMA FairKept ==
  ASSUME FairUnits, rows' = <<>> \/ UNCHANGED <<rows, flags>>
  PROVE  FairUnits'
<1>1. CASE rows' = <<>>
  BY <1>1, SMT DEF FairUnits
<1>2. CASE UNCHANGED <<rows, flags>>
  BY <1>2 DEF FairUnits
<1>3. QED
  BY <1>1, <1>2

\* A step past a call that is not one of those that matter, or is made on
\* the way out of a function.
LEMMA PassUnits ==
  ASSUME HTypes, CountsUnits, FairUnits, Running \/ Deferred, Advance, UNCHANGED rows,
         status = "running" /\ ~Deferred => UnitsStep(Current)
  PROVE  CountsUnits' /\ FairUnits'
<1>1. UNCHANGED <<flags, status>> /\ (status = "running" => Running /\ pc' = pc + 1)
  BY AdvanceTypes
<1>2. FairUnits'
  BY <1>1, FairKept
<1>3. status = "running" => UnitsStep(Scripts[flags][pc])
  <2>1. CASE status = "running" /\ Deferred
    <3>1. Scripts[flags][pc].op = "return"
      BY <1>1, <2>1, CurrentCall
    <3>2. QED
      BY <3>1 DEF UnitsStep, QuietOps
  <2>2. CASE status = "running" /\ ~Deferred
    <3>1. Current = Scripts[flags][pc]
      BY <1>1, <2>2, CurrentCall
    <3>2. UnitsStep(Current)
      BY <2>2
    <3>3. QED
      BY <3>1, <3>2 DEF UnitsStep
  <2>3. QED
    BY <2>1, <2>2
<1>4. CountsUnits'
  BY <1>1, <1>3, CountsNext
<1>5. QED
  BY <1>2, <1>4

LEMMA LoseRowsUnits ==
  ASSUME HInv, CountsUnits, FairUnits, LoseRows
  PROVE  CountsUnits' /\ FairUnits'
<1>1. /\ HTypes /\ GoodStores /\ (Running \/ Deferred) /\ Advance /\ UNCHANGED rows
      /\ Current.op \in {"close", "open"}
  BY DEF HInv, LoseRows
<1>2. ASSUME Current.op = "open", NEW p, p = Current.at PROVE Store(p)'.units = 0
  <2> DEFINE s == Store(Current.at)
             t == [s EXCEPT !.open = TRUE, !.lazy = Current.lazy, !.limit = Current.limit, !.units = 0]
  <2>1. PICK kind \in DOMAIN Zero :
           stores' = With(Current.at,
                      [After(Current)[Current.at] EXCEPT !.acked[kind] = 0, !.safe[kind] = 0])
    BY <1>2 DEF LoseRows
  <2>2. After(Current)[Current.at] = t
    BY <1>2 DEF After, With
  <2>3. GoodStore(Current.at, s)
    BY <1>1, StoreGood
  <2>4. s \in StoreSet
    BY <2>3 DEF GoodStore
  <2> DEFINE u == [t EXCEPT !.acked[kind] = 0, !.safe[kind] = 0]
  <2>5. u.units = 0
    BY <2>4 DEF StoreSet
  <2>6. stores'[p] = u /\ p \in DOMAIN stores'
    BY <1>2, <2>1, <2>2 DEF With
  <2> HIDE DEF u
  <2>7. QED
    BY <2>5, <2>6 DEF Store
<1>3. QED
  <2>1. UnitsStep(Current)
    BY <1>1, <1>2 DEF UnitsStep, QuietOps
  <2>2. QED
    BY <1>1, <2>1, PassUnits

\* The units of a row of batched ingest are as they should be.
LEMMA RowUnits ==
  ASSUME HTypes, CountsUnits, Running, Current.op = "row", Current.phase = "chunk_batch_put_batched",
         Current.profile # "sqlite_wal_normal", flags.chunks > 0
  PROVE  Store(Current.at).units = UnitsOf(flags, Current.profile)
<1> DEFINE s == Scripts[flags]
           k == UnitsOf(flags, Current.profile)
<1>1. flags \in Flags /\ pc \in 1 .. Len(s) /\ Current = s[pc] /\ status = "running"
  BY ScriptCall DEF Running
<1>2. Batched(s[pc])
  BY <1>1 DEF Batched
<1>3. Counted(flags, s, pc)
  BY <1>1, <1>2, FlagsGood DEF Good, GoodAt
<1>4. PICK a \in 1 .. Len(s), b \in 1 .. Len(s) : Window(s, pc, a, b, k)
  BY <1>1, <1>3 DEF Counted
<1>5. s[pc].at \notin LazyPaths
  BY <1>3 DEF Counted
<1>6. k \in Nat /\ a <= b /\ b + k < pc /\ pc \in Nat /\ a \in Nat /\ b \in Nat
  BY <1>1, <1>4, SMT DEF Window
<1>7. a < pc /\ pc <= pc
  BY <1>6, SMT
<1>8. Store(s[pc].at).units = Done(b, k, pc - 1)
  BY <1>1, <1>2, <1>4, <1>5, <1>7 DEF CountsUnits
<1>9. Done(b, k, pc - 1) = k
  BY <1>6, SMT DEF Done
<1>10. QED
  BY <1>1, <1>8, <1>9

LEMMA RowFair ==
  ASSUME HInv, CountsUnits, FairUnits, Row
  PROVE  CountsUnits' /\ FairUnits'
<1> DEFINE s == Store(Current.at)
           row == [phase |-> Current.phase, profile |-> Current.profile, metric |-> Current.metric,
                   value |-> Value(Current.metric), units |-> s.units,
                   durable |-> Current.phase \in DurablePhases => s.safe = s.acked]
<1>1. /\ HTypes /\ GoodStores /\ Running /\ Current.op = "row" /\ Advance
      /\ rows' = Append(rows, row) /\ stores' = With(Current.at, [s EXCEPT !.units = 0])
  BY DEF HInv, Row
<1>2. UNCHANGED <<flags, status>> /\ (status = "running" => Running /\ pc' = pc + 1)
  BY <1>1, AdvanceTypes
<1>3. ASSUME NEW p, p = Current.at PROVE Store(p)'.units = 0
  <2>1. GoodStore(Current.at, s) /\ s \in StoreSet
    BY <1>1, StoreGood DEF GoodStore
  <2> DEFINE t == [s EXCEPT !.units = 0]
  <2>2. t.units = 0
    BY <2>1 DEF StoreSet
  <2>3. GoodStore(Current.at, t)
    BY <2>1, SyncedGood, ZenonT(60)
  <2> HIDE DEF t
  <2>4. QED
    BY <1>1, <1>3, <2>2, <2>3, WithGood DEF t
<1>4. CountsUnits'
  <2>1. Current = Scripts[flags][pc]
    BY <1>1, ScriptCall
  <2>2. UnitsStep(Scripts[flags][pc])
    BY <1>1, <1>3, <2>1 DEF UnitsStep, QuietOps
  <2>3. QED
    BY <1>1, <1>2, <2>2, CountsNext
<1>5. FairUnits'
  <2>1. rows \in Seq(RowSet)
    BY <1>1 DEF HTypes
  <2>2. row.phase = "chunk_batch_put_batched" /\ row.profile # "sqlite_wal_normal" /\ flags.chunks > 0 =>
           row.units = UnitsOf(flags, row.profile)
    BY <1>1, RowUnits
  <2> HIDE DEF row
  <2>3. DOMAIN rows' = 1 .. Len(rows) + 1 /\ rows'[Len(rows) + 1] = row /\ DOMAIN rows = 1 .. Len(rows)
        /\ Len(rows) \in Nat /\ \A i \in 1 .. Len(rows) : rows'[i] = rows[i]
    BY <1>1, <2>1, SMT
  <2>4. QED
    BY <1>2, <2>2, <2>3, SMT DEF FairUnits, UnitsOf
<1>6. QED
  BY <1>4, <1>5

\* Every step keeps count.
LEMMA NextUnits == HInv /\ CountsUnits /\ FairUnits /\ [Next]_vars => CountsUnits' /\ FairUnits'
<1> SUFFICES ASSUME HInv, CountsUnits, FairUnits, [Next]_vars PROVE CountsUnits' /\ FairUnits'
  OBVIOUS
<1>0. HInv /\ HTypes /\ GoodStores
  BY DEF HInv
<1>1. ASSUME NEW how \in Ends, End(how) PROVE CountsUnits' /\ FairUnits'
  <2>1. status' # "running" /\ (rows' = <<>> \/ UNCHANGED <<rows, flags>>)
    BY <1>1 DEF End, Ends
  <2>2. QED
    BY <2>1, CountsSame, FairKept
<1>2. CASE Do
  <2>1. (Running \/ Deferred) /\ Advance /\ UNCHANGED rows /\ stores' = After(Current) /\ Current.op # "row"
    BY <1>2 DEF Do, Handled
  <2>2. Current \in Allowed(flags)
    BY <1>0, <2>1, CurrentCall
  <2>3. UnitsStep(Current)
    BY <1>0, <2>1, <2>2, AfterUnits
  <2>4. QED
    BY <1>0, <2>1, <2>3, PassUnits
<1>3. CASE Fail \/ Crash \/ Panicked \/ Finish
  <2>1. CASE status' = "panicking" /\ UNCHANGED <<rows, flags>>
    BY <2>1, CountsSame, FairKept
  <2>2. QED
    BY <1>1, <1>3, <2>1 DEF Fail, Abort, Crash, Panicked, Finish, Ends
<1>4. CASE FailUnseen
  <2>1. /\ (Running \/ Deferred) /\ Advance /\ UNCHANGED <<rows, stores>>
        /\ Current.err = "exit" => Current.op \in {"scan", "scan_more"}
    BY <1>4 DEF FailUnseen
  <2>2. UnitsStep(Current)
    BY <2>1 DEF UnitsStep, QuietOps, Store
  <2>3. QED
    BY <1>0, <2>1, <2>2, PassUnits
<1>5. CASE LoseRows
  BY <1>0, <1>5, LoseRowsUnits
<1>6. CASE Row
  BY <1>0, <1>6, RowFair
<1>7. ASSUME Running, Current.op \in {"gate", "append", "new_run_writer", "finalize"}, Advance, UNCHANGED rows
      PROVE  CountsUnits' /\ FairUnits'
  <2>1. UnitsStep(Current)
    BY <1>7 DEF UnitsStep, QuietOps
  <2>2. QED
    BY <1>0, <1>7, <2>1, PassUnits
<1>8. CASE CheckGate
  BY <1>1, <1>7, <1>8 DEF CheckGate, Ends
<1>9. CASE printTable
  <2>1. /\ Running /\ Current.op = "print_table" /\ pc' = pc + 1 /\ UNCHANGED <<flags, status, rows, stores>>
    BY <1>9 DEF printTable
  <2>2. Current = Scripts[flags][pc]
    BY <1>0, <2>1, ScriptCall
  <2>3. UnitsStep(Scripts[flags][pc])
    BY <2>1, <2>2 DEF UnitsStep, QuietOps
  <2>4. CountsUnits'
    BY <1>0, <2>1, <2>3, CountsNext
  <2>5. QED
    BY <2>1, <2>4, FairKept
<1>10. CASE AppendResults
  BY <1>7, <1>10 DEF AppendResults
<1>11. ASSUME UNCHANGED <<flags, status, pc, rows>>, \A p : Store(p)'.units = Store(p).units
       PROVE  CountsUnits' /\ FairUnits'
  BY <1>11, CountsSame, FairKept
<1>12. CASE Writer
  <2>1. Running /\ Current.op \in {"new_run_writer", "finalize"} /\ UNCHANGED <<stores, rows>>
    BY <1>12 DEF Writer
  <2>2. CASE Advance
    BY <1>7, <2>1, <2>2
  <2>3. CASE UNCHANGED <<flags, status, pc>>
    BY <1>11, <2>1, <2>3 DEF Store
  <2>4. QED
    BY <1>12, <2>2, <2>3 DEF Writer
<1>13. ASSUME NEW p \in DOMAIN stores, Background(p) PROVE CountsUnits' /\ FairUnits'
  <2>1. UNCHANGED <<flags, status, pc, rows>> /\ stores' = With(p, Synced(stores[p])) /\ stores[p] = Store(p)
    BY <1>13 DEF Background, Store
  <2>2. GoodStore(p, Store(p))
    BY <1>0, StoreGood
  <2>3. GoodStore(p, Synced(Store(p))) /\ Synced(Store(p)).units = Store(p).units
    BY <2>2, SyncedGood, SyncedUnits, ZenonT(60)
  <2>4. \A q : Store(q)'.units = Store(q).units
    BY <1>0, <2>1, <2>3, WithGood
  <2>5. QED
    BY <1>11, <2>1, <2>4
<1>14. ASSUME NEW f \in Flags, Launch(f) PROVE CountsUnits' /\ FairUnits'
  <2>1. pc' = 1 /\ rows' = <<>>
    BY <1>14 DEF Launch
  <2>2. CountsUnits'
    BY <2>1, SMT DEF CountsUnits
  <2>3. QED
    BY <2>1, <2>2, FairKept
<1>15. CASE UNCHANGED vars
  BY <1>11, <1>15 DEF vars, hvars, Store
<1>16. QED
  BY <1>2, <1>3, <1>4, <1>5, <1>6, <1>8, <1>9, <1>10, <1>12, <1>13, <1>14, <1>15 DEF Next, Works

-----------------------------------------------------------------------------
(* The theorems.                                                           *)

LEMMA InitHInv ==
  ASSUME GoodScripts, Init
  PROVE  HInv
<1>2. HTypes
  <2>1. rows \in Seq(RowSet) /\ defers \in Seq(Put_Off)
    BY SMT DEF Init
  <2>2. wpc = "none"
    BY DEF Init, WInit
  <2>3. QED
    BY <2>1, <2>2, HarnessAssumption, SMT DEF Init, HTypes, Working, Ends
<1>3. GoodStores /\ AfterFlush /\ DurableRows /\ ComparesNameFaster
  BY SMT DEF Init, GoodStores, AfterFlush, DurableRows, ComparesNameFaster
<1>4. QED
  BY <1>2, <1>3 DEF HInv

\* Every step keeps the invariant.
LEMMA NextHInv == HInv /\ [Next]_vars => HInv'
<1> SUFFICES ASSUME HInv, [Next]_vars PROVE HInv'
  OBVIOUS
<1>2. CASE Do
  BY <1>2, DoInv
<1>3. CASE Fail \/ Crash \/ Panicked \/ Finish
  BY <1>3, FailInv
<1>4. CASE FailUnseen
  BY <1>4, FailUnseenInv
<1>5. CASE LoseRows
  BY <1>5, LoseRowsInv
<1>6. CASE Row
  BY <1>6, RowInv
<1>7. CASE CheckGate
  BY <1>7, GateInv
<1>8. CASE printTable
  BY <1>8, PrintInv
<1>9. CASE AppendResults
  BY <1>9, AppendInv
<1>10. CASE Writer
  BY <1>10, WriterInv
<1>11. CASE \E p \in DOMAIN stores : Background(p)
  BY <1>11, BackgroundInv
<1>12. CASE \E f \in Flags : Launch(f)
  BY <1>12, LaunchInv
<1>13. CASE UNCHANGED vars
  <2>1. UNCHANGED hvars /\ UNCHANGED wvars
    BY <1>13 DEF vars
  <2>2. HTypes'
    BY <2>1 DEF HInv, HTypes, hvars, wvars
  <2>3. GoodStores' /\ DurableRows' /\ ComparesNameFaster'
    BY <2>1 DEF HInv, GoodStores, DurableRows, ComparesNameFaster, hvars
  <2>4. AfterFlush'
    BY <2>1 DEF HInv, AfterFlush, Store, hvars
  <2>5. QED
    BY <2>1, <2>2, <2>3, <2>4 DEF HInv
<1>14. QED
  BY <1>2, <1>3, <1>4, <1>5, <1>6, <1>7, <1>8, <1>9, <1>10, <1>11, <1>12, <1>13 DEF Next, Works

-----------------------------------------------------------------------------
(* Engines are closed before their directory is removed.                   *)

OpenStores == {p \in DOMAIN stores : stores[p].open}

\* What was put off, and which engines may be open, as they should be before
\* each call of the script (ScriptStacks).
StackTrace(s, g) ==
    g[1] = <<<<>>, {}>> /\ \A i \in 1 .. Len(s) : <<g[i], s[i], g[i + 1]>> \in Stacks
InStack(g) == g[1] = defers /\ OpenStores \subseteq g[2]
Stacked ==
    /\ status = "running" => \E g : StackTrace(Scripts[flags], g) /\ InStack(g[pc])
    /\ status \in Ends => OpenStores = {}

\* What a step past a call may do to the engines.
OpensNoMore(c) ==
    OpenStores' \subseteq (IF c.op = "open" THEN OpenStores \cup {c.at}
                           ELSE IF c.op = "close" THEN OpenStores \ {c.at} ELSE OpenStores)

LEMMA ScriptTrace ==
  ASSUME StackScripts, NEW f \in Flags
  PROVE  \E g : StackTrace(Scripts[f], g)
<1>1. Scripts[f] \in Leads(Stacks, <<<<>>, {}>>, <<<<>>, {}>>)
  BY DEF StackScripts
<1>2. QED
  BY <1>1 DEF Leads, StackTrace

LEMMA WithOpens ==
  ASSUME NEW p, NEW s, stores' = With(p, s)
  PROVE  /\ ~s.open => OpenStores' \subseteq OpenStores \ {p}
         /\ OpenStores' \subseteq OpenStores \cup {p}
         /\ (s.open => Store(p).open) => OpenStores' \subseteq OpenStores
         /\ DOMAIN stores \subseteq DOMAIN stores'
<1>1. /\ DOMAIN stores' = DOMAIN stores \cup {p} /\ stores'[p] = s
      /\ \A q \in DOMAIN stores \ {p} : stores'[q] = stores[q]
  BY DEF With
<1>2. ~NewStore.open
  BY DEF NewStore
<1>3. ASSUME NEW q \in OpenStores' PROVE q \in OpenStores \/ (q = p /\ s.open)
  BY <1>1, <1>3 DEF OpenStores
<1>4. ~s.open => OpenStores' \subseteq OpenStores \ {p}
  <2>1. ~s.open => p \notin OpenStores'
    BY <1>1 DEF OpenStores
  <2>2. QED
    BY <1>3, <2>1
<1>5. Store(p).open => p \in OpenStores
  BY <1>2 DEF Store, OpenStores
<1>6. QED
  BY <1>1, <1>3, <1>4, <1>5

LEMMA AfterOpens ==
  ASSUME GoodStores, NEW f, NEW c \in Allowed(f), stores' = After(c)
  PROVE  /\ OpensNoMore(c)
         /\ DOMAIN stores \ DOMAIN stores' \subseteq IF c.op = "remove_all" THEN Under(c.at) ELSE {}
<1> DEFINE s == Store(c.at)
<1>0. GoodStore(c.at, s) /\ s \in StoreSet
  BY StoreGood DEF GoodStore
<1>1. CASE c.op = "open"
  <2>1. After(c) = With(c.at, [s EXCEPT !.open = TRUE, !.lazy = c.lazy, !.limit = c.limit, !.units = 0])
    BY <1>1 DEF After
  <2>2. QED
    BY <1>1, <2>1, WithOpens DEF OpensNoMore
<1>2. CASE c.op \in {"put", "batch", "commit"}
  <2>1. Written(s, c).open = s.open
    BY <1>0 DEF Written, StoreSet
  <2>2. After(c) = With(c.at, Written(s, c))
    BY <1>2 DEF After
  <2>3. QED
    BY <1>2, <2>1, <2>2, WithOpens DEF OpensNoMore
<1>3. CASE c.op = "flush_wal"
  <2>1. After(c) = With(c.at, Synced(s))
    BY <1>3 DEF After
  <2>2. Synced(s).open = s.open
    BY <1>0 DEF Synced, StoreSet
  <2>3. QED
    BY <1>3, <2>1, <2>2, WithOpens DEF OpensNoMore
<1>4. CASE c.op = "close"
  <2> DEFINE t == [Synced(s) EXCEPT !.open = FALSE]
  <2>1. After(c) = With(c.at, t)
    BY <1>4 DEF After
  <2>2. ~t.open
    BY <1>0 DEF Synced, StoreSet
  <2> HIDE DEF t
  <2>3. QED
    BY <1>4, <2>1, <2>2, WithOpens DEF OpensNoMore
<1>5. CASE c.op = "remove_all"
  <2>1. stores' = [p \in DOMAIN stores \ Under(c.at) |-> stores[p]]
    BY <1>5 DEF After, Keep
  <2>2. QED
    BY <1>5, <2>1 DEF OpensNoMore, OpenStores
<1>6. CASE c.op \notin {"open", "put", "batch", "commit", "flush_wal", "close", "remove_all"}
  <2>1. stores' = stores
    BY <1>6 DEF After
  <2>2. QED
    BY <1>6, <2>1 DEF OpensNoMore, OpenStores
<1>7. QED
  BY <1>1, <1>2, <1>3, <1>4, <1>5, <1>6

LEMMA LosesOpens ==
  ASSUME GoodStores, LoseRows
  PROVE  OpensNoMore(Current) /\ DOMAIN stores \subseteq DOMAIN stores'
<1> DEFINE s == Store(Current.at)
<1>0. s \in StoreSet
  BY StoreGood DEF GoodStore
<1>1. CASE Current.op = "close"
  <2>1. PICK t \in Reduced(s) : stores' = With(Current.at, t)
    BY <1>1 DEF LoseRows
  <2>2. PICK a : t = [s EXCEPT !.open = FALSE, !.acked = a, !.safe = a]
    BY DEF Reduced
  <2>3. ~t.open
    BY <1>0, <2>2 DEF StoreSet
  <2>4. QED
    BY <1>1, <2>1, <2>3, WithOpens DEF OpensNoMore
<1>2. CASE Current.op = "open"
  <2>1. PICK t : stores' = With(Current.at, t)
    BY <1>2 DEF LoseRows
  <2>2. QED
    BY <1>2, <2>1, WithOpens DEF OpensNoMore
<1>3. QED
  BY <1>1, <1>2 DEF LoseRows

\* A step past a call.
Moves ==
    /\ pc' = IF status = "running" THEN pc + 1 ELSE pc
    /\ defers' = IF Deferred THEN Tail(defers)
                 ELSE IF Current.op = "defer" THEN Pushed(Current.call) ELSE defers
    /\ UNCHANGED <<flags, status>>

LEMMA AdvanceMoves == Advance => Moves
  BY DEF Advance, Moves

LEMMA PrintMoves ==
  ASSUME HTypes, printTable
  PROVE  Moves
<1>1. Running /\ Current.op = "print_table" /\ pc' = pc + 1 /\ UNCHANGED <<flags, status, defers>>
  BY DEF printTable
<1>2. ~Deferred
  BY <1>1, CurrentCall DEF Put_Off
<1>3. QED
  BY <1>1, <1>2 DEF Moves, Running

\* After a step past a call, and what such a step may remove.
LEMMA StackNext ==
  ASSUME HTypes, Stacked, Running \/ Deferred, Moves, OpensNoMore(Current)
  PROVE  /\ Stacked'
         /\ status = "running" /\ Current.op = "remove_all" => \A p \in OpenStores : ~Below(p, Current.at)
<1>1. /\ UNCHANGED <<flags, status>> /\ status \in Working
      /\ status = "running" => Running /\ pc' = pc + 1 /\ pc \in 1 .. Len(Scripts[flags])
  BY CurrentCall DEF Moves, Running, Deferred
<1>2. SUFFICES ASSUME status = "running"
               PROVE  /\ Stacked'
                      /\ Current.op = "remove_all" => \A p \in OpenStores : ~Below(p, Current.at)
  BY <1>1 DEF Stacked, Working, Ends
<1> DEFINE s == Scripts[flags]
           c == s[pc]
<1>3. PICK g : StackTrace(s, g) /\ InStack(g[pc])
  BY <1>2 DEF Stacked
<1>4. <<g[pc], c, g[pc + 1]>> \in Stacks
  BY <1>1, <1>2, <1>3 DEF StackTrace
<1> DEFINE u == g[pc]
           v == g[pc + 1]
<1>5. StackMove(u, c, v)
  <2> HIDE DEF u, v, c
  <2>1. <<u, c, v>> \in Stacks
    BY <1>4 DEF u, v, c
  <2>2. QED
    BY <2>1 DEF Stacks
<1>6. u[1] = defers /\ OpenStores \subseteq u[2]
  BY <1>3 DEF InStack
<1>7. Deferred <=> (c.op = "return" /\ u[1] # <<>>)
  BY <1>1, <1>2, <1>6 DEF Deferred, Running
<1>8. Current = IF c.op = "return" /\ u[1] # <<>> THEN Head(u[1]) ELSE c
  BY <1>6, <1>7 DEF Current
<1>9. defers' = IF c.op = "return" /\ u[1] # <<>> THEN Tail(u[1])
                ELSE IF c.op = "defer" THEN <<c.call>> \o u[1] ELSE u[1]
  BY <1>6, <1>7, <1>8 DEF Moves, Pushed
<1> HIDE DEF u, v, c
<1>10. /\ v[1] = defers'
       /\ (IF Current.op = "open" THEN u[2] \cup {Current.at}
           ELSE IF Current.op = "close" THEN u[2] \ {Current.at} ELSE u[2]) \subseteq v[2]
       /\ Current.op = "remove_all" => \A x \in u[2] : ~Below(x, Current.at)
  BY <1>5, <1>8, <1>9 DEF StackMove
<1>11. OpenStores' \subseteq v[2]
  BY <1>6, <1>10 DEF OpensNoMore
<1>12. v = g[pc'] /\ flags' = flags /\ status' = "running"
  BY <1>1, <1>2 DEF v
<1>13. InStack(g[pc])'
  BY <1>10, <1>11, <1>12 DEF InStack
<1>14. StackTrace(Scripts[flags], g)'
  BY <1>3, <1>12 DEF StackTrace
<1>15. Stacked'
  BY <1>12, <1>13, <1>14 DEF Stacked, Ends
<1>16. QED
  BY <1>6, <1>10, <1>15

\* The engines stay as they are, or the process starts or ends.
LEMMA StackSame ==
  ASSUME Stacked, UNCHANGED <<flags, status, pc, defers>>, OpenStores' \subseteq OpenStores
  PROVE  Stacked'
<1>1. ASSUME NEW u, InStack(u) PROVE u[1] = defers' /\ OpenStores' \subseteq u[2]
  BY <1>1 DEF InStack
<1>2. ASSUME status = "running" PROVE (\E g : StackTrace(Scripts[flags], g) /\ InStack(g[pc]))'
  <2>1. PICK g : StackTrace(Scripts[flags], g) /\ InStack(g[pc])
    BY <1>2 DEF Stacked
  <2>2. InStack(g[pc])'
    BY <1>1, <2>1 DEF InStack
  <2>3. StackTrace(Scripts[flags], g)'
    BY <2>1 DEF StackTrace
  <2>4. QED
    BY <2>2, <2>3
<1>3. QED
  BY <1>2 DEF Stacked

\* Every step keeps to the stack, and one of a program that has met no
\* error removes only stores that are closed.
LEMMA NextStacked ==
  ASSUME StackScripts, HInv, Stacked, [Next]_vars
  PROVE  /\ Stacked'
         /\ status = "running" /\ status' = "running" =>
               \A p \in DOMAIN stores \ DOMAIN stores' : ~stores[p].open
<1> DEFINE Closed == status = "running" /\ status' = "running" =>
                        \A p \in DOMAIN stores \ DOMAIN stores' : ~stores[p].open
<1>0. HTypes /\ GoodStores
  BY DEF HInv
<1>1. ASSUME NEW how \in Ends, End(how) PROVE Stacked' /\ Closed
  <2>1. /\ status' = how /\ status' # "running"
        /\ stores' = [p \in DOMAIN stores \cap {<<"dir">>} |-> [stores[p] EXCEPT !.open = FALSE]]
    BY <1>1 DEF End, Ends
  <2>2. ASSUME NEW p \in DOMAIN stores PROVE ~[stores[p] EXCEPT !.open = FALSE].open
    BY <1>0 DEF GoodStores, GoodStore, StoreSet
  <2>3. OpenStores' = {}
    BY <2>1, <2>2 DEF OpenStores
  <2>4. QED
    BY <2>1, <2>3 DEF Stacked
<1>2. CASE Do
  <2>1. (Running \/ Deferred) /\ Advance /\ stores' = After(Current)
    BY <1>2 DEF Do
  <2>2. Current \in Allowed(flags)
    BY <1>0, <2>1, CurrentCall
  <2>3. /\ OpensNoMore(Current)
        /\ DOMAIN stores \ DOMAIN stores' \subseteq IF Current.op = "remove_all" THEN Under(Current.at) ELSE {}
    BY <1>0, <2>1, <2>2, AfterOpens
  <2>4. /\ Stacked'
        /\ status = "running" /\ Current.op = "remove_all" => \A p \in OpenStores : ~Below(p, Current.at)
    BY <1>0, <2>1, <2>3, AdvanceMoves, StackNext
  <2>5. \A p \in Under(Current.at) : Below(p, Current.at) /\ p \in DOMAIN stores
    BY DEF Under, Below
  <2>6. QED
    BY <2>3, <2>4, <2>5 DEF OpenStores
<1>3. CASE Fail \/ Crash \/ Panicked \/ Finish
  <2>1. CASE status' = "panicking"
    BY <2>1 DEF Stacked, Ends
  <2>2. QED
    BY <1>1, <1>3, <2>1 DEF Fail, Abort, Crash, Panicked, Finish, Ends
<1>4. CASE FailUnseen
  <2>1. (Running \/ Deferred) /\ Advance /\ UNCHANGED stores /\ Current.op # "close"
    BY <1>4 DEF FailUnseen
  <2>2. OpensNoMore(Current)
    BY <2>1 DEF OpensNoMore, OpenStores
  <2>3. QED
    BY <1>0, <2>1, <2>2, AdvanceMoves, StackNext
<1>5. CASE LoseRows
  <2>1. (Running \/ Deferred) /\ Advance
    BY <1>5 DEF LoseRows
  <2>2. OpensNoMore(Current) /\ DOMAIN stores \subseteq DOMAIN stores'
    BY <1>0, <1>5, LosesOpens
  <2>3. QED
    BY <1>0, <2>1, <2>2, AdvanceMoves, StackNext
<1>6. CASE Row
  <2> DEFINE t == [Store(Current.at) EXCEPT !.units = 0]
  <2>1. Running /\ Advance /\ stores' = With(Current.at, t) /\ Current.op = "row"
    BY <1>6 DEF Row
  <2>2. t.open = Store(Current.at).open
    BY <1>0, StoreGood DEF GoodStore, StoreSet
  <2> HIDE DEF t
  <2>3. OpensNoMore(Current) /\ DOMAIN stores \subseteq DOMAIN stores'
    BY <2>1, <2>2, WithOpens DEF OpensNoMore
  <2>4. QED
    BY <1>0, <2>1, <2>3, AdvanceMoves, StackNext
<1>7. ASSUME Running, Current.op \in {"gate", "append", "new_run_writer", "finalize"}, Advance, UNCHANGED stores
      PROVE  Stacked' /\ Closed
  <2>1. OpensNoMore(Current)
    BY <1>7 DEF OpensNoMore, OpenStores
  <2>2. QED
    BY <1>0, <1>7, <2>1, AdvanceMoves, StackNext
<1>8. CASE CheckGate
  BY <1>1, <1>7, <1>8 DEF CheckGate, Ends
<1>9. CASE printTable
  <2>1. Running /\ Current.op = "print_table" /\ UNCHANGED stores
    BY <1>9 DEF printTable
  <2>2. OpensNoMore(Current)
    BY <2>1 DEF OpensNoMore, OpenStores
  <2>3. QED
    BY <1>0, <1>9, <2>1, <2>2, PrintMoves, StackNext
<1>10. CASE AppendResults
  BY <1>7, <1>10 DEF AppendResults
<1>11. ASSUME UNCHANGED <<flags, status, pc, defers>>, OpenStores' \subseteq OpenStores,
              DOMAIN stores \subseteq DOMAIN stores'
       PROVE  Stacked' /\ Closed
  BY <1>11, StackSame
<1>12. CASE Writer
  <2>1. Running /\ Current.op \in {"new_run_writer", "finalize"} /\ UNCHANGED stores
    BY <1>12 DEF Writer
  <2>2. CASE Advance
    BY <1>7, <2>1, <2>2
  <2>3. CASE UNCHANGED <<flags, status, pc, defers>>
    BY <1>11, <2>1, <2>3 DEF OpenStores
  <2>4. QED
    BY <1>12, <2>2, <2>3 DEF Writer
<1>13. ASSUME NEW p \in DOMAIN stores, Background(p) PROVE Stacked' /\ Closed
  <2>1. UNCHANGED <<flags, status, pc, defers>> /\ stores' = With(p, Synced(stores[p])) /\ stores[p] = Store(p)
    BY <1>13 DEF Background, Store
  <2>2. Synced(Store(p)).open = Store(p).open
    BY <1>0, StoreGood DEF GoodStore, StoreSet, Synced
  <2>3. QED
    BY <1>11, <2>1, <2>2, WithOpens
<1>14. ASSUME NEW f \in Flags, Launch(f) PROVE Stacked' /\ Closed
  <2>1. status \in Ends /\ status' = "running" /\ flags' = f /\ pc' = 1 /\ defers' = <<>> /\ UNCHANGED stores
    BY <1>14 DEF Launch
  <2>2. PICK g : StackTrace(Scripts[f], g)
    BY ScriptTrace
  <2>3. OpenStores' = {} /\ g[pc'] = <<<<>>, {}>>
    BY <2>1, <2>2 DEF Stacked, OpenStores, StackTrace
  <2>4. g[pc'][1] = <<>> /\ g[pc'][2] = {}
    BY <2>3, SMT
  <2>5. InStack(g[pc])' /\ StackTrace(Scripts[flags], g)'
    BY <2>1, <2>2, <2>3, <2>4 DEF InStack, StackTrace
  <2>6. QED
    BY <2>1, <2>5 DEF Stacked, Ends
<1>15. CASE UNCHANGED vars
  BY <1>11, <1>15 DEF vars, hvars, OpenStores
<1>16. QED
  BY <1>2, <1>3, <1>4, <1>5, <1>6, <1>8, <1>9, <1>10, <1>12, <1>13, <1>14, <1>15 DEF Next, Works

-----------------------------------------------------------------------------
(* Lost rows are noticed.                                                  *)

\* What is known of the store r of an integrity check, stage by stage: rows
\* that it has lost since the ingest will be missing from the count, then
\* from the rows, then from the lines of the run.
InStage(g, r) ==
    LET s == Store(r)
        sum == s.acked.memoir + s.acked.chunk
    IN  /\ g = "before" => s.acked = Zero
        /\ g \in {"before", "fill", "passed"} => r \notin lost
        /\ g \in {"fill", "shut", "again", "half"} =>
              s.acked.memoir <= flags.memoirs /\ s.acked.chunk <= flags.chunks
        /\ g \in {"shut", "again", "half", "full"} => s.safe = s.acked
        /\ g \in {"shut", "again", "half"} => (r \in lost => sum < Expected)
        /\ g = "half" => counted <= s.acked.memoir
        /\ g \in {"full", "rows"} => (r \in lost => counted < Expected)
        /\ g = "done" => (r \in lost => Fails(rows))
        /\ g = "appended" => (r \in lost => Fails(wlines))

StageTrace(f, p, s, g) ==
    /\ g[1] = "before" /\ g[Len(s) + 1] \in {"before", "passed"}
    /\ \A i \in 1 .. Len(s) : <<g[i], s[i], g[i + 1]>> \in Staging(f, p)

Noticed ==
    /\ status = "running" /\ Harness =>
          \A p \in Known :
              /\ \A i \in 1 .. Len(defers) : defers[i].at # RestartDir(p)
              /\ \E g : StageTrace(flags, p, Scripts[flags], g) /\ InStage(g[pc], RestartDir(p))
    /\ status \in Ends => DOMAIN stores \subseteq {<<"dir">>}

\* The call c of the script is made, or what was put off and is elsewhere.
MadeAt(r, c) == Current = c \/ (c.op = "return" /\ Current.op \in {"close", "remove_all"} /\ Current.at # r)

LEMMA FailsMore ==
  ASSUME NEW rs \in Seq(RowSet), NEW row
  PROVE  /\ Fails(rs) => Fails(Append(rs, row))
         /\ row.phase = "post_restart_row_count" /\ row.metric = "integrity_ok" /\ row.value = 0 =>
               Fails(Append(rs, row))
<1>1. /\ DOMAIN rs = 1 .. Len(rs) /\ DOMAIN Append(rs, row) = 1 .. Len(rs) + 1 /\ Len(rs) \in Nat
      /\ \A i \in 1 .. Len(rs) : Append(rs, row)[i] = rs[i]
      /\ Append(rs, row)[Len(rs) + 1] = row
  BY SMT
<1>2. Len(rs) + 1 \in 1 .. Len(rs) + 1 /\ 1 .. Len(rs) \subseteq 1 .. Len(rs) + 1
  BY <1>1, SMT
<1>3. QED
  BY <1>1, <1>2 DEF Fails

\* What a call leaves of the keys of a store.
LEMMA AfterKeys ==
  ASSUME GoodStores, NEW f, NEW c \in Allowed(f), stores' = After(c), NEW r
  PROVE  /\ c.op = "open" /\ c.at = r => Store(r)'.acked = Store(r).acked /\ Store(r)'.safe = Store(r).safe
         /\ c.op \in {"put", "batch", "commit"} /\ c.at = r =>
               \A k \in Keys : Store(r)'.acked[k] = IF k = c.key /\ Store(r).acked[k] < c.upto THEN c.upto
                                                    ELSE Store(r).acked[k]
         /\ c.op = "close" /\ c.at = r => Store(r)'.acked = Store(r).acked /\ Store(r)'.safe = Store(r).acked
         /\ c.op = "flush_wal" /\ c.at = r => Store(r)'.acked = Store(r).acked
         /\ c.op \notin {"open", "put", "batch", "commit", "flush_wal", "close", "remove_all"} =>
               Store(r)' = Store(r)
         /\ c.at # r /\ c.op # "remove_all" => Store(r)' = Store(r)
         /\ c.op = "remove_all" => Store(r)' = Store(r) \/ Store(r)' = NewStore
<1> DEFINE s == Store(c.at)
<1>0. GoodStore(c.at, s) /\ s \in StoreSet
  BY StoreGood DEF GoodStore
<1>1. CASE c.op = "open"
  <2> DEFINE t == [s EXCEPT !.open = TRUE, !.lazy = c.lazy, !.limit = c.limit, !.units = 0]
  <2>1. After(c) = With(c.at, t)
    BY <1>1 DEF After
  <2>2. GoodStore(c.at, t) /\ t.acked = s.acked /\ t.safe = s.safe
    <3>1. GoodStore(c.at, t)
      BY <1>0, <1>1, CallFields, OpenGood
    <3>2. t.acked = s.acked /\ t.safe = s.safe
      BY <1>0 DEF StoreSet
    <3>3. QED
      BY <3>1, <3>2
  <2> HIDE DEF t
  <2>3. QED
    BY <1>1, <2>1, <2>2, WithGood
<1>2. CASE c.op \in {"put", "batch", "commit"}
  <2>1. GoodStore(c.at, Written(s, c)) /\ c \in WriteCalls
    BY <1>0, <1>2, CallFields, WrittenGood
  <2>2. After(c) = With(c.at, Written(s, c))
    BY <1>2 DEF After
  <2>3. ASSUME NEW k \in Keys
        PROVE  Written(s, c).acked[k] = IF k = c.key /\ s.acked[k] < c.upto THEN c.upto ELSE s.acked[k]
    <3> DEFINE t == [s EXCEPT !.acked[c.key] = IF @ < c.upto THEN c.upto ELSE @]
    <3>1. s.acked \in Counts /\ DOMAIN s.acked = Keys /\ c.key \in Keys
      BY <1>0, <2>1 DEF StoreSet, Counts, Keys, WriteCalls
    <3>2. t.acked[k] = IF k = c.key /\ s.acked[k] < c.upto THEN c.upto ELSE s.acked[k]
      BY <1>0, <3>1 DEF StoreSet
    <3>3. t \in [DOMAIN s -> {t[x] : x \in DOMAIN s}] /\ "acked" \in DOMAIN s /\ DOMAIN t = DOMAIN s
      BY <1>0 DEF StoreSet
    <3>4. Written(s, c) = IF s.lazy THEN t ELSE [t EXCEPT !.safe = t.acked, !.units = @ + 1]
      BY DEF Written
    <3> HIDE DEF t
    <3>5. Written(s, c).acked = t.acked
      BY <3>3, <3>4
    <3>6. QED
      BY <3>2, <3>5
  <2>4. Store(c.at)' = Written(s, c) /\ \A q : q # c.at => Store(q)' = Store(q)
    BY <2>1, <2>2, WithGood
  <2>5. ASSUME c.at = r, NEW k \in Keys
        PROVE  Store(r)'.acked[k] = IF k = c.key /\ Store(r).acked[k] < c.upto THEN c.upto
                                    ELSE Store(r).acked[k]
    <3>1. Store(r)' = Written(s, c) /\ s = Store(r)
      BY <2>4, <2>5
    <3> HIDE DEF s
    <3>2. Written(s, c).acked[k] = IF k = c.key /\ s.acked[k] < c.upto THEN c.upto ELSE s.acked[k]
      BY <2>3
    <3>3. QED
      BY <3>1, <3>2
  <2>6. QED
    BY <1>2, <2>4, <2>5
<1>3. CASE c.op = "flush_wal"
  <2>1. After(c) = With(c.at, Synced(s))
    BY <1>3 DEF After
  <2>2. GoodStore(c.at, Synced(s)) /\ Synced(s).acked = s.acked
    <3>1. GoodStore(c.at, Synced(s))
      BY <1>0, SyncedGood, ZenonT(60)
    <3>2. Synced(s).acked = s.acked
      BY <1>0 DEF Synced, StoreSet
    <3>3. QED
      BY <3>1, <3>2
  <2>3. QED
    BY <1>3, <2>1, <2>2, WithGood
<1>4. CASE c.op = "close"
  <2> DEFINE t == [Synced(s) EXCEPT !.open = FALSE]
  <2>1. After(c) = With(c.at, t)
    BY <1>4 DEF After
  <2>2. GoodStore(c.at, t)
    BY <1>0, SyncedGood, ZenonT(60)
  <2>3. t.acked = s.acked /\ t.safe = s.acked
    BY <1>0 DEF Synced, StoreSet
  <2> HIDE DEF t
  <2>4. QED
    BY <1>4, <2>1, <2>2, <2>3, WithGood
<1>5. CASE c.op = "remove_all"
  <2>1. stores' = [p \in DOMAIN stores \ Under(c.at) |-> stores[p]]
    BY <1>5 DEF After, Keep
  <2>2. Store(r)' = Store(r) \/ Store(r)' = NewStore
    BY <2>1 DEF Store
  <2>3. QED
    BY <1>5, <2>2
<1>6. CASE c.op \notin {"open", "put", "batch", "commit", "flush_wal", "close", "remove_all"}
  <2>1. stores' = stores
    BY <1>6 DEF After
  <2>2. QED
    BY <1>6, <2>1 DEF Store
<1>7. QED
  BY <1>1, <1>2, <1>3, <1>4, <1>5, <1>6

\* The stage is what it was, and so is what it says.
LEMMA StageKept ==
  ASSUME NEW g, NEW r, InStage(g, r), flags' = flags, r \in lost' <=> r \in lost,
         g \in {"done", "appended", "passed"}
            \/ (Store(r)'.acked = Store(r).acked /\ Store(r)'.safe \in {Store(r).safe, Store(r).acked}),
         counted' = counted \/ g \notin {"half", "full", "rows"},
         g = "done" => (Fails(rows) => Fails(rows')), g = "appended" => wlines' = wlines
  PROVE  InStage(g, r)'
<1>1. Expected' = Expected
  BY DEF Expected
<1>2. CASE g \in {"done", "appended", "passed"}
  BY <1>2 DEF InStage
<1>3. CASE g \notin {"done", "appended", "passed"}
  <2>1. Store(r)'.acked = Store(r).acked /\ Store(r)'.safe \in {Store(r).safe, Store(r).acked}
    BY <1>3
  <2>2. g \in {"half", "full", "rows"} => counted' = counted
    OBVIOUS
  <2>3. QED
    BY <1>1, <1>3, <2>1, <2>2 DEF InStage
<1>4. QED
  BY <1>2, <1>3

LEMMA DoStage ==
  ASSUME HInv, Do, flags.memoirs \in Nat, flags.chunks \in Nat, NEW r, NEW c, MadeAt(r, c),
         NEW a, NEW b, StageMove(flags, r, a, c, b), InStage(a, r)
  PROVE  InStage(b, r)'
<1> DEFINE s == Store(r)
           t == Store(r)'
<1>1. /\ HTypes /\ GoodStores /\ (Running \/ Deferred) /\ stores' = After(Current)
      /\ UNCHANGED <<flags, lost, rows, wlines>> /\ Current.op \notin Handled /\ ~Refuses(Current)
  BY DEF HInv, Do, Advance, wvars
<1>2. Current \in Allowed(flags)
  BY <1>1, CurrentCall
<1>3. GoodStore(r, s) /\ s.acked \in Counts
  BY <1>1, StoreGood DEF GoodStore, StoreSet
<1>4. s.acked.memoir \in Nat /\ s.acked.chunk \in Nat /\ counted \in Nat
  BY <1>1, <1>3 DEF Counts, HTypes
<1>5. c.op # "return" => Current = c
  BY DEF MadeAt
<1>6. /\ Current.op = "open" /\ Current.at = r => t.acked = s.acked /\ t.safe = s.safe
      /\ Current.op \in {"put", "batch", "commit"} /\ Current.at = r =>
            \A k \in Keys : t.acked[k] = IF k = Current.key /\ s.acked[k] < Current.upto THEN Current.upto
                                         ELSE s.acked[k]
      /\ Current.op = "close" /\ Current.at = r => t.acked = s.acked /\ t.safe = s.acked
      /\ Current.op = "flush_wal" /\ Current.at = r => t.acked = s.acked
      /\ Current.op \notin {"open", "put", "batch", "commit", "flush_wal", "close", "remove_all"} => t = s
      /\ Current.at # r /\ Current.op # "remove_all" => t = s
      /\ Current.op = "remove_all" => t = s \/ t = NewStore
  BY <1>1, <1>2, AfterKeys
<1>7. counted' = CASE Current.op = "scan" -> Store(Current.at).acked[Current.key]
                   [] Current.op = "scan_more" -> counted + Store(Current.at).acked[Current.key]
                   [] Current.op = "count" -> Store(Current.at).acked.memoir + Store(Current.at).acked.chunk
                   [] OTHER -> counted
  BY DEF Do
<1>8. ASSUME a = "before", b = a, Away(r, c) \/ c.op = "remove_all" PROVE InStage(b, r)'
  <2>1. Current.at # r \/ Current.op = "remove_all"
    BY <1>8 DEF MadeAt, Away
  <2>2. s.acked = Zero /\ r \notin lost
    BY <1>8 DEF InStage
  <2>3. t.acked = Zero
    <3>1. NewStore.acked = Zero
      BY DEF NewStore
    <3>2. t = s \/ t = NewStore
      BY <1>6, <2>1
    <3>3. QED
      BY <2>2, <3>1, <3>2
  <2>4. QED
    BY <1>1, <1>8, <2>2, <2>3 DEF InStage
<1>9. ASSUME <<a, b>> \in {<<"before", "fill">>, <<"shut", "again">>}, c.op = "open", c.at = r
      PROVE  InStage(b, r)'
  <2>1. t.acked = s.acked /\ t.safe = s.safe /\ Expected' = Expected
    BY <1>1, <1>5, <1>6, <1>9 DEF Expected
  <2>2. CASE a = "before" /\ b = "fill"
    <3>1. s.acked = Zero /\ r \notin lost
      BY <2>2 DEF InStage
    <3>2. Zero.memoir <= flags.memoirs /\ Zero.chunk <= flags.chunks
      BY SMT DEF Zero
    <3>3. QED
      BY <1>1, <2>1, <2>2, <3>1, <3>2 DEF InStage
  <2>3. CASE a = "shut" /\ b = "again"
    BY <1>1, <2>1, <2>3 DEF InStage
  <2>4. QED
    BY <1>9, <2>2, <2>3
<1>10. ASSUME a = "fill", b = a, c \in Filling(flags, r) PROVE InStage(b, r)'
  <2>1. c.at = r /\ Current = c
    BY <1>5, <1>10 DEF Filling, Inert, InertOps
  <2>2. s.acked.memoir <= flags.memoirs /\ s.acked.chunk <= flags.chunks /\ r \notin lost
    BY <1>10 DEF InStage
  <2>3. t.acked.memoir <= flags.memoirs /\ t.acked.chunk <= flags.chunks
    <3>1. CASE c.op \in {"put", "batch", "commit"}
      <4>1. c.key \in Keys /\ c.upto \in Int /\ c.upto <= Limit(flags, c.key)
        BY <1>10, <3>1 DEF Filling
      <4>2. /\ t.acked["memoir"] = IF "memoir" = c.key /\ s.acked["memoir"] < c.upto THEN c.upto ELSE s.acked["memoir"]
            /\ t.acked["chunk"] = IF "chunk" = c.key /\ s.acked["chunk"] < c.upto THEN c.upto ELSE s.acked["chunk"]
        BY <1>6, <2>1, <3>1 DEF Keys
      <4>3. t.acked.memoir <= flags.memoirs
        BY <2>2, <4>1, <4>2 DEF Limit
      <4>4. t.acked.chunk <= flags.chunks
        BY <2>2, <4>1, <4>2 DEF Limit
      <4>5. QED
        BY <4>3, <4>4
    <3>2. CASE c.op = "flush_wal"
      BY <1>6, <2>1, <2>2, <3>2
    <3>3. CASE c.op \notin {"put", "batch", "commit", "flush_wal"}
      BY <1>6, <1>10, <2>1, <2>2, <3>3 DEF Filling
    <3>4. QED
      BY <3>1, <3>2, <3>3
  <2>4. QED
    BY <1>1, <1>10, <2>2, <2>3 DEF InStage
<1>11. ASSUME <<a, b>> \in {<<"fill", "shut">>, <<"full", "rows">>}, c.op = "close", c.at = r
       PROVE  InStage(b, r)'
  <2>1. t.acked = s.acked /\ t.safe = s.acked /\ counted' = counted /\ Expected' = Expected
    BY <1>1, <1>5, <1>6, <1>7, <1>11 DEF Expected
  <2>2. CASE a = "fill" /\ b = "shut"
    BY <1>1, <2>1, <2>2 DEF InStage
  <2>3. CASE a = "full" /\ b = "rows"
    BY <1>1, <2>1, <2>3 DEF InStage
  <2>4. QED
    BY <1>11, <2>2, <2>3
<1>12. ASSUME <<a, b>> = <<"again", "half">>, c.op = "scan", c.at = r, c.key = "memoir" PROVE InStage(b, r)'
  <2>1. a = "again" /\ b = "half" /\ t = s /\ Expected' = Expected /\ counted' = s.acked.memoir
    BY <1>1, <1>5, <1>6, <1>7, <1>12 DEF Expected
  <2>2. s.acked.memoir <= s.acked.memoir
    BY <1>4, SMT
  <2>3. QED
    BY <1>1, <2>1, <2>2 DEF InStage
<1>13. ASSUME <<a, b>> = <<"half", "full">>, c.op = "scan_more", c.at = r, c.key = "chunk" PROVE InStage(b, r)'
  <2>1. a = "half" /\ b = "full" /\ t = s /\ Expected' = Expected /\ counted' = counted + s.acked.chunk
    BY <1>1, <1>5, <1>6, <1>7, <1>13 DEF Expected
  <2>2. s.safe = s.acked /\ counted <= s.acked.memoir /\ (r \in lost => s.acked.memoir + s.acked.chunk < Expected)
    BY <2>1 DEF InStage
  <2>3. r \in lost => counted' < Expected
    <3>1. Expected \in Nat
      BY SMT DEF Expected
    <3>2. QED
      BY <1>4, <2>1, <2>2, <3>1, SMT
  <2>4. QED
    BY <1>1, <2>1, <2>2, <2>3 DEF InStage
<1>14. ASSUME <<a, b>> = <<"again", "full">>, c.op = "count", c.at = r PROVE InStage(b, r)'
  <2>1. a = "again" /\ b = "full" /\ t = s /\ Expected' = Expected /\ counted' = s.acked.memoir + s.acked.chunk
    BY <1>1, <1>5, <1>6, <1>7, <1>14 DEF Expected
  <2>2. QED
    BY <1>1, <2>1 DEF InStage
<1>15. ASSUME a \in {"done", "passed"}, b = a PROVE InStage(b, r)'
  BY <1>1, <1>15, StageKept
<1>16. ASSUME c.op \in {"row", "append", "finalize", "gate", "fatal"} PROVE FALSE
  BY <1>1, <1>5, <1>16 DEF Handled, Refuses
<1>17. QED
  BY <1>8, <1>9, <1>10, <1>11, <1>12, <1>13, <1>14, <1>15, <1>16 DEF StageMove

LEMMA FailUnseenStage ==
  ASSUME HInv, FailUnseen, flags.memoirs \in Nat, flags.chunks \in Nat, NEW r, NEW c, MadeAt(r, c),
         NEW a, NEW b, StageMove(flags, r, a, c, b), InStage(a, r)
  PROVE  InStage(b, r)'
<1> DEFINE s == Store(r)
<1>1. /\ HTypes /\ GoodStores /\ UNCHANGED <<flags, lost, rows, wlines, stores>>
      /\ Current.op \in Fallible /\ Current.op # "close"
      /\ Current.err = "ignore" \/ Current.op \in {"scan", "scan_more"}
      /\ counted' = IF Current.op = "scan" THEN 0 ELSE counted
  BY DEF HInv, FailUnseen, Advance, wvars
<1>2. Store(r)' = s /\ Expected' = Expected
  BY <1>1 DEF Store, Expected
<1>3. s.acked \in Counts
  BY <1>1, StoreGood DEF GoodStore, StoreSet
<1>4. s.acked.memoir \in Nat /\ s.acked.chunk \in Nat /\ counted \in Nat
  BY <1>1, <1>3 DEF Counts, HTypes
<1>5. c.op # "return" => Current = c
  BY DEF MadeAt
<1>6. ASSUME a \in {"before", "fill", "done", "appended", "passed"}, b = a PROVE InStage(b, r)'
  BY <1>1, <1>2, <1>6, StageKept
<1>7. ASSUME c.op \in {"open", "close", "count", "row", "append", "gate", "fatal"},
             c.op = "open" => c.err = "exit", c.op = "count" => c.err = "close"
      PROVE  FALSE
  BY <1>1, <1>5, <1>7 DEF Fallible
<1>8. ASSUME <<a, b>> = <<"again", "half">>, c.op = "scan" PROVE InStage(b, r)'
  <2>1. a = "again" /\ b = "half" /\ counted' = 0
    BY <1>1, <1>5, <1>8
  <2>2. counted' <= s.acked.memoir
    BY <1>4, <2>1, SMT
  <2>3. QED
    BY <1>1, <1>2, <2>1, <2>2 DEF InStage
<1>9. ASSUME <<a, b>> = <<"half", "full">>, c.op = "scan_more" PROVE InStage(b, r)'
  <2>1. a = "half" /\ b = "full" /\ counted' = counted
    BY <1>1, <1>5, <1>9
  <2>2. s.safe = s.acked /\ counted <= s.acked.memoir /\ (r \in lost => s.acked.memoir + s.acked.chunk < Expected)
    BY <2>1 DEF InStage
  <2>3. r \in lost => counted < Expected
    <3>1. Expected \in Nat
      BY SMT DEF Expected
    <3>2. QED
      BY <1>4, <2>2, <3>1, SMT
  <2>4. QED
    BY <1>1, <1>2, <2>1, <2>2, <2>3 DEF InStage
<1>10. QED
  BY <1>6, <1>7, <1>8, <1>9 DEF StageMove

\* Fewer keys than before are fewer in sum.
LEMMA FewerKeys ==
  ASSUME NEW u \in Counts, NEW v \in Counts, u # v, \A k \in Keys : u[k] <= v[k]
  PROVE  u.memoir + u.chunk < v.memoir + v.chunk
<1>1. u.memoir \in Nat /\ u.chunk \in Nat /\ v.memoir \in Nat /\ v.chunk \in Nat
  BY DEF Counts
<1>2. u.memoir <= v.memoir /\ u.chunk <= v.chunk
  BY DEF Keys
<1>3. u.memoir # v.memoir \/ u.chunk # v.chunk
  BY SMT DEF Counts
<1>4. QED
  BY <1>1, <1>2, <1>3, SMT

LEMMA LoseRowsStage ==
  ASSUME HInv, LoseRows, flags.memoirs \in Nat, flags.chunks \in Nat, NEW r, NEW c, MadeAt(r, c),
         NEW a, NEW b, StageMove(flags, r, a, c, b), InStage(a, r)
  PROVE  InStage(b, r)'
<1> DEFINE s == Store(r)
           t == Store(r)'
<1>1. /\ HTypes /\ GoodStores /\ (Running \/ Deferred) /\ UNCHANGED <<flags, rows, wlines, counted>>
      /\ Current.op \in {"open", "close"}
  BY DEF HInv, LoseRows, Advance, wvars
<1>2. GoodStore(r, s) /\ s.acked \in Counts /\ s.safe \in Counts /\ s \in StoreSet
  BY <1>1, StoreGood DEF GoodStore, StoreSet
<1>3. s.acked.memoir \in Nat /\ s.acked.chunk \in Nat /\ s.safe.memoir \in Nat /\ s.safe.chunk \in Nat
  BY <1>2 DEF Counts
<1>4. c.op # "return" => Current = c
  BY DEF MadeAt
<1>5. Expected' = Expected /\ Expected \in Nat /\ Expected = flags.memoirs + flags.chunks
  BY <1>1, SMT DEF Expected
<1>6. CASE Current.at # r
  <2>1. PICK x : stores' = With(Current.at, x)
    BY <1>1 DEF LoseRows
  <2>2. t = s /\ (r \in lost' <=> r \in lost)
    <3>1. t = s
      BY <1>6, <2>1 DEF With, Store
    <3>2. QED
      BY <1>6, <3>1 DEF LoseRows
  <2>3. b = a
    BY <1>1, <1>4, <1>6 DEF StageMove, Filling, Inert
  <2>4. QED
    BY <1>1, <2>2, <2>3, StageKept
<1>7. CASE Current.at = r
  <2>1. Current = c /\ c.at = r
    BY <1>7 DEF MadeAt
  <2>2. lost' = IF t.acked # s.acked THEN lost \cup {r} ELSE lost
    <3>1. PICK x : stores' = With(r, x)
      BY <1>1, <1>7 DEF LoseRows
    <3>2. stores'[r] = t
      BY <3>1 DEF With, Store
    <3>3. lost' = IF stores'[r].acked # s.acked THEN lost \cup {r} ELSE lost
      BY <1>7 DEF LoseRows
    <3>4. QED
      BY <3>2, <3>3
  <2>3. CASE c.op = "close"
    <3>1. <<a, b>> \in {<<"fill", "shut">>, <<"full", "rows">>}
      BY <2>1, <2>3 DEF StageMove, Away, Filling, Inert, InertOps
    <3>2. PICK x \in Reduced(s) : stores' = With(r, x)
      BY <1>7, <2>1, <2>3 DEF LoseRows
    <3>3. PICK left \in [memoir : s.safe.memoir .. s.acked.memoir, chunk : s.safe.chunk .. s.acked.chunk] :
             x = [s EXCEPT !.open = FALSE, !.acked = left, !.safe = left]
      BY DEF Reduced
    <3>4. left \in Counts /\ left.memoir <= s.acked.memoir /\ left.chunk <= s.acked.chunk
          /\ left.memoir >= s.safe.memoir /\ left.chunk >= s.safe.chunk
      BY <1>3, SMT DEF Counts
    <3>5. t = x
      BY <3>2 DEF With, Store
    <3>6. x.acked = left /\ x.safe = left
      <4>1. x.acked = left
        BY <1>2, <3>3 DEF StoreSet
      <4>2. x.safe = left
        BY <1>2, <3>3 DEF StoreSet
      <4>3. QED
        BY <4>1, <4>2
    <3>7. CASE a = "fill" /\ b = "shut"
      <4>1. s.acked.memoir <= flags.memoirs /\ s.acked.chunk <= flags.chunks /\ r \notin lost
        BY <3>7 DEF InStage
      <4>2. left.memoir \in Nat /\ left.chunk \in Nat
        BY <3>4 DEF Counts
      <4>3. left.memoir <= flags.memoirs /\ left.chunk <= flags.chunks
        BY <1>3, <3>4, <4>1, <4>2, SMT
      <4>4. r \in lost' => left.memoir + left.chunk < Expected
        <5>1. SUFFICES ASSUME left # s.acked PROVE left.memoir + left.chunk < Expected
          BY <2>2, <3>5, <3>6, <4>1
        <5>2. left.memoir + left.chunk < s.acked.memoir + s.acked.chunk
          BY <1>2, <3>4, <5>1, FewerKeys DEF Keys
        <5>3. QED
          BY <1>3, <1>5, <4>1, <4>2, <5>2, SMTT(40)
      <4>5. QED
        BY <1>1, <1>5, <3>5, <3>6, <3>7, <4>3, <4>4 DEF InStage
    <3>8. CASE a = "full" /\ b = "rows"
      <4>1. s.safe = s.acked /\ (r \in lost => counted < Expected)
        BY <3>8 DEF InStage
      <4>2. left.memoir = s.acked.memoir /\ left.chunk = s.acked.chunk
        BY <1>3, <3>4, <4>1, SMT DEF Counts
      <4>3. left = s.acked
        BY <1>2, <3>4, <4>2, SMTT(40) DEF Counts
      <4>4. lost' = lost
        BY <2>2, <3>5, <3>6, <4>3
      <4>5. QED
        BY <1>1, <1>5, <3>8, <4>1, <4>4 DEF InStage
    <3>9. QED
      BY <3>1, <3>7, <3>8
  <2>4. CASE c.op = "open"
    <3>1. <<a, b>> \in {<<"before", "fill">>, <<"shut", "again">>}
      BY <2>1, <2>4 DEF StageMove, Away, Filling, Inert, InertOps
    <3>2. /\ s.acked # Zero
          /\ \E kind \in DOMAIN Zero :
                /\ s.acked[kind] > 0
                /\ stores' = With(r, [After(Current)[r] EXCEPT !.acked[kind] = 0, !.safe[kind] = 0])
      BY <1>7, <2>1, <2>4 DEF LoseRows
    <3>3. a = "shut" /\ b = "again"
      BY <3>1, <3>2 DEF InStage
    <3>4. PICK kind \in DOMAIN Zero :
                /\ s.acked[kind] > 0
                /\ stores' = With(r, [After(Current)[r] EXCEPT !.acked[kind] = 0, !.safe[kind] = 0])
      BY <3>2
    <3>5. kind \in Keys
      BY DEF Zero, Keys
    <3> DEFINE o == [s EXCEPT !.open = TRUE, !.lazy = c.lazy, !.limit = c.limit, !.units = 0]
               x == [o EXCEPT !.acked[kind] = 0, !.safe[kind] = 0]
               left == [s.acked EXCEPT ![kind] = 0]
    <3>6. After(Current)[r] = o
      BY <1>7, <2>1, <2>4 DEF After, With
    <3>7. t = x
      BY <3>4, <3>6 DEF With, Store
    <3>8. s.safe = s.acked /\ s.acked.memoir <= flags.memoirs /\ s.acked.chunk <= flags.chunks
      BY <3>3 DEF InStage
    <3>9. x.acked = left /\ x.safe = left
      <4>1. o.acked = s.acked /\ o.safe = s.acked /\ "acked" \in DOMAIN o /\ "safe" \in DOMAIN o
        BY <1>2, <3>8 DEF StoreSet
      <4> HIDE DEF o
      <4>2. x.acked = left
        BY <4>1
      <4>3. x.safe = left
        BY <4>1
      <4>4. QED
        BY <4>2, <4>3
    <3>10. left \in Counts /\ \A k \in Keys : left[k] = IF k = kind THEN 0 ELSE s.acked[k]
      BY <1>2, <3>5 DEF Counts, Keys
    <3> HIDE DEF x, left
    <3>11. left.memoir <= s.acked.memoir /\ left.chunk <= s.acked.chunk /\ left # s.acked
           /\ left.memoir \in Nat /\ left.chunk \in Nat
      <4>1. left["memoir"] = IF "memoir" = kind THEN 0 ELSE s.acked["memoir"]
        BY <3>10 DEF Keys
      <4>2. left["chunk"] = IF "chunk" = kind THEN 0 ELSE s.acked["chunk"]
        BY <3>10 DEF Keys
      <4>3. left[kind] = 0 /\ s.acked[kind] > 0
        BY <3>4, <3>5, <3>10
      <4>4. left # s.acked
        BY <4>3, SMT
      <4>5. left.memoir <= s.acked.memoir /\ left.chunk <= s.acked.chunk
        BY <1>3, <4>1, <4>2, SMT
      <4>6. QED
        BY <3>10, <4>4, <4>5 DEF Counts
    <3>12. left.memoir + left.chunk < Expected /\ left.memoir <= flags.memoirs /\ left.chunk <= flags.chunks
      <4>1. left.memoir + left.chunk < s.acked.memoir + s.acked.chunk
        BY <1>2, <3>10, <3>11, FewerKeys DEF Keys
      <4>2. QED
        BY <1>3, <1>5, <3>8, <3>11, <4>1, SMTT(40)
    <3>13. QED
      BY <1>1, <1>5, <3>3, <3>7, <3>9, <3>12 DEF InStage
  <2>5. QED
    BY <1>1, <2>1, <2>3, <2>4
<1>8. QED
  BY <1>6, <1>7

LEMMA RowStage ==
  ASSUME HInv, Row, flags.memoirs \in Nat, flags.chunks \in Nat, NEW r, NEW c, MadeAt(r, c),
         NEW a, NEW b, StageMove(flags, r, a, c, b), InStage(a, r)
  PROVE  InStage(b, r)'
<1> DEFINE s == Store(Current.at)
           row == [phase |-> Current.phase, profile |-> Current.profile, metric |-> Current.metric,
                   value |-> Value(Current.metric), units |-> s.units,
                   durable |-> Current.phase \in DurablePhases => s.safe = s.acked]
<1>1. /\ HTypes /\ Current.op = "row" /\ rows' = Append(rows, row)
      /\ stores' = With(Current.at, [s EXCEPT !.units = 0])
      /\ UNCHANGED <<flags, counted, lost, wlines>>
  BY DEF HInv, Row, Advance, wvars
<1>2. c = Current
  BY <1>1 DEF MadeAt
<1>3. rows \in Seq(RowSet)
  BY <1>1 DEF HTypes
<1>4. Fails(rows) => Fails(rows')
  BY <1>1, <1>3, FailsMore
<1>5. CASE b = a /\ Current.at # r
  <2>1. Store(r)' = Store(r)
    BY <1>1, <1>5 DEF With, Store
  <2>2. QED
    BY <1>1, <1>4, <1>5, <2>1, StageKept
<1>6. CASE a = "rows" /\ b = a
  BY <1>1, <1>6 DEF InStage, Expected
<1>7. CASE /\ <<a, b>> = <<"rows", "done">>
           /\ c.phase = "post_restart_row_count" /\ c.metric = "integrity_ok"
  <2>1. a = "rows" /\ b = "done"
    BY <1>7
  <2>2. SUFFICES ASSUME r \in lost PROVE Fails(rows')
    BY <1>1, <2>1 DEF InStage
  <2>3. counted < Expected
    BY <2>1, <2>2 DEF InStage
  <2>4. counted # Expected
    <3>1. counted \in Nat /\ Expected \in Nat
      BY <1>1, SMTT(40) DEF HTypes, Expected
    <3>2. QED
      BY <2>3, <3>1, SMT
  <2>5. row.phase = "post_restart_row_count" /\ row.metric = "integrity_ok" /\ row.value = 0
    BY <1>2, <1>7, <2>4 DEF Value
  <2> HIDE DEF row
  <2>6. QED
    BY <1>1, <1>3, <2>5, FailsMore
<1>8. QED
  BY <1>1, <1>2, <1>5, <1>6, <1>7 DEF StageMove, Filling, Away

\* A step of main after the integrity checks.
LEMMA MainStage ==
  ASSUME HInv, Running, Current.op \in {"print_table", "gate", "append", "new_run_writer", "finalize"},
         UNCHANGED <<flags, stores, rows, counted, lost>>,
         Current.op \in {"print_table", "gate", "finalize"} => wlines' = wlines,
         Current.op = "append" => (Fails(rows) => Fails(wlines')),
         Current.op = "gate" => ~(IF flags.root THEN HasIntegrityFailure ELSE hasIntegrityFail),
         NEW r, NEW c, MadeAt(r, c), NEW a, NEW b, StageMove(flags, r, a, c, b), InStage(a, r)
  PROVE  InStage(b, r)'
<1>1. c = Current
  BY DEF MadeAt
<1>2. Store(r)' = Store(r)
  BY DEF Store
<1>3. CASE b = a
  <2>1. a = "appended" => wlines' = wlines
    BY <1>1, <1>3 DEF StageMove
  <2>2. QED
    BY <1>2, <1>3, <2>1, StageKept
<1>4. CASE <<a, b>> = <<"done", "appended">> /\ c.op = "append"
  <2>1. a = "done" /\ b = "appended"
    BY <1>4
  <2>2. QED
    BY <1>1, <1>4, <2>1 DEF InStage
<1>5. CASE a = (IF flags.root THEN "appended" ELSE "done") /\ b = "passed" /\ c.op = "gate"
  BY <1>1, <1>5 DEF InStage, HasIntegrityFailure, hasIntegrityFail
<1>6. QED
  BY <1>1, <1>3, <1>4, <1>5 DEF StageMove, Filling

\* The writer is at work, and the program stays at its call.
LEMMA StayStage ==
  ASSUME HInv, Running, Current.op \in {"new_run_writer", "finalize"},
         UNCHANGED <<flags, stores, rows, counted, lost>>, Current.op = "finalize" => wlines' = wlines,
         NEW r, NEW c, MadeAt(r, c), NEW a, NEW b, StageMove(flags, r, a, c, b), InStage(a, r)
  PROVE  InStage(a, r)'
<1>1. c = Current
  BY DEF MadeAt
<1>2. Store(r)' = Store(r)
  BY DEF Store
<1>3. a = "appended" => wlines' = wlines
  BY <1>1 DEF StageMove
<1>4. QED
  BY <1>2, <1>3, StageKept

-----------------------------------------------------------------------------
LEMMA HarnessFlags ==
  ASSUME HTypes, status \in Working, Harness
  PROVE  flags \in Flags /\ flags \in EmbedFlags(RunIds) /\ flags.memoirs \in Nat /\ flags.chunks \in Nat
<1>1. flags \in Flags
  BY DEF HTypes
<1>2. flags \in EmbedFlags(RunIds)
  BY <1>1, HarnessAssumption DEF Harness, ReadTaxFlags, ProbeFlags
<1>3. QED
  BY <1>1, <1>2 DEF EmbedFlags

LEMMA ScriptStage ==
  ASSUME StageScripts, NEW f \in Flags, f \in EmbedFlags(RunIds), NEW p \in Known
  PROVE  \E g : StageTrace(f, p, Scripts[f], g)
<1>1. PICK b \in {"before", "passed"} : Scripts[f] \in Leads(Staging(f, p), "before", b)
  BY DEF StageScripts
<1>2. QED
  BY <1>1 DEF Leads, StageTrace

\* What a step past a call has to keep to.
KeepsStage ==
    \A r, c, a, b : MadeAt(r, c) /\ StageMove(flags, r, a, c, b) /\ InStage(a, r) => InStage(b, r)'
StaysStage ==
    \A r, c, a, b : MadeAt(r, c) /\ StageMove(flags, r, a, c, b) /\ InStage(a, r) => InStage(a, r)'

\* Where the program is, in the integrity check of a profile.
LEMMA StageNow ==
  ASSUME HTypes, Noticed, Running, Harness, NEW p \in Known
  PROVE  \E g, c, a, b :
            /\ StageTrace(flags, p, Scripts[flags], g)
            /\ c = Scripts[flags][pc] /\ a = g[pc] /\ b = g[pc + 1]
            /\ MadeAt(RestartDir(p), c) /\ InStage(a, RestartDir(p))
            /\ StageMove(flags, RestartDir(p), a, c, b)
<1>1. status = "running" /\ pc \in 1 .. Len(Scripts[flags])
  BY CurrentCall DEF Running
<1>2. PICK g : StageTrace(flags, p, Scripts[flags], g) /\ InStage(g[pc], RestartDir(p))
  BY <1>1 DEF Noticed
<1>3. <<g[pc], Scripts[flags][pc], g[pc + 1]>> \in Staging(flags, p)
  BY <1>1, <1>2 DEF StageTrace
<1>4. PICK c, a, b : c = Scripts[flags][pc] /\ a = g[pc] /\ b = g[pc + 1]
  OBVIOUS
<1>5. StageMove(flags, RestartDir(p), a, c, b)
  <2>1. <<a, c, b>> \in Staging(flags, p)
    BY <1>3, <1>4
  <2>2. QED
    BY <2>1 DEF Staging
<1>6. MadeAt(RestartDir(p), c)
  <2>1. CASE Deferred
    <3>1. defers \in Seq(Put_Off) /\ defers # <<>> /\ Current = Head(defers)
      BY <2>1 DEF HTypes, Deferred, Current
    <3>2. 1 \in 1 .. Len(defers) /\ Current = defers[1] /\ Current \in Put_Off
      BY <3>1, SMT
    <3>3. Current.at # RestartDir(p)
      BY <1>1, <3>2 DEF Noticed
    <3>4. c.op = "return"
      BY <1>4, <2>1, CurrentCall
    <3>5. QED
      BY <3>2, <3>3, <3>4 DEF MadeAt, Put_Off
  <2>2. CASE ~Deferred
    BY <1>4, <2>2, CurrentCall DEF MadeAt
  <2>3. QED
    BY <2>1, <2>2
<1>7. QED
  BY <1>2, <1>4, <1>5, <1>6

\* What is put off is not in the directory of an integrity check.
LEMMA PutOffElsewhere ==
  ASSUME HTypes, Noticed, Running, Moves, Harness, NEW p \in Known
  PROVE  \A i \in 1 .. Len(defers') : defers'[i].at # RestartDir(p)
<1>1. /\ \A i \in 1 .. Len(defers) : defers[i].at # RestartDir(p)
      /\ defers \in Seq(Put_Off)
  BY DEF Noticed, Running, HTypes
<1>2. CASE Deferred
  <2>1. defers' = Tail(defers) /\ defers # <<>>
    BY <1>2 DEF Moves, Deferred
  <2>2. QED
    BY <1>1, <2>1, SMT
<1>3. CASE ~Deferred /\ Current.op = "defer"
  <2>1. defers' = <<Current.call>> \o defers
    BY <1>3 DEF Moves, Pushed
  <2>2. Current.call.at # RestartDir(p)
    <3>1. PICK c, a, b : MadeAt(RestartDir(p), c) /\ StageMove(flags, RestartDir(p), a, c, b)
      BY StageNow
    <3>2. c = Current
      BY <1>3, <3>1 DEF MadeAt
    <3>3. QED
      BY <1>3, <3>1, <3>2 DEF StageMove, Filling, Inert, InertOps, Away
  <2>3. PICK d : d = Current.call
    OBVIOUS
  <2>4. defers' = <<d>> \o defers /\ d.at # RestartDir(p)
    BY <2>1, <2>2, <2>3
  <2>5. QED
    BY <1>1, <2>4, SMT
<1>4. CASE ~Deferred /\ Current.op # "defer"
  <2>1. defers' = defers
    BY <1>4 DEF Moves
  <2>2. QED
    BY <1>1, <2>1
<1>5. QED
  BY <1>2, <1>3, <1>4

LEMMA NoticedNext ==
  ASSUME HTypes, Noticed, Running \/ Deferred, Moves, status = "running" /\ Harness => KeepsStage
  PROVE  Noticed'
<1>1. UNCHANGED <<flags, status>> /\ status \in Working /\ (Harness' <=> Harness)
  BY CurrentCall DEF Moves, Harness
<1>2. SUFFICES ASSUME status = "running", Harness, NEW p \in Known
               PROVE  /\ \A i \in 1 .. Len(defers') : defers'[i].at # RestartDir(p)
                      /\ \E g : StageTrace(flags', p, Scripts[flags'], g) /\ InStage(g[pc], RestartDir(p))'
  BY <1>1 DEF Noticed, Working, Ends
<1>3. Running /\ pc' = pc + 1
  BY <1>2 DEF Moves, Running, Deferred
<1>4. \A i \in 1 .. Len(defers') : defers'[i].at # RestartDir(p)
  BY <1>2, <1>3, PutOffElsewhere
<1>5. PICK g, c, a, b :
            /\ StageTrace(flags, p, Scripts[flags], g)
            /\ b = g[pc + 1]
            /\ MadeAt(RestartDir(p), c) /\ InStage(a, RestartDir(p))
            /\ StageMove(flags, RestartDir(p), a, c, b)
  BY <1>2, <1>3, StageNow
<1>6. InStage(b, RestartDir(p))'
  BY <1>2, <1>5 DEF KeepsStage
<1>7. b = g[pc']
  BY <1>3, <1>5
<1>8. InStage(g[pc], RestartDir(p))'
  BY <1>6, <1>7 DEF InStage
<1>9. StageTrace(flags', p, Scripts[flags'], g)
  BY <1>1, <1>5
<1>10. QED
  BY <1>4, <1>8, <1>9

\* The program stays at its call.
LEMMA NoticedStay ==
  ASSUME Noticed, UNCHANGED <<flags, status, pc, defers>>, status \in Working,
         status = "running" /\ Harness =>
            \A p \in Known : \A g : StageTrace(flags, p, Scripts[flags], g) /\ InStage(g[pc], RestartDir(p))
                                    => InStage(g[pc], RestartDir(p))'
  PROVE  Noticed'
<1>1. Harness' <=> Harness
  BY DEF Harness
<1>2. SUFFICES ASSUME status = "running", Harness, NEW p \in Known
               PROVE  /\ \A i \in 1 .. Len(defers') : defers'[i].at # RestartDir(p)
                      /\ \E g : StageTrace(flags', p, Scripts[flags'], g) /\ InStage(g[pc], RestartDir(p))'
  BY <1>1 DEF Noticed, Working, Ends
<1>3. PICK g : StageTrace(flags, p, Scripts[flags], g) /\ InStage(g[pc], RestartDir(p))
  BY <1>2 DEF Noticed
<1>4. InStage(g[pc], RestartDir(p))'
  BY <1>2, <1>3
<1>5. \A i \in 1 .. Len(defers') : defers'[i].at # RestartDir(p)
  BY <1>2 DEF Noticed
<1>6. QED
  BY <1>3, <1>4, <1>5

\* However a process ends, only a store given with -dir stays.
LEMMA NoticedEnd ==
  ASSUME NEW how \in Ends, End(how)
  PROVE  Noticed'
<1>1. /\ status' \in Ends /\ status' # "running"
      /\ stores' = [p \in DOMAIN stores \cap {<<"dir">>} |-> [stores[p] EXCEPT !.open = FALSE]]
  BY DEF End, Ends
<1>2. QED
  BY <1>1 DEF Noticed

LEMMA LaunchNoticed ==
  ASSUME StageScripts, Noticed, NEW f \in Flags, Launch(f)
  PROVE  Noticed'
<1>1. /\ status \in Ends /\ status' = "running" /\ flags' = f /\ pc' = 1 /\ defers' = <<>> /\ lost' = {}
      /\ UNCHANGED stores
  BY DEF Launch
<1>2. DOMAIN stores \subseteq {<<"dir">>}
  BY <1>1 DEF Noticed
<1>3. SUFFICES ASSUME Harness', NEW p \in Known
               PROVE  \E g : StageTrace(flags', p, Scripts[flags'], g) /\ InStage(g[pc], RestartDir(p))'
  <2>1. Len(defers') = 0
    BY <1>1, SMT
  <2>2. \A i \in 1 .. Len(defers') : FALSE
    BY <2>1, SMT
  <2>3. QED
    BY <1>1, <2>2 DEF Noticed, Ends
<1>4. f \in EmbedFlags(RunIds)
  BY <1>1, <1>3, HarnessAssumption DEF Harness, ReadTaxFlags, ProbeFlags
<1>5. PICK g : StageTrace(f, p, Scripts[f], g)
  BY <1>4, ScriptStage
<1>6. g[pc'] = "before"
  BY <1>1, <1>5 DEF StageTrace
<1>7. RestartDir(p) \notin DOMAIN stores
  <2>1. RestartDir(p) # <<"dir">>
    BY SMT DEF RestartDir
  <2>2. QED
    BY <1>2, <2>1
<1>8. (Store(RestartDir(p)).acked = Zero)'
  BY <1>1, <1>7 DEF Store, NewStore
<1>9. InStage(g[pc], RestartDir(p))'
  BY <1>1, <1>6, <1>8 DEF InStage
<1>10. QED
  BY <1>1, <1>5, <1>9

\* A background sync, and the steps of the writer.
LEMMA BackgroundNoticed ==
  ASSUME HInv, Noticed, NEW q \in DOMAIN stores, Background(q)
  PROVE  Noticed'
<1>1. /\ HTypes /\ GoodStores /\ stores' = With(q, Synced(stores[q])) /\ stores[q] = Store(q)
      /\ UNCHANGED <<flags, status, pc, defers, rows, counted, lost, wlines>> /\ status \in Working
  BY DEF HInv, Background, Store, wvars
<1>2. ASSUME NEW r PROVE Store(r)'.acked = Store(r).acked /\ Store(r)'.safe \in {Store(r).safe, Store(r).acked}
  <2>1. GoodStore(q, Store(q)) /\ Store(q) \in StoreSet
    BY <1>1, StoreGood DEF GoodStore
  <2>2. Synced(Store(q)).acked = Store(q).acked /\ Synced(Store(q)).safe = Store(q).acked
    BY <2>1 DEF Synced, StoreSet
  <2>3. Store(r)' = IF r = q THEN Synced(Store(q)) ELSE Store(r)
    BY <1>1 DEF With, Store
  <2>4. QED
    BY <2>2, <2>3
<1>3. ASSUME NEW a, NEW r, InStage(a, r) PROVE InStage(a, r)'
  BY <1>1, <1>2, <1>3, StageKept
<1>4. ASSUME NEW p \in Known, NEW g, InStage(g[pc], RestartDir(p)) PROVE InStage(g[pc], RestartDir(p))'
  <2>1. PICK a : a = g[pc]
    OBVIOUS
  <2>2. InStage(a, RestartDir(p))'
    BY <1>3, <1>4, <2>1
  <2>3. g[pc'] = a
    BY <1>1, <2>1
  <2>4. QED
    BY <2>2, <2>3 DEF InStage
<1>5. QED
  BY <1>1, <1>4, NoticedStay

LEMMA WriterNoticed ==
  ASSUME HInv, Noticed, Writer
  PROVE  Noticed'
<1>1. /\ HTypes /\ Running /\ Current.op \in {"new_run_writer", "finalize"} /\ status = "running"
      /\ UNCHANGED <<stores, rows, counted, lost>>
  BY DEF HInv, Writer, Running
<1>2. Current.op = "finalize" => wlines' = wlines
  BY DEF Writer, Finalize, WriterStep, ClearPartial, RemoveStep, MakePartial, RemoveFinal, Rename,
               CreateFile, FillFile, Goto
<1>3. CASE Advance
  <2>1. KeepsStage
    BY <1>1, <1>2, <1>3, MainStage DEF KeepsStage, Advance
  <2>2. QED
    BY <1>1, <1>3, <2>1, AdvanceMoves, NoticedNext
<1>4. CASE UNCHANGED <<runs, flags, status, pc, defers, printed, prepared>>
  <2>1. ASSUME Harness, NEW p \in Known, NEW g, StageTrace(flags, p, Scripts[flags], g), InStage(g[pc], RestartDir(p))
        PROVE  InStage(g[pc], RestartDir(p))'
    <3>1. PICK c : c = Scripts[flags][pc] /\ MadeAt(RestartDir(p), c)
      BY <1>1, <2>1, StageNow
    <3>2. PICK a, b : a = g[pc] /\ b = g[pc + 1]
      OBVIOUS
    <3>3. <<a, c, b>> \in Staging(flags, p)
      BY <1>1, <2>1, <3>1, <3>2, CurrentCall DEF StageTrace
    <3>4. StageMove(flags, RestartDir(p), a, c, b)
      BY <3>3 DEF Staging
    <3>5. InStage(a, RestartDir(p))'
      BY <1>1, <1>2, <1>4, <2>1, <3>1, <3>2, <3>4, StayStage
    <3>6. g[pc'] = a
      BY <1>4, <3>2
    <3>7. QED
      BY <3>5, <3>6 DEF InStage
  <2>2. status \in Working
    BY <1>1 DEF Working
  <2>3. QED
    BY <1>4, <2>1, <2>2, NoticedStay
<1>5. QED
  BY <1>3, <1>4 DEF Writer

\* Every step: given that the lines of a failed check say so too.
LEMMA NextNoticed ==
  ASSUME StageScripts, HInv, Noticed, [Next]_vars, AppendResults => (Fails(rows) => Fails(wlines'))
  PROVE  Noticed'
<1>0. HTypes /\ GoodStores
  BY DEF HInv
<1>1. ASSUME status \in Working, Harness PROVE flags.memoirs \in Nat /\ flags.chunks \in Nat
  BY <1>0, <1>1, HarnessFlags
<1>2. CASE Do
  <2>1. (Running \/ Deferred) /\ Advance /\ status \in Working
    BY <1>0, <1>2, CurrentCall DEF Do
  <2>2. Harness => KeepsStage
    BY <1>1, <1>2, <2>1, DoStage DEF KeepsStage
  <2>3. QED
    BY <1>0, <2>1, <2>2, AdvanceMoves, NoticedNext
<1>3. CASE Fail \/ Crash \/ Panicked \/ Finish
  <2>1. CASE status' = "panicking"
    BY <2>1 DEF Noticed, Ends
  <2>2. QED
    BY <1>3, <2>1, NoticedEnd DEF Fail, Abort, Crash, Panicked, Finish, Ends
<1>4. CASE FailUnseen
  <2>1. (Running \/ Deferred) /\ Advance /\ status \in Working
    BY <1>0, <1>4, CurrentCall DEF FailUnseen
  <2>2. Harness => KeepsStage
    BY <1>1, <1>4, <2>1, FailUnseenStage DEF KeepsStage
  <2>3. QED
    BY <1>0, <2>1, <2>2, AdvanceMoves, NoticedNext
<1>5. CASE LoseRows
  <2>1. (Running \/ Deferred) /\ Advance /\ status \in Working
    BY <1>0, <1>5, CurrentCall DEF LoseRows
  <2>2. Harness => KeepsStage
    BY <1>1, <1>5, <2>1, LoseRowsStage DEF KeepsStage
  <2>3. QED
    BY <1>0, <2>1, <2>2, AdvanceMoves, NoticedNext
<1>6. CASE Row
  <2>1. Running /\ Advance /\ status \in Working
    BY <1>0, <1>6, CurrentCall DEF Row
  <2>2. Harness => KeepsStage
    BY <1>1, <1>6, <2>1, RowStage DEF KeepsStage
  <2>3. QED
    BY <1>0, <2>1, <2>2, AdvanceMoves, NoticedNext
<1>7. CASE CheckGate
  <2>1. CASE End("integrity")
    BY <2>1, NoticedEnd DEF Ends
  <2>2. CASE /\ ~(IF flags.root THEN HasIntegrityFailure ELSE hasIntegrityFail)
             /\ Advance /\ UNCHANGED <<stores, rows, counted, faults, lost, wvars>>
    <3>1. Running /\ Current.op = "gate" /\ UNCHANGED <<flags, wlines>>
      BY <1>7, <2>2 DEF CheckGate, Advance, wvars
    <3>2. KeepsStage
      BY <2>2, <3>1, MainStage DEF KeepsStage
    <3>3. QED
      BY <1>0, <2>2, <3>1, <3>2, AdvanceMoves, NoticedNext
  <2>3. QED
    BY <1>7, <2>1, <2>2 DEF CheckGate
<1>8. CASE printTable
  <2>1. Running /\ Current.op = "print_table" /\ UNCHANGED <<flags, stores, rows, counted, lost, wlines>>
    BY <1>8 DEF printTable, wvars
  <2>2. KeepsStage
    BY <2>1, MainStage DEF KeepsStage
  <2>3. QED
    BY <1>0, <1>8, <2>1, <2>2, PrintMoves, NoticedNext
<1>9. CASE AppendResults
  <2>1. /\ Running /\ Current.op = "append" /\ Advance
        /\ UNCHANGED <<flags, stores, rows, counted, lost>>
    BY <1>9 DEF AppendResults, Advance
  <2>2. KeepsStage
    BY <1>9, <2>1, MainStage DEF KeepsStage
  <2>3. QED
    BY <1>0, <2>1, <2>2, AdvanceMoves, NoticedNext
<1>10. CASE Writer
  BY <1>10, WriterNoticed
<1>11. CASE \E p \in DOMAIN stores : Background(p)
  BY <1>11, BackgroundNoticed
<1>12. CASE \E f \in Flags : Launch(f)
  BY <1>12, LaunchNoticed
<1>13. CASE UNCHANGED vars
  <2>1. UNCHANGED <<flags, status, pc, defers, rows, counted, lost, stores, wlines>>
    BY <1>13 DEF vars, hvars, wvars
  <2>2. ASSUME NEW a, NEW r, InStage(a, r) PROVE InStage(a, r)'
    <3>1. Store(r)' = Store(r)
      BY <2>1 DEF Store
    <3>2. QED
      BY <2>1, <2>2, <3>1, StageKept
  <2>3. CASE status \in Working
    BY <2>1, <2>2, <2>3, NoticedStay
  <2>4. CASE status \notin Working
    BY <2>1, <2>4 DEF Noticed, Working
  <2>5. QED
    BY <2>3, <2>4
<1>14. QED
  BY <1>2, <1>3, <1>4, <1>5, <1>6, <1>7, <1>8, <1>9, <1>10, <1>11, <1>12, <1>13 DEF Next, Works

\* Only one step ends a process well.
LEMMA OnlyFinishSucceeds ==
  ASSUME [Next]_vars
  PROVE  Finish \/ status' # "ok" \/ UNCHANGED <<status, flags, lost, final, life>>
<1>1. ASSUME status \in Working, UNCHANGED status PROVE status' # "ok"
  BY <1>1 DEF Working
<1>2. ASSUME Running \/ Deferred PROVE status \in Working
  BY <1>2 DEF Running, Deferred, Working
<1>3. CASE Do \/ FailUnseen \/ LoseRows \/ Row \/ AppendResults
  BY <1>1, <1>2, <1>3 DEF Do, FailUnseen, LoseRows, Row, AppendResults, Advance
<1>4. CASE Fail \/ Crash \/ Panicked \/ CheckGate
  BY <1>1, <1>2, <1>4 DEF Fail, Abort, Crash, Panicked, CheckGate, End, Advance
<1>5. CASE printTable \/ Writer
  <2>1. status \in Working /\ UNCHANGED status
    BY <1>2, <1>5 DEF printTable, Writer, Advance
  <2>2. QED
    BY <1>1, <2>1
<1>6. CASE UNCHANGED vars \/ \E p \in DOMAIN stores : Background(p)
  BY <1>6 DEF vars, hvars, wvars, Background
<1>7. CASE \E f \in Flags : Launch(f)
  BY <1>7 DEF Launch
<1>8. QED
  BY <1>3, <1>4, <1>5, <1>6, <1>7 DEF Next, Works

\* A process that ends well has lost no rows of a store it checked.
LEMMA NextNoSilentLoss ==
  ASSUME HInv, Noticed, NoSilentLoss, [Next]_vars
  PROVE  NoSilentLoss'
<1>1. CASE Finish
  <2>1. /\ status = "running" /\ pc = Len(Scripts[flags]) + 1 /\ UNCHANGED <<lost, flags>>
    BY <1>1 DEF Finish, End
  <2>2. ASSUME Harness, NEW p \in Known PROVE RestartDir(p) \notin lost
    <3>1. PICK g : StageTrace(flags, p, Scripts[flags], g) /\ InStage(g[pc], RestartDir(p))
      BY <2>1, <2>2 DEF Noticed
    <3>2. g[pc] \in {"before", "passed"}
      BY <2>1, <3>1 DEF StageTrace
    <3>3. QED
      BY <3>1, <3>2 DEF InStage
  <2>3. QED
    BY <2>1, <2>2 DEF NoSilentLoss, Harness
<1>2. QED
  BY <1>1, OnlyFinishSucceeds DEF NoSilentLoss, Harness

-----------------------------------------------------------------------------
(* The run writer.                                                         *)

\* What the present process has staged so far.  Finalize relies on it when it
\* removes the published directory and when it renames.
Staged ==
    /\ wpc = "make" => partial[wid] = Absent
    /\ wpc \in {"append"} \cup Files => partial[wid] # Absent
    /\ wpc = "results" => partial[wid]["manifest"] = Content
    /\ wpc = "legacy" => partial[wid]["manifest"] = Content /\ partial[wid]["results"] = Content
    /\ wpc \in {"remove", "rename"} => partial[wid] = [f \in Files |-> Content]

WInv == WTypeOK /\ Staged /\ FirstPublishAtomic

-----------------------------------------------------------------------------
\* A directory with the content of the present run in each file is whole.
LEMMA ContentIsWhole ==
    ASSUME WTypeOK, NEW dir, dir = [f \in Files |-> Content]
    PROVE  Whole(dir)
<1>1. Content \in Contents
  BY WriterAssumption, SMT DEF WTypeOK, Content, Contents
<1>2. dir \in Dirs /\ dir["manifest"] = Content /\ \A f \in Files : dir[f] = Content
  BY <1>1 DEF Dirs, Files
<1> QED
  BY <1>1, <1>2, WriterAssumption DEF Whole

\* A directory in which a file is missing or torn is not whole.
LEMMA UnfinishedIsNotWhole ==
    ASSUME NEW dir, NEW f \in Files, dir[f] \in {Absent, Torn}
    PROVE  ~Whole(dir)
  BY WriterAssumption DEF Whole, Files

\* The steps of RemoveAll in a map of directories.
LEMMA RemoveStepType ==
    ASSUME WTypeOK, wpc # "none",
           NEW dirs \in [RunIds -> {Absent} \cup Dirs], NEW dirsNext, NEW next,
           RemoveStep(dirs, dirsNext, next)
    PROVE  /\ dirsNext \in [RunIds -> {Absent} \cup Dirs]
           /\ \A id \in RunIds \ {wid} : dirsNext[id] = dirs[id]
           /\ UNCHANGED <<life, wid, wlines>>
           /\ wpc' = wpc \/ (wpc' = next /\ dirsNext[wid] = Absent)
           /\ dirs[wid] = Absent => dirsNext[wid] = Absent
<1>1. CASE \E f \in Files :
              /\ dirs[wid] # Absent /\ dirs[wid][f] # Absent
              /\ dirsNext = [dirs EXCEPT ![wid] = [@ EXCEPT ![f] = Absent]]
              /\ Goto(wpc)
  <2>1. PICK f \in Files :
              /\ dirs[wid] # Absent
              /\ dirsNext = [dirs EXCEPT ![wid] = [@ EXCEPT ![f] = Absent]]
              /\ Goto(wpc)
    BY <1>1, ZenonT(60)
  <2>2. wid \in RunIds /\ dirs[wid] \in Dirs
    BY <2>1 DEF WTypeOK
  <2>3. [dirs[wid] EXCEPT ![f] = Absent] \in Dirs
    BY <2>2 DEF Dirs
  <2> QED
    BY <2>1, <2>2, <2>3 DEF Goto
<1>2. CASE /\ dirs[wid] \in {Absent, Empty}
           /\ dirsNext = [dirs EXCEPT ![wid] = Absent]
           /\ Goto(next)
  BY <1>2 DEF Goto, WTypeOK
<1> QED
  BY <1>1, <1>2 DEF RemoveStep

-----------------------------------------------------------------------------
\* At the start.
LEMMA InitWInv == WInit => WInv
  BY WriterAssumption, SMT DEF WInit, WInv, WTypeOK, Staged, FirstPublishAtomic, Files

\* Every step of the writer keeps WInv.
LEMMA NextWInv == WInv /\ [WNext]_wvars => WInv'
<1> SUFFICES ASSUME WInv, [WNext]_wvars PROVE WInv'
  OBVIOUS
<1> USE DEF WInv
<1>1. CASE \E id \in RunIds : NewRunWriter(id)
  BY <1>1, WriterAssumption, SMT DEF NewRunWriter, WTypeOK, Staged, FirstPublishAtomic, Files
<1>2. CASE wlines' \in Seq(Lines) /\ AppendPhaseResults(SubSeq(wlines', Len(wlines) + 1, Len(wlines')))
  BY <1>2 DEF AppendPhaseResults, WTypeOK, Staged, FirstPublishAtomic, Files
<1>3. CASE Finalize
  BY <1>3 DEF Finalize, Goto, WTypeOK, Staged, FirstPublishAtomic, Files
<1>4. CASE Stop
  BY <1>4 DEF Stop, Goto, WTypeOK, Staged, FirstPublishAtomic, Files
<1>5. CASE ClearPartial
  <2>1. /\ partial' \in [RunIds -> {Absent} \cup Dirs]
        /\ UNCHANGED <<life, wid, wlines>>
        /\ wpc' = wpc \/ (wpc' = "make" /\ partial'[wid] = Absent)
    BY <1>5, RemoveStepType DEF ClearPartial, WTypeOK
  <2>2. WTypeOK'
    BY <1>5, <2>1 DEF ClearPartial, WTypeOK
  <2>3. Staged'
    BY <1>5, <2>1 DEF ClearPartial, Staged, Files
  <2> QED
    BY <1>5, <2>2, <2>3 DEF ClearPartial, FirstPublishAtomic
<1>6. CASE MakePartial
  <2>1. Empty \in Dirs
    BY DEF Empty, Dirs
  <2>2. wid \in RunIds /\ partial' = [partial EXCEPT ![wid] = Empty] /\ wpc' = "append"
        /\ UNCHANGED <<final, life, wid, wlines, replaced>>
    BY <1>6 DEF MakePartial, Goto, WTypeOK
  <2>3. WTypeOK'
    BY <2>1, <2>2 DEF WTypeOK
  <2>4. Staged'
    BY <2>1, <2>2, WriterAssumption DEF Staged, WTypeOK, Files
  <2> QED
    BY <2>2, <2>3, <2>4 DEF FirstPublishAtomic
<1>7. ASSUME NEW f \in Files, CreateFile(f) \/ FillFile(f)
      PROVE  WInv'
  <2>1. wid \in RunIds /\ partial[wid] \in Dirs
    BY <1>7 DEF CreateFile, FillFile, WTypeOK, Staged, Files
  <2>2. Content \in Contents
    BY WriterAssumption, SMT DEF WTypeOK, Content, Contents
  <2>3. PICK c \in {Torn, Content} :
              /\ partial' = [partial EXCEPT ![wid] = [@ EXCEPT ![f] = c]]
              /\ (c = Torn /\ wpc' = f) \/ (c = Content /\ wpc' = NextFile(f))
    BY <1>7 DEF CreateFile, FillFile, Goto
  <2>4. wpc = f /\ UNCHANGED <<final, life, wid, wlines, replaced>>
    BY <1>7 DEF CreateFile, FillFile, Goto
  <2>5. [partial[wid] EXCEPT ![f] = c] \in Dirs /\ partial'[wid] = [partial[wid] EXCEPT ![f] = c]
    BY <2>1, <2>2, <2>3 DEF Dirs, WTypeOK
  <2>6. WTypeOK'
    BY <2>1, <2>3, <2>4, <2>5 DEF WTypeOK, NextFile, Files
  <2>7. Content' = Content
    BY <2>4 DEF Content
  <2>8. Staged'
    <3>1. CASE wpc' = f
      BY <3>1, <2>1, <2>4, <2>5, <2>7, WriterAssumption DEF Staged, Files, Dirs
    <3>2. CASE c = Content /\ wpc' = NextFile(f)
      <4>1. CASE f = "manifest"
        BY <4>1, <3>2, <2>1, <2>4, <2>5, <2>7, WriterAssumption DEF Staged, Files, Dirs, NextFile
      <4>2. CASE f = "results"
        BY <4>2, <3>2, <2>1, <2>4, <2>5, <2>7, WriterAssumption DEF Staged, Files, Dirs, NextFile
      <4>3. CASE f = "legacy"
        <5>1. partial[wid]["manifest"] = Content /\ partial[wid]["results"] = Content
          BY <4>3, <2>4 DEF Staged
        <5>2. partial'[wid] = [g \in Files |-> Content]
          BY <4>3, <5>1, <3>2, <2>1, <2>5 DEF Files, Dirs
        <5> QED
          BY <4>3, <5>2, <3>2, <2>4, <2>7 DEF Staged, NextFile, Files
      <4> QED
        BY <4>1, <4>2, <4>3 DEF Files
    <3> QED
      BY <2>3, <3>1, <3>2
  <2> QED
    BY <2>4, <2>6, <2>8 DEF FirstPublishAtomic
<1>8. CASE RemoveFinal
  <2>1. wid \in RunIds /\ wpc = "remove" /\ partial' = partial
        /\ replaced' = IF final[wid] = Absent THEN replaced ELSE replaced \cup {wid}
    BY <1>8 DEF RemoveFinal, WTypeOK
  <2>2. /\ final' \in [RunIds -> {Absent} \cup Dirs]
        /\ \A id \in RunIds \ {wid} : final'[id] = final[id]
        /\ UNCHANGED <<life, wid, wlines>> /\ wpc' \in {"remove", "rename"}
        /\ final[wid] = Absent => final'[wid] = Absent
    <3>1. CASE RemoveStep(final, final', "rename")
      BY <3>1, <2>1, RemoveStepType DEF WTypeOK
    <3>2. CASE Goto("rename") /\ UNCHANGED final
      BY <3>2, <2>1 DEF WTypeOK, Goto
    <3> QED
      BY <1>8, <3>1, <3>2 DEF RemoveFinal
  <2>3. WTypeOK'
    BY <2>1, <2>2 DEF WTypeOK
  <2>4. Staged'
    BY <2>1, <2>2 DEF Staged, Content, Files
  <2>5. FirstPublishAtomic'
    BY <2>1, <2>2 DEF FirstPublishAtomic
  <2> QED
    BY <2>3, <2>4, <2>5
<1>9. CASE Rename
  <2>1. /\ wid \in RunIds /\ wpc' = "done" /\ UNCHANGED <<life, wid, wlines, replaced>>
        /\ final' = [final EXCEPT ![wid] = partial[wid]]
        /\ partial' = [partial EXCEPT ![wid] = Absent]
    BY <1>9 DEF Rename, Goto, WTypeOK
  <2>2. Whole(partial[wid])
    BY <1>9, ContentIsWhole DEF Rename, Staged
  <2>3. WTypeOK'
    BY <2>1 DEF WTypeOK
  <2>4. Staged'
    BY <2>1 DEF Staged, Files
  <2>5. FirstPublishAtomic'
    BY <2>1, <2>2 DEF FirstPublishAtomic, WTypeOK
  <2> QED
    BY <2>3, <2>4, <2>5
<1>10. CASE UNCHANGED wvars
  BY <1>10 DEF wvars, WTypeOK, Staged, FirstPublishAtomic, Content
<1> QED
  BY <1>1, <1>2, <1>3, <1>4, <1>5, <1>6, <1>7, <1>8, <1>9, <1>10 DEF WNext, WriterStep

-----------------------------------------------------------------------------
\* The steps that change a directory leave a whole copy, if there was one.
LEMMA StepKeepsCopy ==
    ASSUME WInv, WNext, NEW id \in RunIds, HasCopy(id), ~(wpc = "clear" /\ wid = id)
    PROVE  HasCopy(id)'
<1> USE DEF WInv
<1>1. CASE partial'[id] = partial[id] /\ final'[id] = final[id]
  BY <1>1 DEF HasCopy, Whole
<1>2. CASE ClearPartial
  BY <1>1, <1>2, RemoveStepType, SMT DEF ClearPartial, WTypeOK
<1>3. CASE MakePartial
  <2>1. wid \in RunIds /\ partial' = [partial EXCEPT ![wid] = Empty] /\ final' = final
        /\ partial[wid] = Absent
    BY <1>3 DEF MakePartial, WTypeOK, Staged
  <2> QED
    BY <2>1 DEF HasCopy, Whole, WTypeOK
<1>4. ASSUME NEW f \in Files, CreateFile(f) \/ FillFile(f) PROVE HasCopy(id)'
  <2>1. wid \in RunIds /\ partial[wid][f] \in {Absent, Torn} /\ final' = final
        /\ \A i \in RunIds \ {wid} : partial'[i] = partial[i]
    BY <1>4 DEF CreateFile, FillFile, WTypeOK, Files
  <2>2. ~Whole(partial[wid])
    BY <2>1, UnfinishedIsNotWhole
  <2> QED
    BY <1>1, <2>1, <2>2 DEF HasCopy, Whole
<1>5. CASE RemoveFinal
  <2>1. /\ wid \in RunIds /\ wpc = "remove" /\ partial' = partial
        /\ \A i \in RunIds \ {wid} : final'[i] = final[i]
    BY <1>5, RemoveStepType DEF RemoveFinal, WTypeOK
  <2>2. Whole(partial[wid])
    BY <2>1, ContentIsWhole DEF Staged
  <2> QED
    BY <1>1, <2>1, <2>2 DEF HasCopy, Whole
<1>6. CASE Rename
  <2>1. /\ wid \in RunIds /\ final' = [final EXCEPT ![wid] = partial[wid]]
        /\ partial' = [partial EXCEPT ![wid] = Absent]
    BY <1>6 DEF Rename, WTypeOK
  <2>2. Whole(partial[wid])
    BY <1>6, ContentIsWhole DEF Rename, Staged
  <2> QED
    BY <1>1, <2>1, <2>2 DEF HasCopy, Whole, WTypeOK
<1> QED
  BY <1>1, <1>2, <1>3, <1>4, <1>5, <1>6
     DEF WNext, WriterStep, NewRunWriter, AppendPhaseResults, Finalize, Stop

-----------------------------------------------------------------------------
(* The lines of a run.                                                     *)

\* Induction over the rows, which the lines are made by.
Inductive ==
    \A n \in Nat : \A T :
        0 \in T /\ (\A m \in 1 .. n : m - 1 \in T => m \in T) => \A m \in 0 .. n : m \in T

LEMMA ShortSeq ==
  ASSUME NEW S, NEW a \in S, NEW b \in S
  PROVE  <<a>> \in Seq(S) /\ <<a, b>> \in Seq(S)
  BY SMT

\* A row is one line or two.
LEMMA LongType ==
  ASSUME NEW r \in RowSet
  PROVE  phaseResultToLong(r) \in Seq(Lines)
<1>1. "duration_ms" \in Names /\ "ops_per_s" \in Names
  BY HarnessAssumption DEF Metrics
<1>2. r.profile \in Names /\ r.phase \in Names /\ (r.metric # "" => r.metric \in Names) /\ r.value \in Nat
  BY HarnessAssumption DEF RowSet
<1> DEFINE line(metric, value) == [engine |-> r.profile, phase |-> r.phase, metric |-> metric,
                                   value |-> value]
<1>3. /\ line("duration_ms", 0) \in Lines /\ line("ops_per_s", 0) \in Lines
      /\ r.metric # "" => line(r.metric, r.value) \in Lines
  BY <1>1, <1>2 DEF Lines
<1>4. phaseResultToLong(r) = IF r.metric # "" THEN <<line(r.metric, r.value)>>
                             ELSE <<line("duration_ms", 0), line("ops_per_s", 0)>>
  BY DEF phaseResultToLong
<1> HIDE DEF line
<1>5. CASE r.metric # ""
  BY <1>3, <1>4, <1>5, ShortSeq
<1>6. CASE r.metric = ""
  BY <1>3, <1>4, <1>6, ShortSeq
<1>7. QED
  BY <1>5, <1>6

\* The recursion is over the rows, and each adds lines.
LEMMA LongLinesAre ==
  ASSUME Inductive, rows \in Seq(RowSet)
  PROVE  /\ longLines[0] = <<>>
         /\ \A m \in 1 .. Len(rows) : longLines[m] = longLines[m - 1] \o phaseResultToLong(rows[m])
         /\ \A m \in 0 .. Len(rows) : longLines[m] \in Seq(Lines)
<1> DEFINE n == Len(rows)
           L == Seq(Lines)
           Step(g, i) == IF i = 0 THEN <<>> ELSE g[i - 1] \o phaseResultToLong(rows[i])
           P(m) == \E g \in [0 .. m -> L] : \A i \in 0 .. m : g[i] = Step(g, i)
           T == {m \in 0 .. n : P(m)}
<1>0. n \in Nat /\ \A i \in 1 .. n : phaseResultToLong(rows[i]) \in L
  BY LongType, SMT
<1>00. <<>> \in L /\ \A a, b \in L : a \o b \in L
  BY SMT
<1> HIDE DEF L, n
<1>1. 0 \in T
  <2> DEFINE g == [i \in 0 .. 0 |-> <<>>]
  <2>1. g \in [0 .. 0 -> L] /\ \A i \in 0 .. 0 : g[i] = Step(g, i)
    BY <1>00, SMT
  <2>2. P(0)
    BY <2>1, ZenonT(60)
  <2>3. QED
    BY <2>2, <1>0, SMT
<1>2. ASSUME NEW m \in 1 .. n, m - 1 \in T PROVE m \in T
  <2>0. P(m - 1) /\ m - 1 \in 0 .. n /\ m \in 0 .. n /\ m \in Nat
    BY <1>2, <1>0, SMT
  <2>1. PICK h \in [0 .. m - 1 -> L] : \A i \in 0 .. m - 1 : h[i] = Step(h, i)
    BY <2>0
  <2> DEFINE g == [i \in 0 .. m |-> IF i = m THEN h[m - 1] \o phaseResultToLong(rows[m]) ELSE h[i]]
  <2>2. g \in [0 .. m -> L]
    <3>1. h[m - 1] \in L /\ h[m - 1] \o phaseResultToLong(rows[m]) \in L
      BY <1>0, <1>00, <2>0, SMT
    <3>2. \A i \in 0 .. m : i # m => h[i] \in L
      BY <2>0, SMT
    <3>3. QED
      BY <3>1, <3>2
  <2>3. ASSUME NEW i \in 0 .. m PROVE g[i] = Step(g, i)
    <3>1. CASE i = m
      <4>1. m # 0 /\ m - 1 \in 0 .. m /\ m - 1 # m /\ m \in 0 .. m
        BY <2>0, SMT
      <4>2. g[m - 1] = h[m - 1] /\ g[m] = h[m - 1] \o phaseResultToLong(rows[m])
        BY <4>1
      <4>3. QED
        BY <3>1, <4>1, <4>2
    <3>2. CASE i # m
      <4>1. i \in 0 .. m - 1 /\ (i # 0 => i - 1 \in 0 .. m - 1)
        BY <3>2, <2>0, SMT
      <4>2. h[i] = Step(h, i)
        BY <4>1, <2>1
      <4>3. g[i] = h[i] /\ (i # 0 => g[i - 1] = h[i - 1])
        BY <3>2, <4>1, SMT
      <4>4. QED
        BY <4>2, <4>3
    <3>3. QED
      BY <3>1, <3>2
  <2>4. P(m)
    <3> HIDE DEF g
    <3>1. QED
      BY <2>2, <2>3
  <2>5. QED
    BY <2>0, <2>4, ZenonT(60)
<1>3. PICK g \in [0 .. n -> L] : \A i \in 0 .. n : g[i] = Step(g, i)
  <2>1. n \in T
    <3> HIDE DEF T
    <3>1. \A m \in 0 .. n : m \in T
      BY <1>0, <1>1, <1>2, ZenonT(60) DEF Inductive
    <3>2. QED
      BY <1>0, <3>1, SMT
  <2>2. QED
    BY <2>1
<1> HIDE DEF P, T
<1>4. g = [i \in 0 .. n |-> Step(g, i)]
  BY <1>3, ZenonT(60)
<1> DEFINE f == CHOOSE h : h = [i \in 0 .. n |-> Step(h, i)]
<1>5. f = [i \in 0 .. n |-> Step(f, i)]
  BY <1>4
<1>6. longLines = f
  BY DEF longLines, n
<1> HIDE DEF f
<1>7. \A i \in 0 .. n : f[i] = Step(f, i)
  <2> HIDE DEF Step
  <2>1. QED
    BY <1>5, ZenonT(60)
<1> DEFINE E == {i \in 0 .. n : f[i] \in L}
<1>8. 0 \in E
  BY <1>0, <1>00, <1>7, SMT
<1>9. ASSUME NEW m \in 1 .. n, m - 1 \in E PROVE m \in E
  <2>1. m # 0 /\ m \in 0 .. n /\ f[m] = Step(f, m)
    BY <1>7, <1>0, SMT
  <2>2. f[m] = f[m - 1] \o phaseResultToLong(rows[m]) /\ f[m - 1] \in L
    BY <1>9, <2>1, ZenonT(60)
  <2>3. f[m] \in L
    BY <1>0, <1>00, <2>2
  <2>4. QED
    BY <2>1, <2>3, ZenonT(60)
<1>10. \A m \in 0 .. n : m \in E
  <2> HIDE DEF E
  <2>1. QED
    BY <1>0, <1>8, <1>9, ZenonT(60) DEF Inductive
<1>11. f[0] = <<>> /\ \A m \in 1 .. n : f[m] = f[m - 1] \o phaseResultToLong(rows[m])
  <2>1. 0 \in 0 .. n /\ \A m \in 1 .. n : m \in 0 .. n /\ m # 0
    BY <1>0, SMT
  <2>2. QED
    BY <1>7, <2>1, ZenonT(60)
<1>12. QED
  BY <1>6, <1>10, <1>11 DEF n, L

LEMMA LongLinesType ==
  ASSUME Inductive, rows \in Seq(RowSet)
  PROVE  longLines[Len(rows)] \in Seq(Lines)
<1>1. Len(rows) \in 0 .. Len(rows)
  BY SMT
<1>2. QED
  BY <1>1, LongLinesAre

\* What is in a concatenation.
Parts(a, b) ==
    /\ \A k \in DOMAIN a : k \in DOMAIN (a \o b) /\ (a \o b)[k] = a[k]
    /\ \A y \in DOMAIN b : Len(a) + y \in DOMAIN (a \o b) /\ (a \o b)[Len(a) + y] = b[y]
    /\ \A k \in DOMAIN (a \o b) : k \in DOMAIN a \/ \E y \in DOMAIN b : k = Len(a) + y

LEMMA ConcatParts ==
  ASSUME NEW S, NEW a \in Seq(S), NEW b \in Seq(S)
  PROVE  Parts(a, b)
<1>1. /\ Len(a) \in Nat /\ Len(b) \in Nat /\ DOMAIN a = 1 .. Len(a) /\ DOMAIN b = 1 .. Len(b)
      /\ DOMAIN (a \o b) = 1 .. Len(a) + Len(b)
  BY SMT
<1>2. \A k \in 1 .. Len(a) + Len(b) : (a \o b)[k] = IF k <= Len(a) THEN a[k] ELSE b[k - Len(a)]
  BY SMT
<1>3. ASSUME NEW k \in DOMAIN a PROVE k \in DOMAIN (a \o b) /\ (a \o b)[k] = a[k]
  BY <1>1, <1>2, SMT
<1>4. ASSUME NEW y \in DOMAIN b PROVE Len(a) + y \in DOMAIN (a \o b) /\ (a \o b)[Len(a) + y] = b[y]
  <2>1. Len(a) + y \in 1 .. Len(a) + Len(b) /\ ~(Len(a) + y <= Len(a)) /\ (Len(a) + y) - Len(a) = y
    BY <1>1, SMT
  <2>2. QED
    BY <1>1, <1>2, <2>1
<1>5. ASSUME NEW k \in DOMAIN (a \o b) PROVE k \in DOMAIN a \/ \E y \in DOMAIN b : k = Len(a) + y
  <2>1. k \in DOMAIN a \/ (k - Len(a) \in DOMAIN b /\ k = Len(a) + (k - Len(a)))
    BY <1>1, SMT
  <2>2. QED
    BY <2>1
<1>6. QED
  BY <1>3, <1>4, <1>5 DEF Parts

\* The lines are those of the rows.
LinesOf(n, lines) ==
    /\ \A i \in 1 .. n : \A x \in DOMAIN phaseResultToLong(rows[i]) :
          \E k \in DOMAIN lines : lines[k] = phaseResultToLong(rows[i])[x]
    /\ \A k \in DOMAIN lines : \E i \in 1 .. n : \E x \in DOMAIN phaseResultToLong(rows[i]) :
          lines[k] = phaseResultToLong(rows[i])[x]

LEMMA LinesOfFirst ==
  ASSUME Inductive, rows \in Seq(RowSet), NEW n \in 0 .. Len(rows)
  PROVE  LinesOf(n, longLines[n])
<1> DEFINE long(i) == phaseResultToLong(rows[i])
           All(m) == \A i \in 1 .. m : \A x \in DOMAIN long(i) :
                        \E k \in DOMAIN longLines[m] : longLines[m][k] = long(i)[x]
           Only(m) == \A k \in DOMAIN longLines[m] : \E i \in 1 .. m : \E x \in DOMAIN long(i) :
                         longLines[m][k] = long(i)[x]
           T == {m \in 0 .. n : All(m) /\ Only(m)}
<1>1. n \in Nat /\ \A i \in 1 .. n : i \in 1 .. Len(rows) /\ long(i) \in Seq(Lines)
  BY LongType, SMT
<1>2. 0 \in T
  <2>1. DOMAIN longLines[0] = {} /\ 1 .. 0 = {} /\ 0 \in 0 .. n
    <3>1. longLines[0] = <<>>
      BY LongLinesAre
    <3>2. QED
      BY <1>1, <3>1, SMT
  <2>2. QED
    BY <2>1
<1>3. ASSUME NEW m \in 1 .. n, m - 1 \in T PROVE m \in T
  <2>1. /\ m - 1 \in 0 .. n /\ m \in 0 .. n /\ m \in 1 .. m /\ 1 .. m - 1 \subseteq 1 .. m
        /\ \A i \in 1 .. m : i \in 1 .. m - 1 \/ i = m
        /\ m \in 1 .. Len(rows) /\ m - 1 \in 0 .. Len(rows)
    BY <1>1, SMT
  <2>2. PICK a, b : a = longLines[m - 1] /\ b = long(m)
    OBVIOUS
  <2>3. longLines[m] = a \o b /\ a \in Seq(Lines) /\ b \in Seq(Lines)
    BY <1>1, <2>1, <2>2, LongLinesAre
  <2>4. Parts(a, b)
    BY <2>3, ConcatParts
  <2>5. All(m - 1) /\ Only(m - 1)
    BY <1>3
  <2> HIDE DEF long
  <2>6. All(m)
    <3> SUFFICES ASSUME NEW i \in 1 .. m, NEW x \in DOMAIN long(i)
                 PROVE  \E k \in DOMAIN (a \o b) : (a \o b)[k] = long(i)[x]
      BY <2>3
    <3>1. CASE i \in 1 .. m - 1
      <4>1. PICK k \in DOMAIN a : a[k] = long(i)[x]
        BY <2>2, <2>5, <3>1
      <4>2. QED
        BY <2>4, <4>1 DEF Parts
    <3>2. CASE i = m
      BY <2>2, <2>4, <3>2 DEF Parts
    <3>3. QED
      BY <2>1, <3>1, <3>2
  <2>7. Only(m)
    <3> SUFFICES ASSUME NEW k \in DOMAIN (a \o b)
                 PROVE  \E i \in 1 .. m : \E x \in DOMAIN long(i) : (a \o b)[k] = long(i)[x]
      BY <2>3
    <3>1. CASE k \in DOMAIN a
      <4>1. PICK i \in 1 .. m - 1 : \E x \in DOMAIN long(i) : a[k] = long(i)[x]
        BY <2>2, <2>5, <3>1
      <4>2. QED
        BY <2>1, <2>4, <3>1, <4>1 DEF Parts
    <3>2. CASE \E y \in DOMAIN b : k = Len(a) + y
      <4>1. PICK y \in DOMAIN b : k = Len(a) + y
        BY <3>2
      <4>2. (a \o b)[k] = long(m)[y] /\ y \in DOMAIN long(m)
        BY <2>2, <2>4, <4>1 DEF Parts
      <4>3. QED
        BY <2>1, <4>2
    <3>3. QED
      BY <2>4, <3>1, <3>2 DEF Parts
  <2>8. QED
    BY <2>1, <2>6, <2>7, ZenonT(60)
<1>4. n \in T
  <2> HIDE DEF T
  <2>1. \A m \in 0 .. n : m \in T
    BY <1>1, <1>2, <1>3, ZenonT(60) DEF Inductive
  <2>2. QED
    BY <1>1, <2>1, SMT
<1>5. QED
  BY <1>4 DEF LinesOf

\* A failed check is in the lines too.
LEMMA LinesFail ==
  ASSUME Inductive, rows \in Seq(RowSet), NEW s \in Seq(Lines), Fails(rows)
  PROVE  Fails(s \o longLines[Len(rows)])
<1> DEFINE l == longLines[Len(rows)]
<1>1. PICK i \in DOMAIN rows : /\ rows[i].phase = "post_restart_row_count" /\ rows[i].metric = "integrity_ok"
                               /\ rows[i].value = 0
  BY DEF Fails
<1> DEFINE line == [engine |-> rows[i].profile, phase |-> rows[i].phase, metric |-> rows[i].metric,
                    value |-> rows[i].value]
<1>2. phaseResultToLong(rows[i]) = <<line>> /\ i \in 1 .. Len(rows)
  <2>1. rows[i].metric # ""
    BY <1>1
  <2>2. phaseResultToLong(rows[i]) = <<line>>
    BY <2>1 DEF phaseResultToLong
  <2>3. i \in 1 .. Len(rows)
    BY SMT
  <2>4. QED
    BY <2>2, <2>3
<1>3. line.phase = "post_restart_row_count" /\ line.metric = "integrity_ok" /\ line.value = 0
  BY <1>1
<1> HIDE DEF line
<1>4. 1 \in DOMAIN <<line>> /\ <<line>>[1] = line
  BY SMT
<1>5. PICK k \in DOMAIN l : l[k] = line
  <2>1. Len(rows) \in 0 .. Len(rows)
    BY SMT
  <2>2. LinesOf(Len(rows), l)
    BY <2>1, LinesOfFirst
  <2>3. 1 \in DOMAIN phaseResultToLong(rows[i]) /\ phaseResultToLong(rows[i])[1] = line
    BY <1>2, <1>4
  <2>4. \E k \in DOMAIN l : l[k] = phaseResultToLong(rows[i])[1]
    BY <1>2, <2>2, <2>3 DEF LinesOf
  <2>5. QED
    BY <2>3, <2>4
<1>6. l \in Seq(Lines)
  BY LongLinesType
<1> HIDE DEF l
<1>7. Parts(s, l)
  BY <1>6, ConcatParts
<1>8. Fails(s \o l)
  BY <1>3, <1>5, <1>7 DEF Fails, Parts
<1>9. QED
  BY <1>8 DEF l

-----------------------------------------------------------------------------
(* Steps of the writer.                                                    *)

LEMMA AppendNext ==
  ASSUME Inductive, HInv, WInv, AppendResults
  PROVE  WNext
<1>1. HTypes /\ AppendPhaseResults(longLines[Len(rows)])
  BY DEF HInv, AppendResults
<1>3. longLines[Len(rows)] \in Seq(Lines) /\ wlines \in Seq(Lines)
  BY <1>1, LongLinesType DEF HTypes, WInv, WTypeOK
<1>4. /\ wlines' \in Seq(Lines)
      /\ SubSeq(wlines', Len(wlines) + 1, Len(wlines')) = longLines[Len(rows)]
  <2> DEFINE l == longLines[Len(rows)]
  <2>1. wlines' = wlines \o l
    BY <1>1 DEF AppendPhaseResults
  <2> HIDE DEF l
  <2>2. l \in Seq(Lines)
    BY <1>3 DEF l
  <2>3. wlines \o l \in Seq(Lines) /\ Len(wlines \o l) = Len(wlines) + Len(l)
    BY <1>3, <2>2, SMT
  <2>4. SubSeq(wlines \o l, Len(wlines) + 1, Len(wlines) + Len(l)) = l
    BY <1>3, <2>2, SMT
  <2>5. QED
    BY <2>1, <2>3, <2>4 DEF l
<1>5. QED
  BY <1>1, <1>4, ZenonT(60) DEF WNext

LEMMA InitWriter == Init => WInit /\ WInv
  BY InitWInv DEF Init

\* Every step is a step of the run writer or none.
LEMMA NextWriter ==
  ASSUME Inductive, HInv, WInv, [Next]_vars
  PROVE  WInv' /\ [WNext]_wvars
<1> SUFFICES [WNext]_wvars
  BY NextWInv
<1>1. CASE Do
  BY <1>1 DEF Do
<1>2. CASE Fail \/ Crash \/ Panicked \/ Finish
  BY <1>2, FailInv DEF WNext
<1>3. CASE FailUnseen
  BY <1>3 DEF FailUnseen
<1>4. CASE LoseRows
  BY <1>4 DEF LoseRows
<1>5. CASE Row
  BY <1>5 DEF Row
<1>6. CASE CheckGate
  BY <1>6, GateInv DEF WNext
<1>7. CASE printTable
  BY <1>7, ZenonT(60) DEF printTable
<1>8. CASE AppendResults
  BY <1>8, AppendNext
<1>9. CASE Writer
  BY <1>9, WriterInv
<1>10. CASE \E p \in DOMAIN stores : Background(p)
  BY <1>10 DEF Background
<1>11. CASE \E f \in Flags : Launch(f)
  BY <1>11 DEF Launch
<1>12. CASE UNCHANGED vars
  BY <1>12 DEF vars
<1>13. QED
  BY <1>1, <1>2, <1>3, <1>4, <1>5, <1>6, <1>7, <1>8, <1>9, <1>10, <1>11, <1>12 DEF Next, Works

-----------------------------------------------------------------------------
(* Lost rows.                                                              *)

LEMMA NextLoss ==
  ASSUME StageScripts, Inductive, HInv, WInv, Noticed, NoSilentLoss, [Next]_vars
  PROVE  Noticed' /\ NoSilentLoss'
<1>1. ASSUME AppendResults, Fails(rows) PROVE Fails(wlines')
  <2>1. wlines' = wlines \o longLines[Len(rows)]
    BY <1>1 DEF AppendResults, AppendPhaseResults
  <2>2. rows \in Seq(RowSet) /\ wlines \in Seq(Lines)
    BY DEF HInv, HTypes, WInv, WTypeOK
  <2>3. QED
    BY <1>1, <2>1, <2>2, LinesFail
<1>2. QED
  BY <1>1, NextNoticed, NextNoSilentLoss

-----------------------------------------------------------------------------
(* What a run publishes.                                                   *)

\* The rows of the profile p so far: no two of one rank, none above n, and
\* some if n is not 0.
InRank(n, p) ==
    /\ n \in Nat /\ (n # 0 => \E i \in DOMAIN rows : rows[i].profile = p)
    /\ \A i \in DOMAIN rows : rows[i].profile = p => 0 < Rank(rows[i]) /\ Rank(rows[i]) <= n
    /\ \A i, j \in DOMAIN rows :
          rows[i].profile = p /\ rows[j].profile = p /\ Rank(rows[i]) = Rank(rows[j]) => i = j

RankTrace(f, p, s, g) ==
    /\ g[1] = 0 /\ g[Len(s) + 1] = (IF p \in Wanted(f) THEN LastRank(p) ELSE 0)
    /\ \A i \in 1 .. Len(s) : <<g[i], s[i], g[i + 1]>> \in Ranks(p)

Ranked ==
    status = "running" /\ Harness =>
        \A p \in Known : \E g : RankTrace(flags, p, Scripts[flags], g) /\ InRank(g[pc], p)

\* Lines for the profiles of the rows, and no two for the same thing.
Same(k, l) == k.engine = l.engine /\ k.phase = l.phase /\ k.metric = l.metric
Covers(lines, rs) ==
    /\ {lines[i].engine : i \in DOMAIN lines} = {rs[i].profile : i \in DOMAIN rs}
    /\ \A i, j \in DOMAIN lines : Same(lines[i], lines[j]) => i = j

InPublish(a) ==
    /\ a \in Publications
    /\ a = "none" => wpc \in {"none", "clear", "make"} /\ (wpc # "none" => wid = flags.id /\ wlines = <<>>)
    /\ a = "open" => wpc = "append" /\ wid = flags.id /\ wlines = <<>>
    /\ a = "appended" =>
          wpc \in {"append", "remove", "rename"} \cup Files /\ wid = flags.id /\ Covers(wlines, rows)
    /\ a = "published" =>
          /\ wpc = "done" /\ wid = flags.id /\ Covers(wlines, rows)
          /\ Whole(final[wid]) /\ final[wid].results = Content

PublishTrace(f, s, g) ==
    /\ g[1] = "none" /\ g[Len(s) + 1] = (IF f.root THEN "published" ELSE "none")
    /\ \A i \in 1 .. Len(s) : <<g[i], s[i], g[i + 1]>> \in Publishing(f)

Publishes ==
    status = "running" /\ Harness =>
        \E g : PublishTrace(flags, Scripts[flags], g) /\ InPublish(g[pc])

\* What a step past the call c has to keep to.
KeepsRank(c) == \A p \in Known : \A a, b : <<a, c, b>> \in Ranks(p) /\ InRank(a, p) => InRank(b, p)'
KeepsPublish(c) == \A a, b : <<a, c, b>> \in Publishing(flags) /\ InPublish(a) => InPublish(b)'

LEMMA RankedNext ==
  ASSUME HTypes, Ranked, Running \/ Deferred, Moves, NEW c, c = Scripts[flags][pc],
         status = "running" /\ Harness => KeepsRank(c)
  PROVE  Ranked'
<1>1. UNCHANGED <<flags, status>> /\ (Harness' <=> Harness)
  BY DEF Moves, Harness
<1>2. SUFFICES ASSUME status = "running", Harness, NEW p \in Known
               PROVE  \E g : RankTrace(flags', p, Scripts[flags'], g) /\ InRank(g[pc], p)'
  BY <1>1 DEF Ranked
<1>3. Running /\ pc' = pc + 1
  BY <1>2 DEF Moves, Running, Deferred
<1>4. PICK g : RankTrace(flags, p, Scripts[flags], g) /\ InRank(g[pc], p)
  BY <1>2 DEF Ranked
<1>5. PICK a, b : a = g[pc] /\ b = g[pc + 1]
  OBVIOUS
<1>6. <<a, c, b>> \in Ranks(p) /\ InRank(a, p)
  BY <1>3, <1>4, <1>5, CurrentCall DEF RankTrace
<1>7. InRank(b, p)' /\ b = g[pc']
  BY <1>2, <1>3, <1>5, <1>6 DEF KeepsRank
<1>8. InRank(g[pc], p)'
  BY <1>7 DEF InRank
<1>9. QED
  BY <1>1, <1>4, <1>8

LEMMA PublishesNext ==
  ASSUME HTypes, Publishes, Running \/ Deferred, Moves, NEW c, c = Scripts[flags][pc],
         status = "running" /\ Harness => KeepsPublish(c)
  PROVE  Publishes'
<1>1. UNCHANGED <<flags, status>> /\ (Harness' <=> Harness)
  BY DEF Moves, Harness
<1>2. SUFFICES ASSUME status = "running", Harness
               PROVE  \E g : PublishTrace(flags', Scripts[flags'], g) /\ InPublish(g[pc])'
  BY <1>1 DEF Publishes
<1>3. Running /\ pc' = pc + 1
  BY <1>2 DEF Moves, Running, Deferred
<1>4. PICK g : PublishTrace(flags, Scripts[flags], g) /\ InPublish(g[pc])
  BY <1>2 DEF Publishes
<1>5. PICK a, b : a = g[pc] /\ b = g[pc + 1]
  OBVIOUS
<1>6. <<a, c, b>> \in Publishing(flags) /\ InPublish(a)
  BY <1>3, <1>4, <1>5, CurrentCall DEF PublishTrace
<1>7. InPublish(b)' /\ b = g[pc']
  BY <1>2, <1>3, <1>5, <1>6 DEF KeepsPublish
<1>8. InPublish(g[pc])'
  BY <1>7 DEF InPublish
<1>9. QED
  BY <1>1, <1>4, <1>8

\* A call that records no row.
LEMMA RankSame ==
  ASSUME UNCHANGED rows, NEW c, c.op # "row"
  PROVE  KeepsRank(c)
<1> SUFFICES ASSUME NEW p \in Known, NEW a, NEW b, <<a, c, b>> \in Ranks(p), InRank(a, p)
             PROVE  InRank(b, p)'
  BY DEF KeepsRank
<1>1. b = a
  BY DEF Ranks
<1>2. QED
  BY <1>1 DEF InRank

LEMMA RowRanks ==
  ASSUME HTypes, Row
  PROVE  KeepsRank(Current)
<1> SUFFICES ASSUME NEW p \in Known, NEW a, NEW b, <<a, Current, b>> \in Ranks(p), InRank(a, p)
             PROVE  InRank(b, p)'
  BY DEF KeepsRank
<1>1. PICK r : /\ rows' = Append(rows, r)
               /\ r.phase = Current.phase /\ r.profile = Current.profile /\ r.metric = Current.metric
  <2>1. PICK v, u, d : rows' = Append(rows, [phase |-> Current.phase, profile |-> Current.profile,
                                             metric |-> Current.metric, value |-> v, units |-> u,
                                             durable |-> d])
    BY DEF Row
  <2>2. PICK r : r = [phase |-> Current.phase, profile |-> Current.profile, metric |-> Current.metric,
                      value |-> v, units |-> u, durable |-> d]
    OBVIOUS
  <2>3. r.phase = Current.phase /\ r.profile = Current.profile /\ r.metric = Current.metric
    BY <2>2
  <2>4. QED
    BY <2>1, <2>2, <2>3
<1>2. Rank(r) = Rank(Current) /\ Current.op = "row"
  BY <1>1 DEF Rank, Row
<1>3. a \in Nat /\ b \in Nat /\ rows \in Seq(RowSet)
  BY DEF InRank, Ranks, HTypes
<1>4. PICK n : n = Len(rows) + 1
  OBVIOUS
<1>5. /\ DOMAIN rows' = DOMAIN rows \cup {n} /\ n \notin DOMAIN rows
      /\ rows'[n] = r /\ \A i \in DOMAIN rows : rows'[i] = rows[i]
  BY <1>1, <1>3, <1>4, SMT
<1>6. CASE r.profile = p
  <2>1. a < Rank(r) /\ Rank(r) <= b
    BY <1>1, <1>2, <1>6 DEF Ranks
  <2>2. Rank(r) \in Nat
    BY SMT DEF Rank
  <2>3. /\ b # 0 /\ 0 < Rank(r) /\ \A k \in Nat : k <= a => k <= b /\ k # Rank(r)
    BY <1>3, <2>1, <2>2, SMT
  <2>4. \A i \in DOMAIN rows : rows[i].profile = p => 0 < Rank(rows[i]) /\ Rank(rows[i]) <= b /\ Rank(rows[i]) # Rank(r)
    <3>1. \A i \in DOMAIN rows : Rank(rows[i]) \in Nat
      BY SMT DEF Rank
    <3>2. QED
      BY <2>3, <3>1 DEF InRank
  <2>5. \E i \in DOMAIN rows' : rows'[i].profile = p
    BY <1>5, <1>6
  <2>6. \A i \in DOMAIN rows' : rows'[i].profile = p => 0 < Rank(rows'[i]) /\ Rank(rows'[i]) <= b
    BY <1>5, <2>1, <2>3, <2>4
  <2>7. \A i, j \in DOMAIN rows' :
           rows'[i].profile = p /\ rows'[j].profile = p /\ Rank(rows'[i]) = Rank(rows'[j]) => i = j
    BY <1>5, <2>4 DEF InRank
  <2>8. QED
    BY <1>3, <2>5, <2>6, <2>7 DEF InRank
<1>7. CASE r.profile # p
  <2>1. b = a
    BY <1>1, <1>7 DEF Ranks
  <2>2. b # 0 => \E i \in DOMAIN rows' : rows'[i].profile = p
    BY <1>5, <2>1 DEF InRank
  <2>3. \A i \in DOMAIN rows' : rows'[i].profile = p => 0 < Rank(rows'[i]) /\ Rank(rows'[i]) <= b
    BY <1>5, <1>7, <2>1 DEF InRank
  <2>4. \A i, j \in DOMAIN rows' :
           rows'[i].profile = p /\ rows'[j].profile = p /\ Rank(rows'[i]) = Rank(rows'[j]) => i = j
    BY <1>5, <1>7 DEF InRank
  <2>5. QED
    BY <1>3, <2>2, <2>3, <2>4 DEF InRank
<1>8. QED
  BY <1>6, <1>7

\* A call that leaves the writer alone.
LEMMA PublishSame ==
  ASSUME UNCHANGED <<flags, wvars>>, NEW c, c.op \notin {"fatal", "append"},
         c.op \in WriterOps => c.err # "exit", c.op = "row" \/ UNCHANGED rows
  PROVE  KeepsPublish(c)
<1> SUFFICES ASSUME NEW a, NEW b, <<a, c, b>> \in Publishing(flags), InPublish(a)
             PROVE  InPublish(b)'
  BY DEF KeepsPublish
<1>1. PublishMove(flags, a, c, b)
  BY DEF Publishing
<1>2. b = a /\ (a \in {"appended", "published"} => UNCHANGED rows)
  BY <1>1 DEF PublishMove, WriterOps
<1>3. QED
  BY <1>2 DEF InPublish, wvars, Content

-----------------------------------------------------------------------------
(* The lines of the rows cover them.                                       *)

\* The lines of a row are of its profile and phase, and differ in the metric.
LineOf(r, k) == k.engine = r.profile /\ k.phase = r.phase /\ (r.metric # "" => k.metric = r.metric)
LongOf(r, l) ==
    /\ 1 \in DOMAIN l
    /\ \A x \in DOMAIN l : LineOf(r, l[x])
    /\ \A x, y \in DOMAIN l : l[x].metric = l[y].metric => x = y

LEMMA LongParts ==
  ASSUME NEW r
  PROVE  LongOf(r, phaseResultToLong(r))
<1> DEFINE line(metric, value) == [engine |-> r.profile, phase |-> r.phase, metric |-> metric,
                                   value |-> value]
<1>1. phaseResultToLong(r) = IF r.metric # "" THEN <<line(r.metric, r.value)>>
                             ELSE <<line("duration_ms", 0), line("ops_per_s", 0)>>
  BY DEF phaseResultToLong
<1>2. PICK u, v, w : u = line(r.metric, r.value) /\ v = line("duration_ms", 0) /\ w = line("ops_per_s", 0)
  OBVIOUS
<1>3. /\ u.engine = r.profile /\ u.phase = r.phase /\ u.metric = r.metric
      /\ v.engine = r.profile /\ v.phase = r.phase /\ w.engine = r.profile /\ w.phase = r.phase
      /\ v.metric # w.metric
  <2>1. v.metric = "duration_ms" /\ w.metric = "ops_per_s"
    BY <1>2
  <2>2. QED
    BY <1>2, <2>1
<1>4. phaseResultToLong(r) = IF r.metric # "" THEN <<u>> ELSE <<v, w>>
  BY <1>1, <1>2
<1> HIDE DEF line
<1>5. DOMAIN <<u>> = {1} /\ <<u>>[1] = u /\ DOMAIN <<v, w>> = {1, 2} /\ <<v, w>>[1] = v /\ <<v, w>>[2] = w
  BY SMT
<1>6. CASE r.metric # ""
  <2>1. LongOf(r, <<u>>)
    BY <1>3, <1>5 DEF LongOf, LineOf
  <2>2. QED
    BY <1>4, <1>6, <2>1
<1>7. CASE r.metric = ""
  <2>1. LongOf(r, <<v, w>>)
    BY <1>3, <1>5, <1>7 DEF LongOf, LineOf
  <2>2. QED
    BY <1>4, <1>7, <2>1
<1>8. QED
  BY <1>6, <1>7

\* Rows with the same line have the same rank.
LEMMA SameRank ==
  ASSUME NEW r, NEW s, r.phase = s.phase, Rank(r) # 0, Rank(s) # 0,
         (r.metric # "" /\ s.metric # "") => r.metric = s.metric
  PROVE  Rank(r) = Rank(s)
<1>1. CASE r.metric = s.metric
  BY <1>1 DEF Rank
<1>2. CASE r.metric = "" \/ s.metric = ""
  <2> DEFINE early == {"memoir_batch_put", "memoir_random_get", "chunk_batch_put", "chunk_batch_put_flush",
                       "chunk_batch_put_durable", "chunk_put_group_commit", "chunk_batch_put_batched",
                       "chunk_batch_put_bulk_import", "chunk_prefix_scan", "chunk_random_get"}
  <2>1. ASSUME NEW t, t.metric = "", t.phase \notin early PROVE Rank(t) = 0
    BY <2>1 DEF Rank
  <2>2. r.phase \in early
    <3> HIDE DEF early
    <3>1. QED
      BY <1>2, <2>1
  <2>3. QED
    BY <2>2 DEF Rank
<1>3. QED
  BY <1>1, <1>2

\* Rows of one profile are told apart by their rank.
RowsApart ==
    /\ \A i \in DOMAIN rows : Rank(rows[i]) # 0
    /\ \A i, j \in DOMAIN rows :
          rows[i].profile = rows[j].profile /\ Rank(rows[i]) = Rank(rows[j]) => i = j

\* No two lines of the first n rows are for the same thing.
LEMMA LinesApart ==
  ASSUME Inductive, rows \in Seq(RowSet), RowsApart, NEW n, n = Len(rows)
  PROVE  \A i, j \in DOMAIN longLines[n] : Same(longLines[n][i], longLines[n][j]) => i = j
<1> DEFINE Apart(l) == \A i, j \in DOMAIN l : Same(l[i], l[j]) => i = j
           long(i) == phaseResultToLong(rows[i])
           T == {m \in 0 .. n : Apart(longLines[m])}
<1>1. n \in Nat /\ DOMAIN rows = 1 .. n /\ \A i \in 1 .. n : long(i) \in Seq(Lines)
  BY LongType, SMT
<1>2. 0 \in T
  <2>1. longLines[0] = <<>>
    BY LongLinesAre
  <2>2. DOMAIN longLines[0] = {} /\ 0 \in 0 .. n
    BY <1>1, <2>1, SMT
  <2>3. QED
    BY <2>2
<1>3. ASSUME NEW m \in 1 .. n, m - 1 \in T PROVE m \in T
  <2>1. /\ m \in 0 .. n /\ m - 1 \in 0 .. Len(rows) /\ m \in 1 .. Len(rows)
        /\ \A i \in 1 .. m - 1 : i \in 1 .. n /\ i # m
    BY <1>1, SMT
  <2>2. PICK a, b : a = longLines[m - 1] /\ b = long(m)
    OBVIOUS
  <2>3. longLines[m] = a \o b /\ a \in Seq(Lines) /\ b \in Seq(Lines)
    BY <1>1, <2>1, <2>2, LongLinesAre
  <2>4. Parts(a, b) /\ Apart(a) /\ LinesOf(m - 1, a)
    BY <1>3, <2>1, <2>2, <2>3, ConcatParts, LinesOfFirst
  <2>5. ASSUME NEW i \in DOMAIN a, NEW y \in DOMAIN b PROVE ~Same(a[i], b[y]) /\ ~Same(b[y], a[i])
    <3>1. PICK u, v : u = a[i] /\ v = b[y]
      OBVIOUS
    <3>3. PICK k \in 1 .. m - 1 : \E x \in DOMAIN long(k) : a[i] = long(k)[x]
      BY <2>4 DEF LinesOf
    <3>4. PICK c : c = long(k)
      OBVIOUS
    <3>5. LongOf(rows[k], c) /\ LongOf(rows[m], b)
      BY <2>2, <3>4, LongParts
    <3>6. PICK x \in DOMAIN c : u = c[x]
      BY <3>1, <3>3, <3>4
    <3>7. LineOf(rows[k], u) /\ LineOf(rows[m], v)
      <4>1. LineOf(rows[k], c[x]) /\ LineOf(rows[m], b[y])
        BY <3>5 DEF LongOf
      <4>2. QED
        BY <3>1, <3>6, <4>1
    <3>2. SUFFICES ASSUME u.engine = v.engine, u.phase = v.phase, u.metric = v.metric PROVE FALSE
      BY <3>1 DEF Same
    <3>9. k \in DOMAIN rows /\ m \in DOMAIN rows /\ k # m
      BY <1>1, <2>1
    <3>10. Rank(rows[k]) # 0 /\ Rank(rows[m]) # 0
      BY <3>9 DEF RowsApart
    <3>11. Rank(rows[k]) = Rank(rows[m])
      BY <3>2, <3>7, <3>10, SameRank DEF LineOf
    <3>12. QED
      BY <3>2, <3>7, <3>9, <3>11 DEF RowsApart, LineOf
  <2>6. ASSUME NEW y \in DOMAIN b, NEW z \in DOMAIN b, Same(b[y], b[z]) PROVE y = z
    BY <2>2, <2>6, LongParts DEF Same, LongOf
  <2>7. Apart(a \o b)
    <3> SUFFICES ASSUME NEW i \in DOMAIN (a \o b), NEW j \in DOMAIN (a \o b), Same((a \o b)[i], (a \o b)[j])
                 PROVE  i = j
      OBVIOUS
    <3>1. CASE i \in DOMAIN a /\ j \in DOMAIN a
      BY <2>4, <3>1 DEF Parts
    <3>2. ASSUME NEW y \in DOMAIN b, i = Len(a) + y, j \in DOMAIN a PROVE FALSE
      BY <2>4, <2>5, <3>2 DEF Parts
    <3>3. ASSUME NEW y \in DOMAIN b, j = Len(a) + y, i \in DOMAIN a PROVE FALSE
      BY <2>4, <2>5, <3>3 DEF Parts
    <3>4. ASSUME NEW y \in DOMAIN b, NEW z \in DOMAIN b, i = Len(a) + y, j = Len(a) + z PROVE i = j
      BY <2>4, <2>6, <3>4 DEF Parts
    <3>5. QED
      BY <2>4, <3>1, <3>2, <3>3, <3>4 DEF Parts
  <2>8. QED
    BY <2>1, <2>3, <2>7
<1>4. n \in T
  <2> HIDE DEF T
  <2>1. \A m \in 0 .. n : m \in T
    BY <1>1, <1>2, <1>3, ZenonT(60) DEF Inductive
  <2>2. QED
    BY <1>1, <2>1, SMT
<1>5. QED
  BY <1>4

LEMMA LinesCover ==
  ASSUME Inductive, rows \in Seq(RowSet), RowsApart, NEW l, l = longLines[Len(rows)]
  PROVE  Covers(l, rows)
<1>1. Len(rows) \in 0 .. Len(rows) /\ DOMAIN rows = 1 .. Len(rows)
  BY SMT
<1>2. LinesOf(Len(rows), l)
  BY <1>1, LinesOfFirst
<1>3. ASSUME NEW k \in DOMAIN l PROVE \E i \in DOMAIN rows : l[k].engine = rows[i].profile
  <2>1. PICK i \in 1 .. Len(rows) : \E x \in DOMAIN phaseResultToLong(rows[i]) : l[k] = phaseResultToLong(rows[i])[x]
    BY <1>2 DEF LinesOf
  <2>2. PICK b : b = phaseResultToLong(rows[i]) /\ LongOf(rows[i], b)
    BY LongParts
  <2>3. PICK x \in DOMAIN b : l[k] = b[x]
    BY <2>1, <2>2
  <2>4. QED
    BY <1>1, <2>2, <2>3 DEF LongOf, LineOf
<1>4. ASSUME NEW i \in DOMAIN rows PROVE \E k \in DOMAIN l : l[k].engine = rows[i].profile
  <2>1. 1 \in DOMAIN phaseResultToLong(rows[i]) /\ phaseResultToLong(rows[i])[1].engine = rows[i].profile
    BY LongParts DEF LongOf, LineOf
  <2>2. PICK k \in DOMAIN l : l[k] = phaseResultToLong(rows[i])[1]
    BY <1>1, <1>2, <2>1 DEF LinesOf
  <2>3. QED
    BY <2>1, <2>2
<1>5. \A i, j \in DOMAIN l : Same(l[i], l[j]) => i = j
  BY LinesApart
<1>6. {l[k].engine : k \in DOMAIN l} = {rows[i].profile : i \in DOMAIN rows}
  BY <1>3, <1>4, SMT
<1>7. QED
  BY <1>5, <1>6 DEF Covers

-----------------------------------------------------------------------------
(* The rows and the writer, step by step.                                  *)

\* A call that records no row and leaves the writer alone.
LEMMA PassNext ==
  ASSUME HTypes, Ranked, Publishes, Running \/ Deferred, Moves, UNCHANGED <<rows, wvars>>,
         Current.op \notin {"row", "fatal", "append"}, Current.op \in WriterOps => Current.err # "exit"
  PROVE  Ranked' /\ Publishes'
<1>1. PICK c : c = Scripts[flags][pc]
  OBVIOUS
<1>2. status = "running" => c.op \notin {"row", "fatal", "append"} /\ (c.op \in WriterOps => c.err # "exit")
  BY <1>1, CurrentCall DEF Running, Deferred, WriterOps
<1>3. status = "running" => KeepsRank(c) /\ KeepsPublish(c)
  BY <1>2, RankSame, PublishSame DEF Moves
<1>4. QED
  BY <1>1, <1>3, RankedNext, PublishesNext

LEMMA MainCall ==
  ASSUME HTypes, Running, Current.op \notin {"close", "remove_all"}
  PROVE  Current = Scripts[flags][pc] /\ status = "running"
  BY CurrentCall DEF Put_Off, Running

LEMMA RowPublishes ==
  ASSUME HTypes, Ranked, Publishes, Row
  PROVE  Ranked' /\ Publishes'
<1>1. Running /\ Current.op = "row" /\ Advance /\ UNCHANGED <<flags, wvars>>
  BY DEF Row, Advance
<1>2. Current = Scripts[flags][pc] /\ Moves
  BY <1>1, MainCall, AdvanceMoves
<1>3. KeepsRank(Current) /\ KeepsPublish(Current)
  BY <1>1, RowRanks, PublishSame DEF WriterOps
<1>4. QED
  BY <1>1, <1>2, <1>3, RankedNext, PublishesNext

\* No two rows of a profile have the same rank.
LEMMA RankedApart ==
  ASSUME HTypes, Ranked, status = "running", Harness
  PROVE  RowsApart
<1>1. ASSUME NEW i \in DOMAIN rows PROVE rows[i].profile \in Known /\ Rank(rows[i]) \in Nat
  <2>1. rows[i] \in RowSet
    BY SMT DEF HTypes
  <2>2. Rank(rows[i]) \in Nat
    BY SMT DEF Rank
  <2>3. QED
    BY <2>1, <2>2 DEF RowSet
<1>2. \A k \in Nat : 0 < k => k # 0
  BY SMT
<1>3. ASSUME NEW i \in DOMAIN rows PROVE Rank(rows[i]) # 0
  BY <1>1, <1>2 DEF Ranked, InRank
<1>4. ASSUME NEW i \in DOMAIN rows, NEW j \in DOMAIN rows,
             rows[i].profile = rows[j].profile, Rank(rows[i]) = Rank(rows[j])
      PROVE  i = j
  BY <1>1, <1>4 DEF Ranked, InRank
<1>5. QED
  BY <1>3, <1>4 DEF RowsApart

LEMMA AppendPublishes ==
  ASSUME Inductive, HTypes, Ranked, Publishes, AppendResults
  PROVE  Ranked' /\ Publishes'
<1>1. /\ Running /\ Current.op = "append" /\ Advance /\ UNCHANGED <<flags, rows>>
      /\ wlines' = wlines \o longLines[Len(rows)] /\ UNCHANGED <<wpc, wid>>
  BY DEF AppendResults, AppendPhaseResults, Advance
<1>2. Current = Scripts[flags][pc] /\ Moves /\ status = "running"
  BY <1>1, MainCall, AdvanceMoves
<1>3. KeepsRank(Current)
  BY <1>1, RankSame
<1>4. ASSUME Harness PROVE KeepsPublish(Current)
  <2> SUFFICES ASSUME NEW a, NEW b, <<a, Current, b>> \in Publishing(flags), InPublish(a)
               PROVE  InPublish(b)'
    BY DEF KeepsPublish
  <2>1. PublishMove(flags, a, Current, b)
    BY DEF Publishing
  <2>2. a = "open" /\ b = "appended"
    BY <1>1, <2>1 DEF PublishMove, WriterOps
  <2>3. PICK l : l = longLines[Len(rows)]
    OBVIOUS
  <2>4. rows \in Seq(RowSet) /\ l \in Seq(Lines)
    BY <2>3, LongLinesType DEF HTypes
  <2>5. Covers(l, rows)
    BY <1>2, <1>4, <2>3, <2>4, RankedApart, LinesCover
  <2>6. wpc = "append" /\ wid = flags.id /\ wlines = <<>>
    BY <2>2 DEF InPublish
  <2>7. wlines' = l
    <3>1. <<>> \o l = l
      BY <2>4, SMT
    <3>2. QED
      BY <1>1, <2>3, <2>6, <3>1
  <2>8. Covers(wlines, rows)'
    BY <1>1, <2>5, <2>7 DEF Covers
  <2>9. QED
    BY <1>1, <2>2, <2>6, <2>8 DEF InPublish, Publications
<1>5. QED
  BY <1>1, <1>2, <1>3, <1>4, RankedNext, PublishesNext

\* NewRunWriter and Finalize are at work, and have returned.
LEMMA WriterMoves ==
  ASSUME WInv, Writer, UNCHANGED flags, NEW a, NEW b, <<a, Current, b>> \in Publishing(flags), InPublish(a)
  PROVE  IF wpc' \in {"append", "done"} THEN InPublish(b)' ELSE InPublish(a)'
<1>1. UNCHANGED rows /\ PublishMove(flags, a, Current, b)
  BY DEF Writer, Publishing
<1>2. CASE Current.op = "new_run_writer"
  <2>1. a = "none" /\ b = "open"
    BY <1>1, <1>2 DEF PublishMove, WriterOps
  <2>2. wpc \in {"none", "clear", "make"} /\ (wpc # "none" => wid = flags.id /\ wlines = <<>>)
    BY <2>1 DEF InPublish
  <2>3. CASE NewRunWriter(flags.id)
    BY <2>1, <2>3 DEF NewRunWriter, InPublish, Publications
  <2>4. CASE ClearPartial
    <3>1. wpc = "clear" /\ wpc' \in {"clear", "make"} /\ UNCHANGED <<wid, wlines>>
      BY <2>4 DEF ClearPartial, RemoveStep, Goto
    <3>2. QED
      BY <2>1, <2>2, <3>1 DEF InPublish, Publications
  <2>5. CASE MakePartial
    <3>1. wpc = "make" /\ wpc' = "append" /\ UNCHANGED <<wid, wlines>>
      BY <2>5 DEF MakePartial, Goto
    <3>2. QED
      BY <2>1, <2>2, <3>1 DEF InPublish, Publications
  <2>6. QED
    BY <1>2, <2>2, <2>3, <2>4, <2>5 DEF Writer, WriterStep, RemoveFinal, Rename, CreateFile, FillFile, Files
<1>3. CASE Current.op = "finalize"
  <2>1. a = "appended" /\ b = "published"
    BY <1>1, <1>3 DEF PublishMove, WriterOps
  <2>2. wpc \in {"append", "remove", "rename"} \cup Files /\ wid = flags.id /\ Covers(wlines, rows)
    BY <2>1 DEF InPublish
  <2>3. ASSUME wpc' \in {"remove", "rename"} \cup Files, UNCHANGED <<wid, wlines>> PROVE InPublish(a)'
    BY <1>1, <2>1, <2>2, <2>3 DEF InPublish, Publications, Covers
  <2>4. CASE Rename
    <3>1. /\ wpc = "rename" /\ wpc' = "done" /\ UNCHANGED <<wid, wlines, life>>
          /\ final' = [final EXCEPT ![wid] = partial[wid]]
      BY <2>4 DEF Rename, Goto
    <3>2. PICK d : d = [f \in Files |-> Content]
      OBVIOUS
    <3>3. partial[wid] = d /\ wid \in DOMAIN final /\ WTypeOK
      BY <3>1, <3>2 DEF WInv, WTypeOK, Staged
    <3>4. final'[wid'] = d
      BY <3>1, <3>3
    <3>5. Whole(d) /\ d.results = Content
      BY <3>2, <3>3, ContentIsWhole DEF Files
    <3>6. Content' = Content
      BY <3>1 DEF Content
    <3>7. Covers(wlines, rows)'
      BY <1>1, <2>2, <3>1 DEF Covers
    <3>8. Whole(final[wid])' /\ (final[wid].results = Content)'
      BY <3>4, <3>5, <3>6 DEF Whole
    <3>9. QED
      BY <2>1, <2>2, <3>1, <3>7, <3>8 DEF InPublish, Publications
  <2>5. CASE Finalize \/ RemoveFinal \/ \E f \in Files : CreateFile(f) \/ FillFile(f)
    <3>1. wpc' \in {"remove", "rename"} \cup Files /\ UNCHANGED <<wid, wlines>>
      BY <2>5 DEF Finalize, RemoveFinal, RemoveStep, CreateFile, FillFile, Goto, NextFile, Files
    <3>2. QED
      BY <2>3, <3>1 DEF Files
  <2>6. QED
    BY <1>3, <2>2, <2>4, <2>5 DEF Writer, WriterStep, ClearPartial, MakePartial, Files
<1>4. QED
  BY <1>2, <1>3 DEF Writer

LEMMA WriterPublishes ==
  ASSUME HTypes, WInv, Ranked, Publishes, Writer
  PROVE  Ranked' /\ Publishes'
<1>1. /\ Running /\ Current.op \in {"new_run_writer", "finalize"} /\ UNCHANGED <<flags, status, rows>>
      /\ IF wpc' \in {"append", "done"} THEN Advance ELSE UNCHANGED pc
  BY DEF Writer, Advance
<1>2. Current = Scripts[flags][pc] /\ status = "running"
  BY <1>1, MainCall
<1>3. CASE wpc' \in {"append", "done"}
  <2>1. KeepsRank(Current)
    BY <1>1, RankSame
  <2>2. KeepsPublish(Current)
    BY <1>1, <1>3, WriterMoves DEF KeepsPublish
  <2>3. QED
    BY <1>1, <1>2, <1>3, <2>1, <2>2, AdvanceMoves, RankedNext, PublishesNext
<1>4. CASE wpc' \notin {"append", "done"}
  <2>1. UNCHANGED <<flags, status, pc, rows>> /\ (Harness' <=> Harness)
    BY <1>1, <1>4 DEF Harness
  <2>2. Ranked'
    BY <2>1 DEF Ranked, InRank
  <2>3. ASSUME Harness PROVE \E g : PublishTrace(flags, Scripts[flags], g) /\ InPublish(g[pc])'
    <3>1. PICK g : PublishTrace(flags, Scripts[flags], g) /\ InPublish(g[pc])
      BY <1>2, <2>3 DEF Publishes
    <3>2. PICK a, b : a = g[pc] /\ b = g[pc + 1]
      OBVIOUS
    <3>3. <<a, Current, b>> \in Publishing(flags) /\ InPublish(a)
      BY <1>1, <1>2, <3>1, <3>2, CurrentCall DEF PublishTrace
    <3>4. InPublish(a)' /\ a = g[pc']
      BY <1>1, <1>4, <2>1, <3>2, <3>3, WriterMoves
    <3>5. InPublish(g[pc])'
      BY <3>4 DEF InPublish
    <3>6. QED
      BY <3>1, <3>5
  <2>4. QED
    BY <2>1, <2>2, <2>3 DEF Publishes
<1>5. QED
  BY <1>3, <1>4

LEMMA LaunchPublishes ==
  ASSUME RankScripts, PublishScripts, HTypes, NEW f \in Flags, Launch(f)
  PROVE  Ranked' /\ Publishes'
<1>1. status' = "running" /\ flags' = f /\ pc' = 1 /\ rows' = <<>> /\ UNCHANGED wpc /\ wpc = "none"
  BY DEF Launch, wvars, HTypes, Working, Ends
<1>2. DOMAIN rows' = {}
  BY <1>1, SMT
<1>3. SUFFICES ASSUME Harness'
               PROVE  /\ \A p \in Known : \E g : RankTrace(flags', p, Scripts[flags'], g) /\ InRank(g[pc], p)'
                      /\ \E g : PublishTrace(flags', Scripts[flags'], g) /\ InPublish(g[pc])'
  BY DEF Ranked, Publishes
<1>4. f \in EmbedFlags(RunIds)
  BY <1>1, <1>3, HarnessAssumption DEF Harness, ReadTaxFlags, ProbeFlags
<1>5. ASSUME NEW p \in Known PROVE \E g : RankTrace(flags', p, Scripts[flags'], g) /\ InRank(g[pc], p)'
  <2>1. Scripts[f] \in Leads(Ranks(p), 0, IF p \in Wanted(f) THEN LastRank(p) ELSE 0)
    BY <1>4 DEF RankScripts
  <2>2. PICK g : RankTrace(f, p, Scripts[f], g)
    BY <2>1 DEF Leads, RankTrace
  <2>3. g[pc'] = 0 /\ 0 \in Nat
    BY <1>1, <2>2 DEF RankTrace
  <2>4. InRank(g[pc], p)'
    BY <1>2, <2>3 DEF InRank
  <2>5. QED
    BY <1>1, <2>2, <2>4
<1>6. \E g : PublishTrace(flags', Scripts[flags'], g) /\ InPublish(g[pc])'
  <2>1. Scripts[f] \in Leads(Publishing(f), "none", IF f.root THEN "published" ELSE "none")
    BY <1>4 DEF PublishScripts
  <2>2. PICK g : PublishTrace(f, Scripts[f], g)
    BY <2>1 DEF Leads, PublishTrace
  <2>3. g[pc'] = "none"
    BY <1>1, <2>2 DEF PublishTrace
  <2>4. InPublish(g[pc])'
    BY <1>1, <2>3 DEF InPublish, Publications
  <2>5. QED
    BY <1>1, <2>2, <2>4
<1>7. QED
  BY <1>5, <1>6

LEMMA NextPublishes ==
  ASSUME RankScripts, PublishScripts, Inductive, HInv, WInv, Ranked, Publishes, [Next]_vars
  PROVE  Ranked' /\ Publishes'
<1>0. HTypes
  BY DEF HInv
<1>1. CASE Do
  <2>1. /\ (Running \/ Deferred) /\ Advance /\ UNCHANGED <<rows, wvars>>
        /\ Current.op \notin Handled /\ Current.op # "fatal"
    BY <1>1 DEF Do, Refuses
  <2>2. QED
    BY <1>0, <2>1, AdvanceMoves, PassNext DEF Handled, WriterOps
<1>2. CASE status' # "running"
  BY <1>2 DEF Ranked, Publishes
<1>3. CASE FailUnseen
  <2>1. /\ (Running \/ Deferred) /\ Advance /\ UNCHANGED <<rows, wvars>>
        /\ Current.op \in Fallible /\ (Current.err = "ignore" \/ Current.op \in {"scan", "scan_more"})
    BY <1>3 DEF FailUnseen
  <2>2. QED
    BY <1>0, <2>1, AdvanceMoves, PassNext DEF Fallible, WriterOps
<1>4. CASE LoseRows
  <2>1. (Running \/ Deferred) /\ Advance /\ UNCHANGED <<rows, wvars>> /\ Current.op \in {"close", "open"}
    BY <1>4 DEF LoseRows
  <2>2. QED
    BY <1>0, <2>1, AdvanceMoves, PassNext DEF WriterOps
<1>5. CASE Fail \/ Crash \/ Panicked \/ Finish
  BY <1>2, <1>5 DEF Fail, Abort, Crash, Panicked, Finish, End
<1>6. CASE CheckGate
  <2>1. CASE End("integrity")
    BY <1>2, <2>1 DEF End
  <2>2. CASE Advance /\ UNCHANGED <<stores, rows, counted, faults, lost, wvars>>
    <3>1. Running /\ Current.op = "gate"
      BY <1>6 DEF CheckGate
    <3>2. QED
      BY <1>0, <2>2, <3>1, AdvanceMoves, PassNext DEF WriterOps
  <2>3. QED
    BY <1>6, <2>1, <2>2 DEF CheckGate
<1>7. CASE printTable
  <2>1. Running /\ Current.op = "print_table" /\ UNCHANGED <<rows, wvars>>
    BY <1>7 DEF printTable
  <2>2. QED
    BY <1>0, <1>7, <2>1, PrintMoves, PassNext DEF WriterOps
<1>8. CASE Row \/ AppendResults \/ Writer
  BY <1>0, <1>8, RowPublishes, AppendPublishes, WriterPublishes
<1>9. CASE UNCHANGED vars \/ \E p \in DOMAIN stores : Background(p)
  <2>1. UNCHANGED <<flags, status, pc, rows, wvars>>
    BY <1>9 DEF vars, hvars, Background
  <2>2. (Harness' <=> Harness) /\ Content' = Content
    BY <2>1 DEF Harness, Content, wvars
  <2>3. Ranked'
    BY <2>1, <2>2 DEF Ranked, InRank
  <2>4. \A a : InPublish(a) => InPublish(a)'
    BY <2>1, <2>2 DEF InPublish, Covers, wvars, Whole
  <2>5. Publishes'
    <3>1. SUFFICES ASSUME status = "running", Harness
                   PROVE  \E g : PublishTrace(flags', Scripts[flags'], g) /\ InPublish(g[pc])'
      BY <2>1, <2>2 DEF Publishes
    <3>2. PICK g : PublishTrace(flags, Scripts[flags], g) /\ InPublish(g[pc])
      BY <3>1 DEF Publishes
    <3>3. PICK a : a = g[pc] /\ a = g[pc']
      BY <2>1
    <3>4. InPublish(a)'
      BY <2>4, <3>2, <3>3
    <3>5. InPublish(g[pc])'
      BY <3>3, <3>4 DEF InPublish
    <3>6. QED
      BY <2>1, <3>2, <3>5
  <2>6. QED
    BY <2>3, <2>5
<1>10. CASE \E f \in Flags : Launch(f)
  BY <1>0, <1>10, LaunchPublishes
<1>11. QED
  BY <1>1, <1>3, <1>4, <1>5, <1>6, <1>7, <1>8, <1>9, <1>10 DEF Next, Works

\* In the end there are rows for the profiles that were asked for.
LEMMA RowsOfAll ==
  ASSUME RankScripts, HTypes, Ranked, status = "running", Harness, pc = Len(Scripts[flags]) + 1
  PROVE  {rows[i].profile : i \in DOMAIN rows} = Wanted(flags)
<1>1. flags \in Flags \cap EmbedFlags(RunIds)
  BY HarnessFlags DEF Working
<1>2. Wanted(flags) \subseteq Known
  BY <1>1 DEF RankScripts
<1>3. ASSUME NEW p \in Known PROVE InRank(IF p \in Wanted(flags) THEN LastRank(p) ELSE 0, p)
  <2>1. PICK g : RankTrace(flags, p, Scripts[flags], g) /\ InRank(g[pc], p)
    BY DEF Ranked
  <2>2. QED
    BY <2>1 DEF RankTrace
<1>4. ASSUME NEW i \in DOMAIN rows PROVE rows[i].profile \in Wanted(flags)
  <2>1. rows[i] \in RowSet
    BY SMT DEF HTypes
  <2>2. rows[i].profile \in Known
    BY <2>1 DEF RowSet
  <2>3. Rank(rows[i]) \in Nat
    BY SMT DEF Rank
  <2>4. \A k \in Nat : ~(0 < k /\ k <= 0)
    BY SMT
  <2>5. QED
    BY <1>3, <2>2, <2>3, <2>4 DEF InRank
<1>5. ASSUME NEW p \in Wanted(flags) PROVE \E i \in DOMAIN rows : rows[i].profile = p
  <2>1. LastRank(p) # 0
    BY SMT DEF LastRank
  <2>2. QED
    BY <1>2, <1>3, <2>1 DEF InRank
<1>6. QED
  BY <1>4, <1>5

\* A directory d with all of a run: of writer n, for the profiles ps.
CoversRun(d, n, ps) ==
    /\ Whole(d) /\ d.results.life = n
    /\ LET lines == d.results.lines
       IN  /\ {lines[i].engine : i \in DOMAIN lines} = ps
           /\ \A i, j \in DOMAIN lines : Same(lines[i], lines[j]) => i = j

LEMMA CoversRunIs ==
  PublishedCovers <=> (status = "ok" /\ Harness /\ flags.root => CoversRun(final[flags.id], life, Wanted(flags)))
  BY DEF PublishedCovers, CoversRun, Same

LEMMA CoversRunNext ==
  ASSUME UNCHANGED <<flags, final, life>>, CoversRun(final[flags.id], life, Wanted(flags))
  PROVE  PublishedCovers'
<1>1. PICK d, ps : /\ d = final[flags.id] /\ d = (final[flags.id])'
                   /\ ps = Wanted(flags) /\ ps = Wanted(flags')
  OBVIOUS
<1>2. CoversRun(d, life, ps)
  BY <1>1
<1>3. CoversRun(final'[flags'.id], life', Wanted(flags'))
  BY <1>1, <1>2
<1>4. QED
  BY <1>3 DEF PublishedCovers, CoversRun, Same, Whole

LEMMA NextPublishedCovers ==
  ASSUME RankScripts, HTypes, Ranked, Publishes, PublishedCovers, [Next]_vars
  PROVE  PublishedCovers'
<1>1. CASE Finish
  <2>1. /\ status = "running" /\ pc = Len(Scripts[flags]) + 1 /\ UNCHANGED <<flags, final, life>>
    BY <1>1 DEF Finish, End, Stop, Goto, wvars
  <2>2. SUFFICES ASSUME Harness, flags.root PROVE PublishedCovers'
    BY <2>1 DEF PublishedCovers, Harness
  <2>3. PICK g : PublishTrace(flags, Scripts[flags], g) /\ InPublish(g[pc])
    BY <2>1, <2>2 DEF Publishes
  <2>4. g[pc] = "published"
    BY <2>1, <2>2, <2>3 DEF PublishTrace
  <2>5. wid = flags.id /\ Covers(wlines, rows) /\ Whole(final[flags.id]) /\ final[flags.id].results = Content
    BY <2>3, <2>4 DEF InPublish
  <2>6. Content.life = life /\ Content.lines = wlines
    BY DEF Content
  <2>7. {rows[i].profile : i \in DOMAIN rows} = Wanted(flags)
    BY <2>1, <2>2, RowsOfAll
  <2>8. CoversRun(final[flags.id], life, Wanted(flags))
    BY <2>5, <2>6, <2>7 DEF Covers, CoversRun
  <2>9. QED
    BY <2>1, <2>8, CoversRunNext
<1>2. CASE status' # "ok"
  BY <1>2 DEF PublishedCovers
<1>3. CASE UNCHANGED <<status, flags, lost, final, life>>
  <2>1. SUFFICES ASSUME status = "ok", Harness, flags.root PROVE PublishedCovers'
    BY <1>3 DEF PublishedCovers, Harness
  <2>2. QED
    BY <1>3, <2>1, CoversRunIs, CoversRunNext
<1>4. QED
  BY <1>1, <1>2, <1>3, OnlyFinishSucceeds

-----------------------------------------------------------------------------
(* What a run that fails its integrity check has published.                *)

LEMMA OnlyGateFindsFailure ==
  ASSUME [Next]_vars
  PROVE  CheckGate \/ status' # "integrity" \/ UNCHANGED <<status, flags, final, life>>
<1>1. ASSUME status \in Working, UNCHANGED status PROVE status' # "integrity"
  BY <1>1 DEF Working
<1>2. ASSUME Running \/ Deferred PROVE status \in Working
  BY <1>2 DEF Running, Deferred, Working
<1>3. CASE Do \/ FailUnseen \/ LoseRows \/ Row \/ AppendResults
  BY <1>1, <1>2, <1>3 DEF Do, FailUnseen, LoseRows, Row, AppendResults, Advance
<1>4. CASE Fail \/ Crash \/ Panicked \/ Finish
  BY <1>4 DEF Fail, Abort, Crash, Panicked, Finish, End
<1>5. CASE printTable \/ Writer
  <2>1. status \in Working /\ UNCHANGED status
    BY <1>2, <1>5 DEF printTable, Writer, Advance
  <2>2. QED
    BY <1>1, <2>1
<1>6. CASE UNCHANGED vars \/ \E p \in DOMAIN stores : Background(p)
  BY <1>6 DEF vars, hvars, wvars, Background
<1>7. CASE \E f \in Flags : Launch(f)
  BY <1>7 DEF Launch
<1>8. QED
  BY <1>3, <1>4, <1>5, <1>6, <1>7 DEF Next, Works

\* The check comes after the run has been published.
LEMMA GateComesLast ==
  ASSUME HTypes, Publishes, CheckGate, Harness, flags.root
  PROVE  wid = flags.id /\ Whole(final[wid]) /\ final[wid].results = Content
<1>1. Running /\ Current.op = "gate"
  BY DEF CheckGate
<1>2. Current = Scripts[flags][pc] /\ status = "running"
  BY <1>1, MainCall
<1>3. PICK g : PublishTrace(flags, Scripts[flags], g) /\ InPublish(g[pc])
  BY <1>2 DEF Publishes
<1>4. PICK a, b : a = g[pc] /\ b = g[pc + 1]
  OBVIOUS
<1>5. <<a, Current, b>> \in Publishing(flags) /\ InPublish(a)
  BY <1>1, <1>2, <1>3, <1>4, CurrentCall DEF PublishTrace
<1>6. PublishMove(flags, a, Current, b)
  BY <1>5 DEF Publishing
<1>7. a = "published"
  BY <1>1, <1>6 DEF PublishMove
<1>8. QED
  BY <1>5, <1>7 DEF InPublish

\* A directory d with all of the run of writer n, which has failed the check.
FailedRun(d, n) == Whole(d) /\ d.results.life = n /\ Fails(d.results.lines)

LEMMA FailedRunNext ==
  ASSUME UNCHANGED <<flags, final, life>>, FailedRun(final[flags.id], life)
  PROVE  FailuresArePublished'
<1>1. PICK d : d = final[flags.id] /\ d = (final[flags.id])'
  OBVIOUS
<1>2. FailedRun(d, life')
  BY <1>1
<1>3. FailedRun(final'[flags'.id], life')
  BY <1>1, <1>2
<1>4. QED
  BY <1>3 DEF FailuresArePublished, FailedRun, Whole, Fails

LEMMA NextFailuresArePublished ==
  ASSUME HTypes, Publishes, FailuresArePublished, [Next]_vars
  PROVE  FailuresArePublished'
<1>1. CASE CheckGate /\ status' = "integrity"
  <2>1. status = "running"
    BY <1>1 DEF CheckGate, Running
  <2>2. End("integrity") /\ (IF flags.root THEN HasIntegrityFailure ELSE hasIntegrityFail)
    BY <1>1, <2>1 DEF CheckGate, Advance
  <2>3. UNCHANGED <<flags, final, life>>
    BY <2>2 DEF End, Stop, Goto, wvars
  <2>4. SUFFICES ASSUME Harness, flags.root PROVE FailuresArePublished'
    BY <2>3 DEF FailuresArePublished, Harness
  <2>5. Whole(final[flags.id]) /\ final[flags.id].results = Content
    BY <1>1, <2>4, GateComesLast
  <2>6. Content.life = life /\ Content.lines = wlines /\ Fails(wlines)
    BY <2>2, <2>4 DEF Content, HasIntegrityFailure
  <2>7. FailedRun(final[flags.id], life)
    BY <2>5, <2>6 DEF FailedRun
  <2>8. QED
    BY <2>3, <2>7, FailedRunNext
<1>2. CASE status' # "integrity"
  BY <1>2 DEF FailuresArePublished
<1>3. CASE UNCHANGED <<status, flags, final, life>>
  <2>1. SUFFICES ASSUME status = "integrity", Harness, flags.root PROVE FailuresArePublished'
    BY <1>3 DEF FailuresArePublished, Harness
  <2>2. FailedRun(final[flags.id], life)
    BY <2>1 DEF FailuresArePublished, FailedRun
  <2>3. QED
    BY <1>3, <2>2, FailedRunNext
<1>4. QED
  BY <1>1, <1>2, <1>3, OnlyGateFindsFailure
=============================================================================
