-------------------------- MODULE BenchScriptProofs --------------------------
(* Proofs about the scripts of the benchmark programs, for any flags: what *)
(* their calls have in common, and in which order they come.               *)
EXTENDS BenchTraces, TLAPS

\* Steps that name no prover are for Zenon.
USE ZenonT(60)

Plain(f) == {c \in Allowed(f) : NoDurableRow(c) /\ ~Batched(c)}

\* What is counted in a part of a script is counted in the whole.
LEMMA CountedSame ==
  ASSUME NEW f, NEW s, NEW t, NEW n \in Nat, Len(s) \in Nat, Len(t) \in Nat, n + Len(s) <= Len(t),
         \A j \in 1 .. Len(s) : t[n + j] = s[j], NEW i \in 1 .. Len(s), Counted(f, s, i)
  PROVE  Counted(f, t, n + i)
<1>1. t[n + i] = s[i]
  OBVIOUS
<1>2. ASSUME NEW a \in 1 .. Len(s), NEW b \in 1 .. Len(s), NEW k, Window(s, i, a, b, k)
      PROVE  n + a \in 1 .. Len(t) /\ n + b \in 1 .. Len(t) /\ Window(t, n + i, n + a, n + b, k)
  <2>1. /\ k \in Nat /\ a <= b /\ b + k < i
        /\ s[a].op \in {"open", "row"} /\ s[a].at = s[i].at /\ s[a].err = "exit"
    BY <1>2 DEF Window
  <2>2. /\ n + a \in 1 .. Len(t) /\ n + b \in 1 .. Len(t) /\ n + a <= n + b /\ (n + b) + k < n + i
        /\ t[n + a] = s[a]
    BY <2>1, SMT
  <2>3. ASSUME NEW j \in (n + a) + 1 .. (n + i) - 1
        PROVE  IF j \in (n + b) + 1 .. (n + b) + k
               THEN t[j].op \in {"put", "batch", "commit"} /\ t[j].at = t[n + i].at /\ t[j].err = "exit"
               ELSE t[j].op \in QuietOps
    <3>1. j - n \in a + 1 .. i - 1 /\ j - n \in 1 .. Len(s) /\ n + (j - n) = j
      BY <2>1, SMT
    <3>2. t[j] = s[j - n]
      BY <3>1
    <3>3. j \in (n + b) + 1 .. (n + b) + k <=> j - n \in b + 1 .. b + k
      BY <2>1, <3>1, SMT
    <3>4. IF j - n \in b + 1 .. b + k
          THEN s[j - n].op \in {"put", "batch", "commit"} /\ s[j - n].at = s[i].at /\ s[j - n].err = "exit"
          ELSE s[j - n].op \in QuietOps
      BY <1>2, <3>1 DEF Window
    <3>5. QED
      BY <1>1, <3>2, <3>3, <3>4, ZenonT(60)
  <2>4. QED
    BY <1>1, <2>1, <2>2, <2>3 DEF Window
<1>3. QED
  BY <1>1, <1>2, ZenonT(60) DEF Counted

\* Good scripts can be put one after the other.
LEMMA GoodConcat ==
  ASSUME NEW f, NEW a \in Good(f), NEW b \in Good(f)
  PROVE  a \o b \in Good(f)
<1> DEFINE S == Allowed(f)
<1>1. a \in Seq(S) /\ b \in Seq(S)
  BY DEF Good
<1> HIDE DEF S
<1>2. a \o b \in Seq(S) /\ Len(a \o b) = Len(a) + Len(b) /\ Len(a) \in Nat /\ Len(b) \in Nat
  BY <1>1, SMT
<1>3. \A i \in 1 .. Len(a) : (a \o b)[i] = a[i]
  BY <1>1, SMT
<1>4. \A i \in 1 .. Len(b) : (a \o b)[Len(a) + i] = b[i]
  BY <1>1, SMT
<1> DEFINE t == a \o b
<1>5. ASSUME NEW i \in 1 .. Len(a) PROVE GoodAt(f, t, i)
  <2>1. NoDurableRow(a[i]) \/ Flushed(a, i)
    BY DEF Good, GoodAt
  <2>2. /\ i > 1 => i - 1 \in 1 .. Len(a)
        /\ i > 2 => i - 2 \in 1 .. Len(a)
    BY <1>2, SMT
  <2>3. NoDurableRow(t[i]) \/ Flushed(t, i)
    BY <2>1, <2>2, <1>3, SMT DEF Flushed
  <2>4. ASSUME Batched(t[i]) PROVE Counted(f, t, i)
    <3>1. Counted(f, a, i)
      BY <1>3, <2>4 DEF Good, GoodAt
    <3>2. 0 \in Nat /\ 0 + Len(a) <= Len(t) /\ \A j \in 1 .. Len(a) : t[0 + j] = a[j]
      BY <1>2, <1>3, SMT
    <3>3. Len(t) \in Nat /\ Len(a) \in Nat
      BY <1>2, SMT
    <3> HIDE DEF t
    <3>4. Counted(f, t, 0 + i)
      BY <3>1, <3>2, <3>3, CountedSame, ZenonT(60)
    <3>5. QED
      BY <3>4, SMT
  <2>5. QED
    BY <2>3, <2>4, ZenonT(60) DEF GoodAt
<1>6. ASSUME NEW i \in 1 .. Len(b)
      PROVE  GoodAt(f, t, Len(a) + i)
  <2>1. NoDurableRow(b[i]) \/ Flushed(b, i)
    BY DEF Good, GoodAt
  <2>2. /\ i > 1 => i - 1 \in 1 .. Len(b) /\ Len(a) + i - 1 = Len(a) + (i - 1) /\ Len(a) + i > 1
        /\ i > 2 => i - 2 \in 1 .. Len(b) /\ Len(a) + i - 2 = Len(a) + (i - 2) /\ Len(a) + i > 2
    BY <1>2, SMT
  <2>3. /\ i > 1 => (a \o b)[Len(a) + i - 1] = b[i - 1]
        /\ i > 2 => (a \o b)[Len(a) + i - 2] = b[i - 2]
    BY <2>2, <1>4
  <2>4. (a \o b)[Len(a) + i] = b[i]
    BY <1>4
  <2>5. NoDurableRow(b[i]) => NoDurableRow(t[Len(a) + i])
    BY <2>4
  <2>6. Flushed(b, i) => Flushed(t, Len(a) + i)
    BY <2>2, <2>3, <2>4, SMT DEF Flushed
  <2>7. NoDurableRow(t[Len(a) + i]) \/ Flushed(t, Len(a) + i)
    BY <2>1, <2>5, <2>6, ZenonT(60)
  <2>8. ASSUME Batched(t[Len(a) + i]) PROVE Counted(f, t, Len(a) + i)
    <3>1. Counted(f, b, i)
      BY <2>4, <2>8 DEF Good, GoodAt
    <3>2. Len(a) \in Nat /\ Len(a) + Len(b) <= Len(t) /\ \A j \in 1 .. Len(b) : t[Len(a) + j] = b[j]
      BY <1>2, <1>4, SMT
    <3>3. Len(t) \in Nat /\ Len(b) \in Nat
      BY <1>2, SMT
    <3> HIDE DEF t
    <3>4. QED
      BY <3>1, <3>2, <3>3, CountedSame, ZenonT(60)
  <2>9. QED
    BY <2>7, <2>8, ZenonT(60) DEF GoodAt
<1>7. ASSUME NEW i \in 1 .. Len(a \o b) PROVE GoodAt(f, t, i)
  <2>1. CASE i \in 1 .. Len(a)
    BY <1>5, <2>1
  <2>2. CASE i \notin 1 .. Len(a)
    <3>1. i - Len(a) \in 1 .. Len(b) /\ Len(a) + (i - Len(a)) = i
      BY <1>2, <2>2, SMT
    <3>2. QED
      BY <1>6, <3>1
  <2>3. QED
    BY <2>1, <2>2
<1>8. QED
  BY <1>2, <1>7, ZenonT(60) DEF Good, S

\* Calls that no durability depends on make a good script.
LEMMA GoodPlain ==
  ASSUME NEW f, NEW s \in Seq(Plain(f))
  PROVE  s \in Good(f)
<1>1. s \in Seq(Allowed(f)) /\ \A i \in 1 .. Len(s) : NoDurableRow(s[i]) /\ ~Batched(s[i])
  BY SMT DEF Plain
<1>2. QED
  BY <1>1 DEF Good, GoodAt

\* A loop of calls.
LEMMA PlainLoop ==
  ASSUME NEW f, NEW n \in Nat, NEW s, s \in [1 .. n -> Plain(f)]
  PROVE  s \in Seq(Plain(f)) /\ s \in Good(f)
<1>1. s \in Seq(Plain(f))
  BY SMT
<1>2. QED
  BY <1>1, GoodPlain

LEMMA PutsGood ==
  ASSUME NEW f, NEW op \in {"put", "commit"}, NEW at \in Paths, NEW key \in Keys, NEW n \in Nat
  PROVE  Puts(op, at, key, n) \in Seq(Plain(f)) /\ Puts(op, at, key, n) \in Good(f)
<1>1. \A i \in 1 .. n : Write(op, at, key, 1, i) \in Plain(f)
  BY SMT DEF Write, Plain, Allowed, CallSet, WriteCalls, Errs, NoDurableRow, Batched, WriterOps
<1>2. QED
  BY <1>1, PlainLoop DEF Puts

LEMMA GetsGood ==
  ASSUME NEW f, NEW at \in Paths, NEW key \in Keys, NEW keys \in Nat, NEW gets \in Nat
  PROVE  Gets(at, key, keys, gets) \in Good(f)
<1>1. CASE gets > 0 /\ keys = 0
  <2>1. Call("divide_by_zero", at, "panic") \in Plain(f)
    BY DEF Call, Plain, Allowed, CallSet, SimpleCalls, PlainOps, Errs, NoDurableRow, Batched, WriterOps
  <2>2. <<Call("divide_by_zero", at, "panic")>> \in Seq(Plain(f))
    BY <2>1, SMT
  <2>3. QED
    BY <1>1, <2>2, GoodPlain, ZenonT(60) DEF Gets
<1>2. CASE ~(gets > 0 /\ keys = 0)
  <2>1. ASSUME NEW i \in 1 .. gets PROVE Read("get", at, key, (i - 1) % keys) \in Plain(f)
    <3>1. (i - 1) % keys \in Int
      BY <1>2, SMT
    <3>2. QED
      BY <3>1 DEF Read, Plain, Allowed, CallSet, ReadCalls, Errs, NoDurableRow, Batched, WriterOps
  <2>2. QED
    BY <1>2, <2>1, PlainLoop DEF Gets
<1>3. QED
  BY <1>1, <1>2

LEMMA BatchesGood ==
  ASSUME NEW f, f.batch \in Nat, NEW at \in Paths, NEW n \in Nat
  PROVE  batchPutBytesChunked(at, n, f) \in Seq(Plain(f)) /\ batchPutBytesChunked(at, n, f) \in Good(f)
<1> DEFINE step == resolveBatchPutSize(n, BatchPutSize(f))
           Size(i) == IF (i + 1) * step <= n THEN step ELSE n - i * step
           count == (n + step - 1) \div step
<1>1. CASE n = 0
  <2>1. <<>> \in Seq(Plain(f))
    BY SMT
  <2>2. QED
    BY <1>1, <2>1, GoodPlain, ZenonT(60) DEF batchPutBytesChunked
<1>2. CASE n # 0
  <2>1. step \in Nat /\ step > 0
    BY <1>2, SMT DEF resolveBatchPutSize, BatchPutSize
  <2> HIDE DEF step
  <2>2. count \in Nat
    BY <2>1, SMT
  <2>3. ASSUME NEW i \in 1 .. count
        PROVE  Write("batch", at, "chunk", Size(i - 1), (i - 1) * step + Size(i - 1)) \in Plain(f)
    <3>1. Size(i - 1) \in Int /\ (i - 1) * step + Size(i - 1) \in Int
      BY <2>1, <2>2, SMT
    <3> HIDE DEF Size
    <3>2. QED
      BY <3>1 DEF Write, Plain, Allowed, CallSet, WriteCalls, Keys, Errs, NoDurableRow, Batched, WriterOps
  <2>4. [i \in 1 .. count |-> Write("batch", at, "chunk", Size(i - 1), (i - 1) * step + Size(i - 1))]
            \in [1 .. count -> Plain(f)]
    BY <2>3
  <2>5. batchPutBytesChunked(at, n, f)
           = [i \in 1 .. count |-> Write("batch", at, "chunk", Size(i - 1), (i - 1) * step + Size(i - 1))]
    BY <1>2 DEF batchPutBytesChunked, step
  <2>6. QED
    BY <2>2, <2>4, <2>5, PlainLoop
<1>3. QED
  BY <1>1, <1>2

LEMMA SqlitePutGood ==
  ASSUME NEW f, NEW at \in Paths, NEW perCommit, NEW key \in Keys, NEW n \in Nat
  PROVE  sqliteBatchPut(at, perCommit, key, n) \in Seq(Plain(f))
         /\ sqliteBatchPut(at, perCommit, key, n) \in Good(f)
<1>1. CASE perCommit
  BY <1>1, PutsGood DEF sqliteBatchPut
<1>2. CASE ~perCommit
  <2> DEFINE first == <<Call("begin", at, "exit"), Call("prepare", at, "exit")>>
             inserts == [i \in 1 .. n |-> Call("insert", at, "exit")]
             last == <<Write("commit", at, key, n, n)>>
  <2>1. first \in Seq(Plain(f))
    BY SMT DEF Call, Plain, Allowed, CallSet, SimpleCalls, PlainOps, Errs, NoDurableRow, Batched, WriterOps
  <2>2. inserts \in Seq(Plain(f))
    <3>1. Call("insert", at, "exit") \in Plain(f)
      BY DEF Call, Plain, Allowed, CallSet, SimpleCalls, PlainOps, Errs, NoDurableRow, Batched, WriterOps
    <3>2. QED
      BY <3>1, PlainLoop
  <2>3. last \in Seq(Plain(f))
    BY SMT DEF Write, Plain, Allowed, CallSet, WriteCalls, Keys, Errs, NoDurableRow, Batched, WriterOps
  <2>4. sqliteBatchPut(at, perCommit, key, n) = first \o inserts \o last
    BY <1>2 DEF sqliteBatchPut
  <2> HIDE DEF first, inserts, last
  <2>5. first \o inserts \o last \in Seq(Plain(f))
    BY <2>1, <2>2, <2>3, SMT
  <2>6. QED
    BY <2>4, <2>5, GoodPlain, ZenonT(60)
<1>3. QED
  BY <1>1, <1>2

\* Other error handling makes no difference.
LEMMA OnErrorPlain ==
  ASSUME NEW f, NEW err \in Errs, NEW s \in Seq(Plain(f))
  PROVE  OnError(err, s) \in Seq(Plain(f)) /\ OnError(err, s) \in Good(f)
<1>1. ASSUME NEW c \in Plain(f) PROVE [c EXCEPT !.err = err] \in Plain(f)
  <2> DEFINE d == [c EXCEPT !.err = err]
  <2>1. d \in CallSet /\ d.op = c.op
    <3>1. CASE c \in SimpleCalls
      BY <3>1 DEF CallSet, SimpleCalls
    <3>2. CASE c \in OpenCalls
      BY <3>2 DEF CallSet, OpenCalls
    <3>3. CASE c \in WriteCalls
      BY <3>3 DEF CallSet, WriteCalls
    <3>4. CASE c \in ReadCalls \cup CountCalls
      BY <3>4 DEF CallSet, ReadCalls, CountCalls
    <3>5. CASE c \in DeferCalls
      BY <3>5 DEF CallSet, DeferCalls
    <3>6. CASE c \in RowCalls
      BY <3>6 DEF CallSet, RowCalls
    <3>7. QED
      BY <3>1, <3>2, <3>3, <3>4, <3>5, <3>6 DEF Plain, Allowed, CallSet
  <2>2. c.op = "open" => d.lazy = c.lazy /\ d.at = c.at
    BY DEF Plain, Allowed, CallSet, SimpleCalls, OpenCalls, WriteCalls, ReadCalls, CountCalls, DeferCalls,
           RowCalls, PlainOps, WriterOps
  <2>3. c.op = "row" => d.phase = c.phase /\ d.profile = c.profile /\ d.at = c.at
    BY DEF Plain, Allowed, CallSet, SimpleCalls, OpenCalls, WriteCalls, ReadCalls, CountCalls, DeferCalls,
           RowCalls, PlainOps, WriterOps
  <2> HIDE DEF d
  <2>4. d \in Plain(f)
    BY <2>1, <2>2, <2>3 DEF Plain, Allowed, NoDurableRow, Batched
  <2>5. QED
    BY <2>4 DEF d
<1>2. Len(s) \in Nat /\ DOMAIN s = 1 .. Len(s) /\ \A i \in 1 .. Len(s) : s[i] \in Plain(f)
  BY SMT
<1>3. OnError(err, s) \in [1 .. Len(s) -> Plain(f)]
  BY <1>1, <1>2 DEF OnError
<1>4. QED
  BY <1>2, <1>3, PlainLoop

\* Single calls.
LEMMA SimplePlain ==
  ASSUME NEW f, NEW op \in PlainOps, NEW at \in Paths, NEW err \in Errs
  PROVE  Call(op, at, err) \in Plain(f)
  BY DEF Call, Plain, Allowed, CallSet, SimpleCalls, PlainOps, NoDurableRow, Batched, WriterOps

LEMMA StorePlain ==
  ASSUME NEW f, NEW at \in Paths
  PROVE  /\ Close(at) \in Plain(f) /\ FlushWAL(at) \in Plain(f) /\ SetBulkImport(at) \in Plain(f)
         /\ RemoveAll(at) \in Plain(f) /\ Defer(Close(at)) \in Plain(f) /\ Defer(RemoveAll(at)) \in Plain(f)
         /\ Call("create_table", at, "exit") \in Plain(f) /\ Call("query", at, "exit") \in Plain(f)
         /\ Call("mkdir", at, "exit") \in Plain(f)
<1>1. /\ Close(at) \in Plain(f) /\ FlushWAL(at) \in Plain(f) /\ SetBulkImport(at) \in Plain(f)
      /\ RemoveAll(at) \in Plain(f)
  BY SimplePlain DEF Close, FlushWAL, SetBulkImport, RemoveAll, PlainOps, Errs
<1>2. Defer(Close(at)) \in Plain(f) /\ Defer(RemoveAll(at)) \in Plain(f)
  BY DEF Defer, Close, RemoveAll, Call, Plain, Allowed, CallSet, DeferCalls, Put_Off, Errs, NoDurableRow, Batched,
         WriterOps
<1>3. /\ Call("create_table", at, "exit") \in Plain(f) /\ Call("query", at, "exit") \in Plain(f)
      /\ Call("mkdir", at, "exit") \in Plain(f)
  BY SimplePlain DEF PlainOps, Errs
<1>4. QED
  BY <1>1, <1>2, <1>3

Options == [lazy : BOOLEAN, max : Nat]

LEMMA OpenPlain ==
  ASSUME NEW f, NEW at \in Paths, NEW opts \in Options, opts.lazy <=> at \in LazyPaths
  PROVE  Open(at, opts) \in Plain(f)
  BY ProgramsAssumption DEF Options, Open, Plain, Allowed, CallSet, OpenCalls, Errs, NoDurableRow, Batched, WriterOps

LEMMA OpenDBPlain ==
  ASSUME NEW f, NEW at \in Paths, NEW lazy \in BOOLEAN, lazy <=> at \in LazyPaths
  PROVE  OpenDB(at, lazy) \in Plain(f)
  BY DEF OpenDB, Plain, Allowed, CallSet, OpenCalls, Errs, NoDurableRow, Batched, WriterOps

LEMMA ReadPlain ==
  ASSUME NEW f, NEW at \in Paths, NEW key \in Keys
  PROVE  Read("scan", at, key, 0) \in Plain(f) /\ Read("scan_more", at, key, 0) \in Plain(f)
  BY SMT DEF Read, Plain, Allowed, CallSet, ReadCalls, Errs, NoDurableRow, Batched, WriterOps

LEMMA RowAllowed ==
  ASSUME NEW f, f.program = "embed_vs_sqlite", NEW phase \in RowPhases, NEW profile \in Known,
         NEW metric \in Metrics, NEW at \in Paths
  PROVE  /\ result(phase, profile, at) \in Allowed(f) /\ metricResult(phase, profile, at, metric) \in Allowed(f)
         /\ /\ phase \notin DurablePhases \/ profile = "sqlite_wal_normal" \/ at \notin LazyPaths
            /\ phase # "chunk_batch_put_batched" \/ profile = "sqlite_wal_normal"
            => result(phase, profile, at) \in Plain(f) /\ metricResult(phase, profile, at, metric) \in Plain(f)
<1>1. result(phase, profile, at) \in RowCalls /\ metricResult(phase, profile, at, metric) \in RowCalls
  BY DEF result, metricResult, RowCalls, Errs
<1>2. result(phase, profile, at) \in Allowed(f) /\ metricResult(phase, profile, at, metric) \in Allowed(f)
  BY <1>1 DEF Allowed, CallSet, RowCalls
<1>3. QED
  BY <1>2 DEF Plain, NoDurableRow, Batched, result, metricResult

LEMMA OptionsKept ==
  ASSUME NEW f, f.batch \in Nat, NEW base \in Options, NEW n \in Nat
  PROVE  openOptsForProfile(base, n, f) \in Options /\ openOptsForProfile(base, n, f).lazy = base.lazy
<1> DEFINE need == resolveBatchPutSize(n, BatchPutSize(f))
<1>1. need \in Nat
  BY DEF resolveBatchPutSize, BatchPutSize
<1> HIDE DEF need
<1>2. openOptsForProfile(base, n, f)
        = IF need <= engineMaxBatchDefault /\ base.max = 0 THEN base
          ELSE [base EXCEPT !.max = IF @ < need THEN need ELSE @]
  BY DEF openOptsForProfile, need
<1>3. QED
  BY <1>1, <1>2 DEF Options

LEMMA KnownIs ==
  Known = {"f4kvs_wal_segment", "f4kvs_wal_frame", "f4kvs_wal_indexed", "f4kvs_group_commit_1ms",
           "f4kvs_group_commit_10ms", "f4kvs_group_commit_idle", "sqlite_wal_full", "sqlite_wal_normal"}
<1>1. DOMAIN knownProfiles = {1, 2, 3, 4, 5, 6, 7, 8}
  BY SMT DEF knownProfiles
<1>2. QED
  BY <1>1, SMT DEF Known, knownProfiles

LEMMA AppendToDir ==
  ASSUME NEW p \in PathNames, NEW x \in PathNames
  PROVE  Append(Dir(p), x) = <<"tmp", p, x>>
<1> DEFINE a == <<"tmp", p>>
           b == <<"tmp", p, x>>
<1>0. "tmp" \in PathNames
  BY DEF PathNames
<1>1. a \in Seq(PathNames) /\ b \in Seq(PathNames) /\ Len(a) = 2 /\ Len(b) = 3
  BY <1>0, SMT
<1>2. /\ Append(a, x) \in Seq(PathNames) /\ Len(Append(a, x)) = 3
      /\ \A i \in 1 .. 2 : Append(a, x)[i] = a[i]
  BY <1>1, SMT
<1>3. Append(a, x)[3] = x
  BY <1>1, SMT
<1>4. Append(a, x)[1] = b[1] /\ Append(a, x)[2] = b[2] /\ Append(a, x)[3] = b[3]
  BY <1>2, <1>3, SMT
<1>5. \A i \in 1 .. 3 : Append(a, x)[i] = b[i]
  BY <1>4, SMT
<1>6. Append(a, x) = b
  <2> HIDE DEF a, b
  <2>1. QED
    BY <1>1, <1>2, <1>5, SMT
<1>7. QED
  BY <1>6 DEF Dir

\* Which stores are lazy.
LEMMA LazyFacts ==
  /\ \A p \in Known \ SQLite :
        /\ OptionsOf(p).lazy <=> Dir(p) \in LazyPaths
        /\ OptionsOf(p).lazy <=> Append(Dir(p), "chunk_durable") \in LazyPaths
        /\ OptionsOf(p).lazy <=> RestartDir(p) \in LazyPaths
        /\ Append(Dir(p), "chunk_batched") \notin LazyPaths
        /\ Append(Dir(p), "chunk_bulk_import") \notin LazyPaths
  /\ \A p \in SQLite :
        /\ Relaxed(p) <=> Dir(p) \in LazyPaths
        /\ Relaxed(p) <=> RestartDir(p) \in LazyPaths
        /\ Relaxed(p) <=> <<"tmp", "chunk_batched", p>> \in LazyPaths
  /\ Tmp \notin LazyPaths /\ <<"dir">> \notin LazyPaths /\ <<"tmp-batch">> \notin LazyPaths
  /\ Dir("wal_full") \notin LazyPaths /\ Dir("delete_full") \notin LazyPaths
  /\ Dir("wal_normal") \in LazyPaths
<1>1. \A p \in Known \ SQLite :
         /\ p \in PathNames
         /\ \/ OptionsOf(p).lazy /\ p \in {"f4kvs_group_commit_1ms", "f4kvs_group_commit_10ms",
                                        "f4kvs_group_commit_idle"}
            \/ ~OptionsOf(p).lazy /\ p \in {"f4kvs_wal_segment", "f4kvs_wal_frame", "f4kvs_wal_indexed"}
  BY KnownIs DEF SQLite, OptionsOf, Nil, GroupCommit, PathNames
<1>2. \A p, x \in PathNames : Append(Dir(p), x) = <<"tmp", p, x>>
  BY AppendToDir
<1>3. LazyPaths =
        {<<"tmp", "f4kvs_group_commit_1ms">>, <<"tmp", "f4kvs_group_commit_10ms">>,
         <<"tmp", "f4kvs_group_commit_idle">>, <<"tmp", "sqlite_wal_normal">>, <<"tmp", "wal_normal">>,
         <<"tmp", "f4kvs_group_commit_1ms", "chunk_durable">>,
         <<"tmp", "f4kvs_group_commit_10ms", "chunk_durable">>,
         <<"tmp", "f4kvs_group_commit_idle", "chunk_durable">>,
         <<"tmp", "restart", "f4kvs_group_commit_1ms">>, <<"tmp", "restart", "f4kvs_group_commit_10ms">>,
         <<"tmp", "restart", "f4kvs_group_commit_idle">>, <<"tmp", "restart", "sqlite_wal_normal">>,
         <<"tmp", "chunk_batched", "sqlite_wal_normal">>}
  BY <1>2, SMT DEF LazyPaths, Lazy_Dirs, Dir, RestartDir, PathNames
<1>4. ASSUME NEW p \in Known \ SQLite
      PROVE  /\ OptionsOf(p).lazy <=> Dir(p) \in LazyPaths
             /\ OptionsOf(p).lazy <=> Append(Dir(p), "chunk_durable") \in LazyPaths
             /\ OptionsOf(p).lazy <=> RestartDir(p) \in LazyPaths
             /\ Append(Dir(p), "chunk_batched") \notin LazyPaths
             /\ Append(Dir(p), "chunk_bulk_import") \notin LazyPaths
  <2>1. p \in PathNames
    BY <1>1
  <2>2. QED
    BY <1>1, <1>2, <1>3, <2>1, SMT DEF Dir, RestartDir, PathNames
<1>5. ASSUME NEW p \in SQLite
      PROVE  /\ Relaxed(p) <=> Dir(p) \in LazyPaths
             /\ Relaxed(p) <=> RestartDir(p) \in LazyPaths
             /\ Relaxed(p) <=> <<"tmp", "chunk_batched", p>> \in LazyPaths
  BY <1>3 DEF Dir, RestartDir, Relaxed, SQLite
<1>6. /\ Tmp \notin LazyPaths /\ <<"dir">> \notin LazyPaths /\ <<"tmp-batch">> \notin LazyPaths
      /\ Dir("wal_full") \notin LazyPaths /\ Dir("delete_full") \notin LazyPaths
      /\ Dir("wal_normal") \in LazyPaths
  BY <1>3 DEF Dir, Tmp
<1>7. QED
  BY <1>4, <1>5, <1>6

LEMMA ReturnPlain ==
  ASSUME NEW f, NEW n \in Nat
  PROVE  Return(n) \in Seq(Plain(f)) /\ Return(n) \in Good(f)
<1>1. <<>> \in Paths
  BY SMT DEF Paths
<1>2. Call("return", <<>>, "ignore") \in Plain(f)
  BY <1>1, SimplePlain DEF PlainOps, Errs
<1>3. QED
  BY <1>2, PlainLoop DEF Return

\* A part of a script that is left out.
LEMMA WhenGood ==
  ASSUME NEW f, NEW b, NEW s, b => s \in Good(f)
  PROVE  When(b, s) \in Good(f)
<1>1. <<>> \in Good(f)
  <2>1. <<>> \in Seq(Plain(f))
    BY SMT
  <2>2. QED
    BY <2>1, GoodPlain, ZenonT(60)
<1>2. QED
  BY <1>1 DEF When

LEMMA WhenPlain ==
  ASSUME NEW f, NEW b, NEW s, b => s \in Seq(Plain(f))
  PROVE  When(b, s) \in Seq(Plain(f)) /\ When(b, s) \in Good(f)
<1>1. When(b, s) \in Seq(Plain(f))
  BY SMT DEF When
<1>2. QED
  BY <1>1, GoodPlain

-----------------------------------------------------------------------------
(* The units of batched ingest.                                            *)

\* A slice that is no smaller than all there is is the only one.
LEMMA OneSlice ==
  ASSUME NEW n \in Nat, NEW size \in Nat, 0 < n, n <= size
  PROVE  (n + size - 1) \div size = 1
<1> DEFINE q == (n + size - 1) \div size
           r == (n + size - 1) % size
<1>1. q \in Int /\ r \in 0 .. size - 1 /\ n + size - 1 = size * q + r
  BY SMT
<1> HIDE DEF q, r
<1>2. CASE q <= 0
  <2>1. size * q <= 0
    BY <1>1, <1>2, SMT
  <2>2. QED
    BY <1>1, <2>1, SMT
<1>3. CASE q >= 2
  <2>1. size * q >= size * 2
    BY <1>1, <1>3, SMT
  <2>2. QED
    BY <1>1, <2>1, SMT
<1>4. QED
  BY <1>1, <1>2, <1>3, SMT DEF q

Writes(s, at) ==
    \A i \in 1 .. Len(s) : s[i].op \in {"put", "batch", "commit"} /\ s[i].at = at /\ s[i].err = "exit"

\* batchPutBytesChunked makes as many calls as it should.
LEMMA BatchUnits ==
  ASSUME NEW f, f.batch \in Nat, f.chunks \in Nat, NEW at, NEW profile, profile # "sqlite_wal_full"
  PROVE  /\ f.chunks > 0 => Len(batchPutBytesChunked(at, f.chunks, f)) = UnitsOf(f, profile)
         /\ Writes(batchPutBytesChunked(at, f.chunks, f), at)
<1> DEFINE n == f.chunks
           size == BatchPutSize(f)
           step == resolveBatchPutSize(n, size)
           Size(i) == IF (i + 1) * step <= n THEN step ELSE n - i * step
           count == (n + step - 1) \div step
           call(i) == Write("batch", at, "chunk", Size(i - 1), (i - 1) * step + Size(i - 1))
           s == batchPutBytesChunked(at, f.chunks, f)
<1>1. CASE n = 0
  <2>1. s = <<>>
    BY <1>1, ZenonT(60) DEF batchPutBytesChunked
  <2> HIDE DEF s
  <2>2. QED
    BY <1>1, <2>1, SMT DEF s, Writes
<1>2. CASE n # 0
  <2>1. size \in Nat /\ step = (IF size = 0 \/ size >= n THEN n ELSE size) /\ step \in Nat /\ step > 0
    BY <1>2, SMT DEF resolveBatchPutSize, BatchPutSize
  <2>2. s = [i \in 1 .. count |-> call(i)]
    BY <1>2 DEF batchPutBytesChunked
  <2>3. UnitsOf(f, profile) = IF size = 0 THEN 1 ELSE (n + size - 1) \div size
    BY DEF UnitsOf
  <2>4. \A i : call(i).op = "batch" /\ call(i).at = at /\ call(i).err = "exit"
    BY DEF Write
  <2> HIDE DEF step, size, call, s
  <2>5. count = UnitsOf(f, profile)
    <3>1. CASE size = 0 \/ size >= n
      BY <1>2, <2>1, <2>3, <3>1, OneSlice, SMT
    <3>2. CASE ~(size = 0 \/ size >= n)
      BY <2>1, <2>3, <3>2
    <3>3. QED
      BY <3>1, <3>2
  <2>6. count \in Nat
    BY <2>1, SMT
  <2> HIDE DEF count
  <2>7. Len(s) = count /\ \A i \in 1 .. count : s[i] = call(i)
    BY <2>2, <2>6, SMT
  <2>8. QED
    BY <2>4, <2>5, <2>7 DEF s, Writes
<1>3. QED
  BY <1>1, <1>2

\* A row after the writes that it counts.
LEMMA WindowGood ==
  ASSUME NEW ids, NEW f \in EmbedFlags(ids), NEW at \in Paths, at \notin LazyPaths, NEW profile \in Known,
         NEW x \in Seq(Plain(f)), NEW w \in Seq(Plain(f)), NEW z \in Seq(Plain(f)),
         Len(x) > 0, x[1].op \in {"open", "row"}, x[1].at = at, x[1].err = "exit",
         \A i \in 2 .. Len(x) : x[i].op \in QuietOps,
         f.chunks > 0 => Len(w) = UnitsOf(f, profile),
         Writes(w, at),
         \A i \in 1 .. Len(z) : z[i].op \in QuietOps
  PROVE  x \o w \o z \o <<result("chunk_batch_put_batched", profile, at)>> \in Good(f)
<1> DEFINE row == result("chunk_batch_put_batched", profile, at)
           s == x \o w \o z
           t == s \o <<row>>
           n == Len(x) + Len(w) + Len(z)
<1>1. row \in Allowed(f) /\ NoDurableRow(row)
  <2>1. row \in Allowed(f)
    BY RowAllowed DEF EmbedFlags, Metrics, RowPhases
  <2>2. QED
    BY <2>1 DEF result, NoDurableRow
<1>2. row.at = at /\ row.profile = profile
  BY DEF result
<1> HIDE DEF row
<1>3. s \in Seq(Plain(f)) /\ Len(x) \in Nat /\ Len(w) \in Nat /\ Len(z) \in Nat /\ Len(s) = n
  BY SMT
<1>4. /\ \A i \in 1 .. Len(x) : s[i] = x[i]
      /\ \A i \in Len(x) + 1 .. Len(x) + Len(w) : s[i] = w[i - Len(x)]
      /\ \A i \in Len(x) + Len(w) + 1 .. n : s[i] = z[i - Len(x) - Len(w)]
  <2>1. x \o w \in Seq(Plain(f)) /\ Len(x \o w) = Len(x) + Len(w)
    BY SMT
  <2>2. /\ \A i \in 1 .. Len(x) : (x \o w)[i] = x[i]
        /\ \A i \in Len(x) + 1 .. Len(x) + Len(w) : (x \o w)[i] = w[i - Len(x)]
    BY SMT
  <2>3. \A i \in 1 .. Len(x) + Len(w) : ((x \o w) \o z)[i] = (x \o w)[i]
    BY <2>1, SMT
  <2>4. \A i \in Len(x) + Len(w) + 1 .. n : ((x \o w) \o z)[i] = z[i - (Len(x) + Len(w))]
    BY <2>1, SMT
  <2>5. \A i : i - (Len(x) + Len(w)) = i - Len(x) - Len(w) \/ i \notin Int
    BY SMT
  <2>6. \A i \in 1 .. Len(x) : i \in 1 .. Len(x) + Len(w)
    BY SMT
  <2>7. \A i \in Len(x) + 1 .. Len(x) + Len(w) : i \in 1 .. Len(x) + Len(w)
    BY SMT
  <2>8. \A i \in Len(x) + Len(w) + 1 .. n : i \in Int
    BY SMT
  <2>9. QED
    <3> HIDE DEF n
    <3>1. QED
      BY <2>2, <2>3, <2>4, <2>5, <2>6, <2>7, <2>8, ZenonT(60) DEF s
<1>5. s \in Seq(Allowed(f)) /\ \A i \in 1 .. n : NoDurableRow(s[i]) /\ ~Batched(s[i])
  BY <1>3, SMT DEF Plain
<1> HIDE DEF s, n
<1>6. /\ t \in Seq(Allowed(f)) /\ n \in Nat /\ Len(t) = n + 1 /\ t[n + 1] = row
      /\ \A i \in 1 .. n : t[i] = s[i]
  <2>1. n \in Nat /\ Len(s) = n
    BY <1>3, SMT DEF n
  <2>2. QED
    BY <1>1, <1>5, <2>1, SMT
<1> HIDE DEF t
<1>7. ASSUME f.chunks > 0 PROVE Window(t, n + 1, 1, Len(x), UnitsOf(f, profile))
  <2>1. UnitsOf(f, profile) = Len(w) /\ 1 \in 1 .. Len(x) /\ 1 \in 1 .. n
        /\ n = Len(x) + Len(w) + Len(z)
    BY <1>3, <1>7, SMT DEF n
  <2>2. t[1] = x[1]
    BY <1>4, <1>6, <2>1
  <2>3. ASSUME NEW j \in 1 + 1 .. (n + 1) - 1
        PROVE  IF j \in Len(x) + 1 .. Len(x) + Len(w)
               THEN t[j].op \in {"put", "batch", "commit"} /\ t[j].at = at /\ t[j].err = "exit"
               ELSE t[j].op \in QuietOps
    <3>1. j \in 1 .. n /\ t[j] = s[j]
      BY <1>6, SMTT(60)
    <3>2. CASE j <= Len(x)
      <4>1. j \in 2 .. Len(x) /\ j \in 1 .. Len(x) /\ j \notin Len(x) + 1 .. Len(x) + Len(w)
        BY <1>3, <3>1, <3>2, SMT
      <4>2. QED
        BY <1>4, <3>1, <4>1
    <3>3. CASE j \in Len(x) + 1 .. Len(x) + Len(w)
      <4>1. j - Len(x) \in 1 .. Len(w) /\ t[j] = w[j - Len(x)]
        BY <1>3, <1>4, <3>1, <3>3, SMT
      <4>2. QED
        BY <3>3, <4>1 DEF Writes
    <3>4. CASE j > Len(x) + Len(w)
      <4>1. j - Len(x) - Len(w) \in 1 .. Len(z) /\ j \in Len(x) + Len(w) + 1 .. n
            /\ j \notin Len(x) + 1 .. Len(x) + Len(w)
        BY <1>3, <2>1, <3>1, <3>4, SMT
      <4>2. QED
        BY <1>4, <3>1, <4>1
    <3>5. QED
      BY <1>3, <3>1, <3>2, <3>3, <3>4, SMT
  <2>4. Len(w) \in Nat /\ 1 <= Len(x) /\ Len(x) + Len(w) < n + 1
    BY <1>3, <2>1, SMT
  <2>5. QED
    BY <1>2, <1>6, <2>1, <2>2, <2>3, <2>4 DEF Window
<1>8. Counted(f, t, n + 1)
  <2>1. 1 \in 1 .. Len(t) /\ Len(x) \in 1 .. Len(t)
    BY <1>3, <1>6, SMT DEF n
  <2>2. QED
    BY <1>2, <1>6, <1>7, <2>1 DEF Counted
<1>9. \A i \in 1 .. Len(t) : GoodAt(f, t, i)
  <2>1. \A i \in 1 .. n : GoodAt(f, t, i)
    BY <1>5, <1>6, ZenonT(60) DEF GoodAt
  <2>2. GoodAt(f, t, n + 1)
    BY <1>1, <1>6, <1>8, ZenonT(60) DEF GoodAt
  <2>3. \A i \in 1 .. Len(t) : i \in 1 .. n \/ i = n + 1
    BY <1>6, SMT
  <2>4. QED
    BY <2>1, <2>2, <2>3, ZenonT(60)
<1>10. QED
  BY <1>6, <1>9, ZenonT(60) DEF Good, t, s, row

-----------------------------------------------------------------------------
(* The phases of an f4kvs profile.                                         *)

\* FlushWAL, and a row that relies on it.
LEMMA FlushThenRow ==
  ASSUME NEW ids, NEW f \in EmbedFlags(ids), NEW at \in Paths, NEW profile \in Known, NEW phase \in RowPhases,
         phase # "chunk_batch_put_batched"
  PROVE  /\ <<FlushWAL(at), result(phase, profile, at)>> \in Good(f)
         /\ <<FlushWAL(at), SetBulkImport(at), result(phase, profile, at)>> \in Good(f)
<1> DEFINE row == result(phase, profile, at)
           s == <<FlushWAL(at), row>>
           t == <<FlushWAL(at), SetBulkImport(at), row>>
<1>1. FlushWAL(at) \in Plain(f) /\ SetBulkImport(at) \in Plain(f)
  BY StorePlain
<1>2. row \in Allowed(f) /\ row.at = at /\ ~Batched(row)
  <2>1. row \in Allowed(f)
    BY RowAllowed DEF EmbedFlags, Metrics
  <2>2. QED
    BY <2>1 DEF result, Batched
<1>3. /\ FlushWAL(at) \in Allowed(f) /\ SetBulkImport(at) \in Allowed(f)
      /\ NoDurableRow(FlushWAL(at)) /\ NoDurableRow(SetBulkImport(at))
      /\ ~Batched(FlushWAL(at)) /\ ~Batched(SetBulkImport(at))
  BY <1>1 DEF Plain
<1> HIDE DEF row
<1>4. s \in Good(f)
  <2>1. s \in Seq(Allowed(f)) /\ Len(s) = 2 /\ s[1] = FlushWAL(at) /\ s[2] = row
    BY <1>2, <1>3, SMT
  <2>2. Flushed(s, 2)
    BY <2>1, <1>2, SMT DEF Flushed
  <2> HIDE DEF s
  <2>3. \A i \in 1 .. Len(s) : GoodAt(f, s, i)
    BY <2>1, <2>2, <1>2, <1>3, SMT DEF GoodAt
  <2>4. QED
    BY <2>1, <2>3, ZenonT(60) DEF Good
<1>5. t \in Good(f)
  <2>1. t \in Seq(Allowed(f)) /\ Len(t) = 3 /\ t[1] = FlushWAL(at) /\ t[2] = SetBulkImport(at) /\ t[3] = row
    BY <1>2, <1>3, SMT
  <2>2. Flushed(t, 3)
    BY <2>1, <1>2, SMT DEF Flushed
  <2> HIDE DEF t
  <2>3. \A i \in 1 .. Len(t) : GoodAt(f, t, i)
    BY <2>1, <2>2, <1>2, <1>3, SMT DEF GoodAt
  <2>4. QED
    BY <2>1, <2>3, ZenonT(60) DEF Good
<1>6. QED
  BY <1>4, <1>5 DEF row

LEMMA ChunkDurableGood ==
  ASSUME NEW ids, NEW f \in EmbedFlags(ids), NEW at, Append(at, "chunk_durable") \in Paths, NEW profile \in Known,
         NEW opts \in Options, opts.lazy <=> Append(at, "chunk_durable") \in LazyPaths
  PROVE  benchF4KVSChunkDurable(at, profile, opts, f) \in Good(f)
<1> DEFINE dir == Append(at, "chunk_durable")
           a == <<RemoveAll(dir), Open(dir, opts), Defer(Close(dir))>>
           b == Puts("put", dir, "chunk", f.chunks)
           c == <<FlushWAL(dir), result("chunk_batch_put_durable", profile, dir)>>
<1>1. a \in Good(f)
  <2>1. RemoveAll(dir) \in Plain(f) /\ Open(dir, opts) \in Plain(f) /\ Defer(Close(dir)) \in Plain(f)
    BY StorePlain, OpenPlain
  <2>2. a \in Seq(Plain(f))
    BY <2>1, SMT
  <2>3. QED
    BY <2>2, GoodPlain, ZenonT(60)
<1>2. b \in Good(f)
  BY PutsGood DEF EmbedFlags, Keys
<1>3. c \in Good(f)
  BY FlushThenRow DEF RowPhases
<1>4. Return(1) \in Good(f)
  BY ReturnPlain
<1>5. benchF4KVSChunkDurable(at, profile, opts, f) = a \o b \o c \o Return(1)
  BY DEF benchF4KVSChunkDurable
<1> HIDE DEF a, b, c
<1>6. QED
  BY <1>1, <1>2, <1>3, <1>4, <1>5, GoodConcat, SMT

LEMMA ChunkBatchPutGood ==
  ASSUME NEW ids, NEW f \in EmbedFlags(ids), NEW dir \in Paths, dir \notin LazyPaths, NEW profile \in Known,
         NEW bulk \in BOOLEAN, NEW phase \in RowPhases, phase # "chunk_batch_put_batched"
  PROVE  benchF4KVSChunkBatchPut(dir, profile, f, bulk, phase) \in Good(f)
<1> DEFINE opts == openOptsForProfile(Nil, f.chunks, f)
           a == <<Open(dir, opts), Defer(Close(dir))>>
           b == When(bulk, <<SetBulkImport(dir)>>)
           c == batchPutBytesChunked(dir, f.chunks, f)
           d == When(BatchPutSize(f) <= 0, <<FlushWAL(dir)>>)
           e == <<result(phase, profile, dir)>>
<1>0. f.chunks \in Nat /\ f.batch \in Nat /\ f.program = "embed_vs_sqlite"
  BY DEF EmbedFlags
<1>1. opts \in Options /\ opts.lazy = FALSE
  BY <1>0, OptionsKept, ZenonT(60) DEF Nil, Options
<1> HIDE DEF opts
<1>2. a \in Good(f)
  <2>1. Open(dir, opts) \in Plain(f) /\ Defer(Close(dir)) \in Plain(f)
    BY <1>1, StorePlain, OpenPlain
  <2>2. a \in Seq(Plain(f))
    BY <2>1, SMT
  <2>3. QED
    BY <2>2, GoodPlain, ZenonT(60)
<1>3. b \in Good(f) /\ d \in Good(f)
  <2>1. <<SetBulkImport(dir)>> \in Seq(Plain(f)) /\ <<FlushWAL(dir)>> \in Seq(Plain(f))
    BY StorePlain, SMT
  <2>2. QED
    BY <2>1, WhenPlain, ZenonT(60)
<1>4. c \in Good(f)
  BY <1>0, BatchesGood
<1>5. e \in Good(f)
  <2>1. result(phase, profile, dir) \in Plain(f)
    BY <1>0, RowAllowed DEF Metrics
  <2>2. e \in Seq(Plain(f))
    BY <2>1, SMT
  <2>3. QED
    BY <2>2, GoodPlain, ZenonT(60)
<1>6. Return(1) \in Good(f)
  BY ReturnPlain
<1>7. benchF4KVSChunkBatchPut(dir, profile, f, bulk, phase) = a \o b \o c \o d \o e \o Return(1)
  BY DEF benchF4KVSChunkBatchPut, opts
<1> HIDE DEF a, b, c, d, e
<1>8. QED
  BY <1>2, <1>3, <1>4, <1>5, <1>6, <1>7, GoodConcat, SMT

LEMMA ChunkBatchedGood ==
  ASSUME NEW ids, NEW f \in EmbedFlags(ids), NEW dir \in Paths, dir \notin LazyPaths,
         NEW profile \in Known \ SQLite
  PROVE  benchF4KVSChunkBatchPut(dir, profile, f, FALSE, "chunk_batch_put_batched") \in Good(f)
<1> DEFINE opts == openOptsForProfile(Nil, f.chunks, f)
           a == <<Open(dir, opts), Defer(Close(dir))>>
           b == When(FALSE, <<SetBulkImport(dir)>>)
           c == batchPutBytesChunked(dir, f.chunks, f)
           d == When(BatchPutSize(f) <= 0, <<FlushWAL(dir)>>)
           e == <<result("chunk_batch_put_batched", profile, dir)>>
<1>0. f.chunks \in Nat /\ f.batch \in Nat
  BY DEF EmbedFlags
<1>1. opts \in Options /\ opts.lazy = FALSE
  BY <1>0, OptionsKept, ZenonT(60) DEF Nil, Options
<1>2. benchF4KVSChunkBatchPut(dir, profile, f, FALSE, "chunk_batch_put_batched")
         = a \o b \o c \o d \o e \o Return(1)
  BY DEF benchF4KVSChunkBatchPut
<1> HIDE DEF opts
<1>3. /\ a \in Seq(Plain(f)) /\ Len(a) = 2
      /\ a[1].op = "open" /\ a[1].at = dir /\ a[1].err = "exit" /\ a[2].op = "defer"
  <2>1. Open(dir, opts) \in Plain(f) /\ Defer(Close(dir)) \in Plain(f)
    BY <1>1, StorePlain, OpenPlain
  <2>2. /\ Open(dir, opts).op = "open" /\ Open(dir, opts).at = dir /\ Open(dir, opts).err = "exit"
        /\ Defer(Close(dir)).op = "defer"
    BY DEF Open, Defer
  <2>3. QED
    BY <2>1, <2>2, SMT
<1>4. d \in Seq(Plain(f)) /\ \A i \in 1 .. Len(d) : d[i].op \in QuietOps
  <2>1. FlushWAL(dir) \in Plain(f) /\ FlushWAL(dir).op \in QuietOps
    BY StorePlain DEF FlushWAL, Call, QuietOps
  <2>2. QED
    BY <2>1, SMT DEF When
<1>5. c \in Seq(Plain(f)) /\ (f.chunks > 0 => Len(c) = UnitsOf(f, profile)) /\ Writes(c, dir)
  <2>1. profile # "sqlite_wal_full"
    BY DEF SQLite
  <2>2. c \in Seq(Plain(f))
    BY <1>0, BatchesGood
  <2>3. (f.chunks > 0 => Len(c) = UnitsOf(f, profile)) /\ Writes(c, dir)
    BY <1>0, <2>1, BatchUnits
  <2>4. QED
    BY <2>2, <2>3
<1> HIDE DEF a, c, d
<1>6. a \o b = a
  BY <1>3, SMT DEF When
<1>7. a \o c \o d \o e \in Good(f)
  <2>1. Len(a) > 0 /\ \A i \in 2 .. Len(a) : a[i].op \in QuietOps
    BY <1>3, SMT DEF QuietOps
  <2>2. QED
    BY <1>3, <1>4, <1>5, <2>1, WindowGood
<1>8. QED
  BY <1>2, <1>6, <1>7, ReturnPlain, GoodConcat

\* The chunks of a profile, on each of the three paths.
LEMMA ChunksGood ==
  ASSUME NEW ids, NEW f \in EmbedFlags(ids), NEW p \in Known \ SQLite, NEW opts \in Options,
         opts.lazy = OptionsOf(p).lazy
  PROVE  /\ PerCommitChunks(Dir(p), p, opts, f) \in Good(f)
         /\ StreamedChunks(Dir(p), p, f) \in Good(f)
         /\ ~opts.lazy =>
               /\ BatchedChunks(Dir(p), p, f) \in Seq(Allowed(f))
               /\ <<result("memoir_random_get", p, Dir(p))>> \o BatchedChunks(Dir(p), p, f) \in Good(f)
         /\ SideMeasurements(Dir(p), p, f) \in Good(f)
<1> DEFINE at == Dir(p)
<1>0. f.chunks \in Nat /\ f.batch \in Nat /\ f.program = "embed_vs_sqlite"
  BY DEF EmbedFlags
<1>1. /\ p \in PathNames /\ "tmp" \in PathNames /\ "chunk_durable" \in PathNames
      /\ "chunk_batched" \in PathNames /\ "chunk_bulk_import" \in PathNames
  BY DEF PathNames
<1>2. /\ at \in Paths /\ Append(at, "chunk_durable") \in Paths /\ Append(at, "chunk_batched") \in Paths
      /\ Append(at, "chunk_bulk_import") \in Paths
  BY <1>1, SMT DEF Dir, Paths
<1>3. /\ opts.lazy <=> at \in LazyPaths
      /\ opts.lazy <=> Append(at, "chunk_durable") \in LazyPaths
      /\ Append(at, "chunk_batched") \notin LazyPaths /\ Append(at, "chunk_bulk_import") \notin LazyPaths
  BY LazyFacts
<1> HIDE DEF at
<1>4. Puts("put", at, "chunk", f.chunks) \in Good(f) /\ batchPutBytesChunked(at, f.chunks, f) \in Good(f)
  BY <1>0, <1>2, PutsGood, BatchesGood, ZenonT(60) DEF Keys
<1>5. <<SetBulkImport(at)>> \in Good(f) /\ <<FlushWAL(at)>> \in Good(f)
  <2>1. <<SetBulkImport(at)>> \in Seq(Plain(f)) /\ <<FlushWAL(at)>> \in Seq(Plain(f))
    BY <1>2, StorePlain, SMT
  <2>2. QED
    BY <2>1, GoodPlain, ZenonT(60)
<1>6. benchF4KVSChunkBatched(at, p, f) \in Good(f) /\ benchF4KVSChunkBulkImport(at, p, f) \in Good(f)
  <2>1. "chunk_batch_put_bulk_import" \in RowPhases
    BY DEF RowPhases
  <2>2. QED
    BY <1>2, <1>3, <2>1, ChunkBatchedGood, ChunkBatchPutGood, ZenonT(60)
       DEF benchF4KVSChunkBatched, benchF4KVSChunkBulkImport
<1>7. PerCommitChunks(at, p, opts, f) \in Good(f)
  <2> DEFINE a == Puts("put", at, "chunk", f.chunks)
             b == <<result("chunk_batch_put", p, at)>>
             c == <<FlushWAL(at), result("chunk_batch_put_flush", p, at)>>
             d == benchF4KVSChunkDurable(at, p, opts, f)
  <2>1. b \in Good(f)
    <3>1. result("chunk_batch_put", p, at) \in Plain(f)
      BY <1>0, <1>2, RowAllowed DEF RowPhases, Metrics, DurablePhases
    <3>2. b \in Seq(Plain(f))
      BY <3>1, SMT
    <3>3. QED
      BY <3>2, GoodPlain, ZenonT(60)
  <2>2. c \in Good(f)
    BY <1>2, FlushThenRow DEF RowPhases
  <2>3. d \in Good(f)
    BY <1>2, <1>3, ChunkDurableGood
  <2>4. PerCommitChunks(at, p, opts, f) = a \o b \o When(opts.lazy, c \o d)
    BY DEF PerCommitChunks, usesGroupCommit
  <2>5. a \in Good(f)
    BY <1>4
  <2> HIDE DEF a, b, c, d
  <2>6. QED
    BY <2>1, <2>2, <2>3, <2>4, <2>5, GoodConcat, WhenGood, SMT
<1>8. StreamedChunks(at, p, f) \in Good(f)
  <2> DEFINE a == <<SetBulkImport(at)>>
             b == Puts("put", at, "chunk", f.chunks)
             c == <<FlushWAL(at), SetBulkImport(at), result("chunk_put_group_commit", p, at)>>
             d == benchF4KVSChunkBatched(at, p, f)
  <2>1. c \in Good(f)
    BY <1>2, FlushThenRow DEF RowPhases
  <2>2. StreamedChunks(at, p, f) = a \o b \o c \o d
    BY DEF StreamedChunks
  <2>3. a \in Good(f) /\ b \in Good(f) /\ d \in Good(f)
    BY <1>4, <1>5, <1>6
  <2> HIDE DEF a, b, c, d
  <2>4. QED
    BY <2>1, <2>2, <2>3, GoodConcat, SMT
<1>9. ASSUME ~opts.lazy
      PROVE  /\ BatchedChunks(at, p, f) \in Seq(Allowed(f))
             /\ <<result("memoir_random_get", p, at)>> \o BatchedChunks(at, p, f) \in Good(f)
  <2> DEFINE r == <<result("memoir_random_get", p, at)>>
             a == <<SetBulkImport(at)>>
             b == batchPutBytesChunked(at, f.chunks, f)
             c == When(BatchPutSize(f) <= 0, <<FlushWAL(at)>>)
             d == <<result("chunk_batch_put_batched", p, at)>>
             e == When(BatchPutSize(f) > 0, benchF4KVSChunkBulkImport(at, p, f))
             x == r \o a
             z == a \o c
  <2>1. SetBulkImport(at) \in Plain(f) /\ FlushWAL(at) \in Plain(f) /\ result("memoir_random_get", p, at) \in Plain(f)
    BY <1>0, <1>2, StorePlain, RowAllowed DEF RowPhases, Metrics, DurablePhases
  <2>2. SetBulkImport(at).op \in QuietOps /\ FlushWAL(at).op \in QuietOps
    BY DEF SetBulkImport, FlushWAL, Call, QuietOps
  <2>3. /\ result("memoir_random_get", p, at).op = "row" /\ result("memoir_random_get", p, at).at = at
        /\ result("memoir_random_get", p, at).err = "exit"
    BY DEF result
  <2>4. r \in Seq(Plain(f)) /\ a \in Seq(Plain(f)) /\ c \in Seq(Plain(f))
    BY <2>1, SMT DEF When
  <2>5. /\ x \in Seq(Plain(f)) /\ Len(x) = 2 /\ x[1] = result("memoir_random_get", p, at)
        /\ x[2] = SetBulkImport(at)
    BY <2>4, SMT
  <2>6. z \in Seq(Plain(f)) /\ \A i \in 1 .. Len(z) : z[i].op \in QuietOps
    <3>1. \A i \in 1 .. Len(c) : c[i].op \in QuietOps
      BY <2>2, SMT DEF When
    <3>2. \A i \in 1 .. Len(z) : z[i] = IF i = 1 THEN SetBulkImport(at) ELSE c[i - 1]
      <4> HIDE DEF c
      <4>1. QED
        BY <2>4, SMT
    <3>3. Len(z) = 1 + Len(c) /\ Len(c) \in Nat /\ z \in Seq(Plain(f))
      <4> HIDE DEF c
      <4>1. QED
        BY <2>4, SMT
    <3>4. QED
      <4> HIDE DEF c, z
      <4>1. QED
        BY <2>2, <3>1, <3>2, <3>3, SMT
  <2>7. b \in Seq(Plain(f)) /\ (f.chunks > 0 => Len(b) = UnitsOf(f, p)) /\ Writes(b, at)
    <3>1. p # "sqlite_wal_full"
      BY DEF SQLite
    <3>2. b \in Seq(Plain(f))
      BY <1>0, <1>2, BatchesGood
    <3>3. (f.chunks > 0 => Len(b) = UnitsOf(f, p)) /\ Writes(b, at)
      BY <1>0, <3>1, BatchUnits, ZenonT(60)
    <3>4. QED
      BY <3>2, <3>3
  <2>8. e \in Good(f)
    BY <1>6, WhenGood, ZenonT(60)
  <2>9. BatchedChunks(at, p, f) = a \o b \o a \o c \o d \o e
    BY DEF BatchedChunks
  <2>10. d \in Seq(Allowed(f)) /\ e \in Seq(Allowed(f))
    <3>1. result("chunk_batch_put_batched", p, at) \in Allowed(f)
      BY <1>0, <1>2, RowAllowed DEF RowPhases, Metrics
    <3>2. QED
      BY <2>8, <3>1, SMT DEF Good
  <2>11. at \notin LazyPaths
    BY <1>3, <1>9
  <2> HIDE DEF b, x, z
  <2>12. x \o b \o z \o d \in Good(f)
    <3>1. /\ Len(x) > 0 /\ x[1].op \in {"open", "row"} /\ x[1].at = at /\ x[1].err = "exit"
          /\ \A i \in 2 .. Len(x) : x[i].op \in QuietOps
      BY <2>2, <2>3, <2>5, SMT
    <3>2. QED
      BY <1>2, <2>5, <2>6, <2>7, <2>11, <3>1, WindowGood
  <2> HIDE DEF r, a, c, d, e
  <2>13. r \in Seq(Allowed(f)) /\ a \in Seq(Allowed(f)) /\ b \in Seq(Allowed(f)) /\ c \in Seq(Allowed(f))
    <3>1. \A q \in Seq(Plain(f)) : q \in Seq(Allowed(f))
      BY SMT DEF Plain
    <3>2. QED
      BY <2>4, <2>7, <3>1
  <2>14. r \o (a \o b \o a \o c \o d \o e) = (x \o b \o z \o d) \o e
    <3> DEFINE ab == a \o b
               aba == ab \o a
               abac == aba \o c
               all == abac \o d
               xb == x \o b
    <3>1. r \in Seq(Allowed(f))
      BY <2>13
    <3>2. a \in Seq(Allowed(f))
      BY <2>13
    <3>3. c \in Seq(Allowed(f))
      BY <2>13
    <3>4. ab \in Seq(Allowed(f))
      BY <2>13, SMT
    <3>5. r \o ab = x \o b
      BY <2>13, SMT DEF x
    <3> HIDE DEF ab
    <3>6. aba \in Seq(Allowed(f))
      BY <3>2, <3>4, SMT
    <3>7. r \o aba = (r \o ab) \o a
      BY <3>1, <3>2, <3>4, SMT
    <3> HIDE DEF aba
    <3>8. abac \in Seq(Allowed(f))
      BY <3>3, <3>6, SMT
    <3>9. r \o abac = (r \o aba) \o c
      BY <3>1, <3>3, <3>6, SMT
    <3> HIDE DEF abac
    <3>10. all \in Seq(Allowed(f))
      BY <2>10, <3>8, SMT
    <3>11. r \o all = (r \o abac) \o d
      BY <2>10, <3>1, <3>8, SMTT(60)
    <3> HIDE DEF all
    <3>12. r \o (all \o e) = (r \o all) \o e
      BY <2>10, <3>1, <3>10, SMT
    <3>13. xb \in Seq(Allowed(f))
      BY <2>13, SMT DEF x
    <3> HIDE DEF xb
    <3>14. xb \o z = xb \o a \o c
      BY <3>2, <3>3, <3>13, SMT DEF z
    <3>15. r \o all = x \o b \o z \o d
      BY <3>5, <3>7, <3>9, <3>11, <3>14 DEF xb
    <3>16. QED
      BY <3>12, <3>15 DEF all, abac, aba, ab
  <2>15. a \o b \o a \o c \o d \o e \in Seq(Allowed(f))
    BY <2>10, <2>13, SMT
  <2>16. (x \o b \o z \o d) \o e \in Good(f)
    BY <2>8, <2>12, GoodConcat, ZenonT(60)
  <2>17. r \o BatchedChunks(at, p, f) \in Good(f)
    BY <2>9, <2>14, <2>16
  <2>18. BatchedChunks(at, p, f) \in Seq(Allowed(f))
    BY <2>9, <2>15
  <2>19. QED
    BY <2>17, <2>18, ZenonT(60) DEF r
<1>10. SideMeasurements(at, p, f) \in Good(f)
  <2>1. benchF4KVSChunkBatched(at, p, f) \o benchF4KVSChunkBulkImport(at, p, f) \in Good(f)
    BY <1>6, GoodConcat
  <2>2. QED
    BY <2>1, WhenGood DEF SideMeasurements
<1>11. QED
  BY <1>7, <1>8, <1>9, <1>10 DEF at

\* A row that stands for no durable ingest.
LEMMA RowGood ==
  ASSUME NEW ids, NEW f \in EmbedFlags(ids), NEW at \in Paths, NEW profile \in Known, NEW phase \in RowPhases,
         phase \notin DurablePhases \/ profile = "sqlite_wal_normal" \/ at \notin LazyPaths,
         phase # "chunk_batch_put_batched" \/ profile = "sqlite_wal_normal"
  PROVE  result(phase, profile, at) \in Plain(f) /\ <<result(phase, profile, at)>> \in Good(f)
<1>1. result(phase, profile, at) \in Plain(f)
  BY RowAllowed DEF EmbedFlags, Metrics
<1>2. <<result(phase, profile, at)>> \in Seq(Plain(f))
  BY <1>1, SMT
<1>3. QED
  BY <1>1, <1>2, GoodPlain, ZenonT(60)

\* A read loop with its row.
LEMMA ScanGood ==
  ASSUME NEW ids, NEW f \in EmbedFlags(ids), NEW at \in Paths, NEW profile \in Known
  PROVE  /\ <<result("memoir_batch_put", profile, at)>> \in Good(f)
         /\ Gets(at, "memoir", f.memoirs, f.gets) \in Good(f)
         /\ <<result("memoir_random_get", profile, at)>> \in Good(f)
         /\ <<Read("scan", at, "chunk", 0), result("chunk_prefix_scan", profile, at)>> \in Good(f)
         /\ <<Call("query", at, "exit"), Read("scan", at, "chunk", 0),
              result("chunk_prefix_scan", profile, at)>> \in Good(f)
         /\ Gets(at, "chunk", f.chunks, f.gets) \in Good(f)
         /\ <<result("chunk_random_get", profile, at)>> \in Good(f)
<1>1. \A phase \in {"memoir_batch_put", "memoir_random_get", "chunk_prefix_scan", "chunk_random_get"} :
          phase \in RowPhases /\ phase \notin DurablePhases
  BY DEF RowPhases, DurablePhases
<1>2. Gets(at, "memoir", f.memoirs, f.gets) \in Good(f) /\ Gets(at, "chunk", f.chunks, f.gets) \in Good(f)
  BY GetsGood DEF EmbedFlags, Keys
<1>3. result("chunk_prefix_scan", profile, at) \in Plain(f)
  BY <1>1, RowGood, ZenonT(60)
<1>4. Read("scan", at, "chunk", 0) \in Plain(f) /\ Call("query", at, "exit") \in Plain(f)
  BY ReadPlain, StorePlain DEF Keys
<1>5. /\ <<Read("scan", at, "chunk", 0), result("chunk_prefix_scan", profile, at)>> \in Seq(Plain(f))
      /\ <<Call("query", at, "exit"), Read("scan", at, "chunk", 0),
           result("chunk_prefix_scan", profile, at)>> \in Seq(Plain(f))
  BY <1>3, <1>4, SMT
<1>6. /\ <<Read("scan", at, "chunk", 0), result("chunk_prefix_scan", profile, at)>> \in Good(f)
      /\ <<Call("query", at, "exit"), Read("scan", at, "chunk", 0),
           result("chunk_prefix_scan", profile, at)>> \in Good(f)
  BY <1>5, GoodPlain, ZenonT(60)
<1>7. /\ <<result("memoir_batch_put", profile, at)>> \in Good(f)
      /\ <<result("memoir_random_get", profile, at)>> \in Good(f)
      /\ <<result("chunk_random_get", profile, at)>> \in Good(f)
  BY <1>1, RowGood
<1>8. QED
  BY <1>2, <1>6, <1>7

LEMMA F4KVSGood ==
  ASSUME NEW ids, NEW f \in EmbedFlags(ids), NEW p \in Known \ SQLite
  PROVE  benchF4KVS(Dir(p), p, OptionsOf(p), f) \in Good(f)
<1> DEFINE at == Dir(p)
           opts == openOptsForProfile(OptionsOf(p), f.chunks, f)
           a == <<Open(at, opts), Defer(Close(at))>>
           b == Puts("put", at, "memoir", f.memoirs)
           c == <<result("memoir_batch_put", p, at)>>
           d == Gets(at, "memoir", f.memoirs, f.gets)
           e == <<result("memoir_random_get", p, at)>>
           chunks == IF ~skipPerCommitChunks(f) THEN PerCommitChunks(at, p, opts, f)
                     ELSE IF usesGroupCommit(opts) THEN StreamedChunks(at, p, f)
                     ELSE BatchedChunks(at, p, f)
           sides == SideMeasurements(at, p, f)
           g == <<Read("scan", at, "chunk", 0), result("chunk_prefix_scan", p, at)>>
           h == Gets(at, "chunk", f.chunks, f.gets)
           i == <<result("chunk_random_get", p, at)>>
<1>0. f.chunks \in Nat /\ f.batch \in Nat /\ f.memoirs \in Nat
  BY DEF EmbedFlags
<1>1. at \in Paths
  <2>1. p \in PathNames /\ "tmp" \in PathNames
    BY DEF PathNames
  <2>2. QED
    BY <2>1, SMT DEF Dir, Paths
<1>2. OptionsOf(p) \in Options
  BY DEF OptionsOf, Options, Nil, GroupCommit
<1>3. opts \in Options /\ opts.lazy = OptionsOf(p).lazy
  BY <1>0, <1>2, OptionsKept
<1>4. opts.lazy <=> at \in LazyPaths
  BY <1>3, LazyFacts
<1>5. /\ PerCommitChunks(at, p, opts, f) \in Good(f) /\ StreamedChunks(at, p, f) \in Good(f)
      /\ ~opts.lazy => BatchedChunks(at, p, f) \in Seq(Allowed(f)) /\ e \o BatchedChunks(at, p, f) \in Good(f)
      /\ sides \in Good(f)
  BY <1>3, ChunksGood, ZenonT(60)
<1> HIDE DEF at, opts, sides
<1>6. a \in Good(f)
  <2>1. Open(at, opts) \in Plain(f) /\ Defer(Close(at)) \in Plain(f)
    BY <1>1, <1>3, <1>4, OpenPlain, StorePlain
  <2>2. a \in Seq(Plain(f))
    BY <2>1, SMT
  <2>3. QED
    BY <2>2, GoodPlain, ZenonT(60)
<1>7. b \in Good(f)
  BY <1>0, <1>1, PutsGood DEF Keys
<1>8. c \in Good(f) /\ d \in Good(f) /\ e \in Good(f) /\ g \in Good(f) /\ h \in Good(f) /\ i \in Good(f)
  BY <1>1, ScanGood, ZenonT(60)
<1>9. Return(1) \in Good(f)
  BY ReturnPlain
<1>10. benchF4KVS(at, p, OptionsOf(p), f)
          = a \o b \o c \o d \o e \o chunks \o sides \o g \o h \o i \o Return(1)
  BY DEF benchF4KVS, opts, chunks, sides
<1> HIDE DEF a, b, c, d, e, g, h, i
<1>11. chunks \in Seq(Allowed(f)) /\ e \o chunks \in Good(f)
  <2>1. CASE ~skipPerCommitChunks(f)
    BY <1>5, <1>8, <2>1, GoodConcat DEF Good
  <2>2. CASE skipPerCommitChunks(f) /\ usesGroupCommit(opts)
    BY <1>5, <1>8, <2>2, GoodConcat DEF Good
  <2>3. CASE skipPerCommitChunks(f) /\ ~usesGroupCommit(opts)
    BY <1>5, <2>3 DEF usesGroupCommit
  <2>4. QED
    BY <2>1, <2>2, <2>3, ZenonT(60)
<1> HIDE DEF chunks
<1>12. a \o b \o c \o d \in Good(f)
  BY <1>6, <1>7, <1>8, GoodConcat
<1>13. (a \o b \o c \o d) \o (e \o chunks) = a \o b \o c \o d \o e \o chunks
  <2> DEFINE front == a \o b \o c \o d
  <2>1. front \in Seq(Allowed(f)) /\ e \in Seq(Allowed(f))
    BY <1>8, <1>12 DEF Good
  <2> HIDE DEF front
  <2>2. front \o (e \o chunks) = front \o e \o chunks
    BY <1>11, <2>1, SMT
  <2>3. QED
    BY <2>2 DEF front
<1>14. a \o b \o c \o d \o e \o chunks \in Good(f)
  BY <1>11, <1>12, <1>13, GoodConcat
<1>15. a \o b \o c \o d \o e \o chunks \o sides \o g \o h \o i \o Return(1) \in Good(f)
  BY <1>5, <1>8, <1>9, <1>14, GoodConcat
<1>16. QED
  BY <1>10, <1>15 DEF at

LEMMA GateRowsGood ==
  ASSUME NEW ids, NEW f \in EmbedFlags(ids), NEW at \in Paths, NEW profile \in Known
  PROVE  GateRows(profile, at) \in Good(f)
<1> DEFINE row(metric) == metricResult("post_restart_row_count", profile, at, metric)
<1>1. \A metric \in Metrics : row(metric) \in Plain(f)
  BY RowAllowed DEF EmbedFlags, RowPhases, DurablePhases
<1>2. /\ row("duration_ms") \in Plain(f) /\ row("row_count") \in Plain(f)
      /\ row("expected_row_count") \in Plain(f) /\ row("integrity_ok") \in Plain(f)
  BY <1>1 DEF Metrics
<1> HIDE DEF row
<1>3. <<row("duration_ms"), row("row_count"), row("expected_row_count"), row("integrity_ok")>>
         \in Seq(Plain(f))
  BY <1>2, SMT
<1>4. QED
  BY <1>3, GoodPlain, ZenonT(60) DEF GateRows, row

LEMMA F4KVSPostRestartGood ==
  ASSUME NEW ids, NEW f \in EmbedFlags(ids), NEW p \in Known \ SQLite
  PROVE  benchF4KVSPostRestart(RestartDir(p), p, OptionsOf(p), f) \in Good(f)
<1> DEFINE at == RestartDir(p)
           opts == openOptsForProfile(OptionsOf(p), f.chunks + f.memoirs, f)
           bulk == f.chunks > BulkFrom
           memoirs == When(f.memoirs > 0, <<Write("batch", at, "memoir", f.memoirs, f.memoirs)>>)
           import == When(bulk, <<SetBulkImport(at)>>)
           batches == batchPutBytesChunked(at, f.chunks, f)
           flush(b) == When(b, <<FlushWAL(at)>>)
           a == <<RemoveAll(at), Open(at, opts)>>
           b == OnError("close", memoirs \o import \o batches)
           c == OnError("ignore", flush(BatchPutSize(f) <= 0) \o import)
           d == OnError("close", flush(usesGroupCommit(opts)))
           e == <<Close(at), Open(at, opts), Read("scan", at, "memoir", 0),
                  Read("scan_more", at, "chunk", 0), Close(at)>>
<1>0. f.chunks \in Nat /\ f.batch \in Nat /\ f.memoirs \in Nat /\ f.chunks + f.memoirs \in Nat
  BY SMT DEF EmbedFlags
<1>1. at \in Paths
  <2>1. p \in PathNames /\ "tmp" \in PathNames /\ "restart" \in PathNames
    BY DEF PathNames
  <2>2. QED
    BY <2>1, SMT DEF RestartDir, Paths
<1>2. OptionsOf(p) \in Options
  BY DEF OptionsOf, Options, Nil, GroupCommit
<1>3. opts \in Options /\ opts.lazy = OptionsOf(p).lazy
  BY <1>0, <1>2, OptionsKept, ZenonT(60)
<1>4. opts.lazy <=> at \in LazyPaths
  BY <1>3, LazyFacts
<1> HIDE DEF at, opts
<1>5. Open(at, opts) \in Plain(f)
  BY <1>1, <1>3, <1>4, OpenPlain
<1>6. a \in Good(f) /\ e \in Good(f)
  <2>1. /\ RemoveAll(at) \in Plain(f) /\ Close(at) \in Plain(f) /\ Read("scan", at, "memoir", 0) \in Plain(f)
        /\ Read("scan_more", at, "chunk", 0) \in Plain(f)
    BY <1>1, StorePlain, ReadPlain DEF Keys
  <2>2. a \in Seq(Plain(f)) /\ e \in Seq(Plain(f))
    BY <1>5, <2>1, SMT
  <2>3. QED
    BY <2>2, GoodPlain, ZenonT(60)
<1>7. memoirs \in Seq(Plain(f))
  <2>1. Write("batch", at, "memoir", f.memoirs, f.memoirs) \in Plain(f)
    BY <1>0, <1>1, SMT DEF Write, Plain, Allowed, CallSet, WriteCalls, Keys, Errs, NoDurableRow, Batched, WriterOps
  <2>2. <<Write("batch", at, "memoir", f.memoirs, f.memoirs)>> \in Seq(Plain(f))
    BY <2>1, SMT
  <2>3. QED
    BY <2>2, WhenPlain, ZenonT(60)
<1>8. <<SetBulkImport(at)>> \in Seq(Plain(f)) /\ <<FlushWAL(at)>> \in Seq(Plain(f))
  BY <1>1, StorePlain, SMT
<1>9. batches \in Seq(Plain(f))
  BY <1>0, <1>1, BatchesGood, ZenonT(60)
<1>10. /\ import \in Seq(Plain(f)) /\ flush(BatchPutSize(f) <= 0) \in Seq(Plain(f))
       /\ flush(usesGroupCommit(opts)) \in Seq(Plain(f))
  BY <1>8, WhenPlain, ZenonT(60)
<1> HIDE DEF memoirs, import, batches, flush, bulk
<1>11. memoirs \o import \o batches \in Seq(Plain(f)) /\ flush(BatchPutSize(f) <= 0) \o import \in Seq(Plain(f))
  BY <1>7, <1>9, <1>10, SMT
<1>12. b \in Good(f) /\ c \in Good(f) /\ d \in Good(f)
  <2>1. "close" \in Errs /\ "ignore" \in Errs
    BY DEF Errs
  <2>2. QED
    BY <1>10, <1>11, <2>1, OnErrorPlain, ZenonT(60)
<1>13. GateRows(p, at) \in Good(f)
  BY <1>1, GateRowsGood
<1>14. benchF4KVSPostRestart(at, p, OptionsOf(p), f) = a \o b \o c \o d \o e \o GateRows(p, at)
  BY DEF benchF4KVSPostRestart, opts, bulk, memoirs, import, batches, flush
<1> HIDE DEF a, b, c, d, e
<1>15. a \o b \o c \o d \o e \o GateRows(p, at) \in Good(f)
  BY <1>6, <1>12, <1>13, GoodConcat
<1>16. QED
  BY <1>14, <1>15 DEF at

-----------------------------------------------------------------------------
(* The phases of an SQLite profile.                                        *)

\* How a phase begins.
LEMMA CreateGood ==
  ASSUME NEW f, NEW at \in Paths, NEW p \in SQLite, Relaxed(p) <=> at \in LazyPaths
  PROVE  /\ OpenDB(at, Relaxed(p)) \in Plain(f)
         /\ <<OpenDB(at, Relaxed(p)), Defer(Close(at)), Call("create_table", at, "exit")>> \in Seq(Plain(f))
         /\ <<OpenDB(at, Relaxed(p)), Defer(Close(at)), Call("create_table", at, "exit")>> \in Good(f)
<1>1. OpenDB(at, Relaxed(p)) \in Plain(f)
  BY OpenDBPlain, ZenonT(60) DEF Relaxed
<1>2. Defer(Close(at)) \in Plain(f) /\ Call("create_table", at, "exit") \in Plain(f)
  BY StorePlain
<1>3. <<OpenDB(at, Relaxed(p)), Defer(Close(at)), Call("create_table", at, "exit")>> \in Seq(Plain(f))
  BY <1>1, <1>2, SMT
<1>4. QED
  BY <1>1, <1>3, GoodPlain, ZenonT(60)

LEMMA SQLiteFacts ==
  ASSUME NEW p \in SQLite
  PROVE  /\ p \in Known /\ Dir(p) \in Paths /\ RestartDir(p) \in Paths
         /\ <<"tmp", "chunk_batched", p>> \in Paths
<1>1. p \in Known
  BY KnownIs DEF SQLite
<1>2. p \in PathNames /\ "tmp" \in PathNames /\ "chunk_batched" \in PathNames /\ "restart" \in PathNames
  BY <1>1 DEF PathNames
<1>3. QED
  BY <1>1, <1>2, SMT DEF Dir, RestartDir, Paths

\* One transaction is one durable unit, whatever the number of chunks.
LEMMA SQLiteFullBatchGood ==
  ASSUME NEW ids, NEW f \in EmbedFlags(ids), NEW at \in Paths, at \notin LazyPaths
  PROVE  <<OpenDB(at, Relaxed("sqlite_wal_full")), Defer(Close(at)), Call("create_table", at, "exit")>>
            \o sqliteBatchPut(at, FALSE, "chunk", f.chunks)
            \o <<result("chunk_batch_put_batched", "sqlite_wal_full", at)>> \in Good(f)
<1> DEFINE a == <<OpenDB(at, Relaxed("sqlite_wal_full")), Defer(Close(at)), Call("create_table", at, "exit")>>
           b == <<Call("begin", at, "exit"), Call("prepare", at, "exit")>>
           c == [i \in 1 .. f.chunks |-> Call("insert", at, "exit")]
           w == <<Write("commit", at, "chunk", f.chunks, f.chunks)>>
           d == <<result("chunk_batch_put_batched", "sqlite_wal_full", at)>>
           x == a \o b \o c
<1>0. f.chunks \in Nat /\ "sqlite_wal_full" \in SQLite
  BY DEF EmbedFlags, SQLite
<1>1. "sqlite_wal_full" \in Known
  BY <1>0, SQLiteFacts
<1>2. a \in Seq(Plain(f)) /\ Len(a) = 3
  <2>1. a \in Seq(Plain(f))
    BY <1>0, CreateGood, ZenonT(60) DEF Relaxed
  <2>2. Len(a) = 3
    OBVIOUS
  <2>3. QED
    BY <2>1, <2>2
<1>3. b \in Seq(Plain(f)) /\ Len(b) = 2
  BY SMT DEF Call, Plain, Allowed, CallSet, SimpleCalls, PlainOps, Errs, NoDurableRow, Batched, WriterOps
<1>4. c \in Seq(Plain(f)) /\ Len(c) = f.chunks
  <2>1. Call("insert", at, "exit") \in Plain(f)
    BY DEF Call, Plain, Allowed, CallSet, SimpleCalls, PlainOps, Errs, NoDurableRow, Batched, WriterOps
  <2>2. QED
    BY <1>0, <2>1, PlainLoop, SMT
<1>5. w \in Seq(Plain(f)) /\ Writes(w, at) /\ Len(w) = 1
  <2>1. Write("commit", at, "chunk", f.chunks, f.chunks) \in Plain(f)
    BY <1>0, SMT DEF Write, Plain, Allowed, CallSet, WriteCalls, Keys, Errs, NoDurableRow, Batched, WriterOps
  <2>2. QED
    BY <2>1, SMT DEF Write, Writes
<1>6. Len(w) = UnitsOf(f, "sqlite_wal_full")
  BY <1>5 DEF UnitsOf
<1>7. /\ a[1].op = "open" /\ a[1].at = at /\ a[1].err = "exit" /\ a[2].op \in QuietOps /\ a[3].op \in QuietOps
      /\ b[1].op \in QuietOps /\ b[2].op \in QuietOps
      /\ \A i \in 1 .. f.chunks : c[i].op \in QuietOps
  BY DEF OpenDB, Defer, Call, QuietOps
<1>8. d \in Seq(Allowed(f))
  <2>1. result("chunk_batch_put_batched", "sqlite_wal_full", at) \in Allowed(f)
    BY <1>1, RowAllowed DEF EmbedFlags, RowPhases, Metrics
  <2>2. QED
    BY <2>1, SMT
<1>9. sqliteBatchPut(at, FALSE, "chunk", f.chunks) = b \o c \o w
  BY DEF sqliteBatchPut
<1> HIDE DEF a, b, c, w, d, x
<1>10. a \in Seq(Plain(f)) /\ b \in Seq(Plain(f)) /\ c \in Seq(Plain(f))
  BY <1>2, <1>3, <1>4
<1>11. x \in Seq(Plain(f)) /\ Len(x) = f.chunks + 5
  <2>1. x \in Seq(Plain(f))
    BY <1>10, SMT DEF x
  <2>2. Len(x) = Len(a) + Len(b) + Len(c)
    BY <1>10, SMT DEF x
  <2>3. QED
    BY <1>0, <1>2, <1>3, <1>4, <2>1, <2>2, SMT
<1>12. \A i \in 1 .. Len(x) : x[i] = IF i <= 3 THEN a[i] ELSE IF i <= 5 THEN b[i - 3] ELSE c[i - 5]
  <2>1. \A i \in 1 .. Len(x) : x[i] = IF i <= Len(a) THEN a[i]
                                     ELSE IF i <= Len(a) + Len(b) THEN b[i - Len(a)]
                                     ELSE c[i - (Len(a) + Len(b))]
    BY <1>10, SMT DEF x
  <2>2. Len(a) = 3 /\ Len(a) + Len(b) = 5
    BY <1>2, <1>3, SMT
  <2>3. QED
    BY <2>1, <2>2
<1>13. /\ x[1].op \in {"open", "row"} /\ x[1].at = at /\ x[1].err = "exit"
       /\ \A i \in 2 .. Len(x) : x[i].op \in QuietOps
  <2>1. x[1] = a[1]
    <3>1. 1 \in 1 .. Len(x) /\ 1 <= 3
      BY <1>0, <1>11, SMT
    <3>2. QED
      BY <1>12, <3>1
  <2>2. ASSUME NEW i \in 2 .. Len(x) PROVE x[i].op \in QuietOps
    <3>1. CASE i \in {2, 3}
      <4>1. x[i] = a[i]
        BY <1>0, <1>11, <1>12, <3>1, SMT
      <4>2. QED
        BY <1>7, <3>1, <4>1
    <3>2. CASE i \in {4, 5}
      <4>1. x[i] = b[i - 3] /\ i - 3 \in {1, 2}
        BY <1>0, <1>11, <1>12, <3>2, SMT
      <4>2. QED
        BY <1>7, <4>1
    <3>3. CASE i > 5
      <4>1. x[i] = c[i - 5] /\ i - 5 \in 1 .. f.chunks
        BY <1>0, <1>11, <1>12, <3>3, SMT
      <4>2. QED
        BY <1>7, <4>1
    <3>4. QED
      BY <1>0, <1>11, <3>1, <3>2, <3>3, SMT
  <2>3. x[1].op \in {"open", "row"} /\ x[1].at = at /\ x[1].err = "exit"
    BY <1>7, <2>1
  <2>4. QED
    BY <2>2, <2>3, ZenonT(60)
<1>14. x \o w \o <<>> \o d \in Good(f)
  <2>1. <<>> \in Seq(Plain(f)) /\ \A i \in 1 .. Len(<<>>) : <<>>[i].op \in QuietOps
    BY SMT
  <2>2. Len(x) > 0
    BY <1>0, <1>11, SMT
  <2>3. QED
    BY <1>1, <1>5, <1>6, <1>11, <1>13, <2>1, <2>2, WindowGood, ZenonT(60) DEF d
<1>15. \A q \in Seq(Plain(f)) : q \in Seq(Allowed(f))
  BY SMT DEF Plain
<1>16. /\ a \in Seq(Allowed(f)) /\ b \in Seq(Allowed(f)) /\ c \in Seq(Allowed(f)) /\ w \in Seq(Allowed(f))
       /\ x \in Seq(Allowed(f))
  BY <1>2, <1>3, <1>4, <1>5, <1>11, <1>15
<1>17. a \o (b \o c \o w) = x \o w
  <2>1. (b \o c) \in Seq(Allowed(f))
    BY <1>16, SMT
  <2>2. a \o ((b \o c) \o w) = (a \o (b \o c)) \o w
    <3> DEFINE bc == b \o c
    <3> HIDE DEF bc
    <3>1. a \o (bc \o w) = (a \o bc) \o w
      <4>1. a \in Seq(Allowed(f))
        BY <1>16
      <4>2. w \in Seq(Allowed(f))
        BY <1>16
      <4>3. QED
        BY <2>1, <4>1, <4>2, SMTT(60) DEF bc
    <3>2. QED
      BY <3>1 DEF bc
  <2>3. a \o (b \o c) = a \o b \o c
    BY <1>16, SMTT(60)
  <2>4. QED
    BY <2>2, <2>3 DEF x
<1>18. x \o w \o <<>> = x \o w
  BY <1>16, SMT
<1>19. a \o (b \o c \o w) \o d \in Good(f)
  BY <1>14, <1>17, <1>18
<1>20. QED
  BY <1>9, <1>19 DEF a, d

LEMMA SQLiteChunkBatchedGood ==
  ASSUME NEW ids, NEW f \in EmbedFlags(ids), NEW at \in Paths, NEW p \in SQLite, Relaxed(p) <=> at \in LazyPaths
  PROVE  benchSQLiteChunkBatched(at, p, f) \in Good(f)
<1> DEFINE a == <<OpenDB(at, Relaxed(p)), Defer(Close(at)), Call("create_table", at, "exit")>>
           b == sqliteBatchPut(at, FALSE, "chunk", f.chunks)
           c == <<result("chunk_batch_put_batched", p, at)>>
<1>1. a \o b \o c \in Good(f)
  <2>1. CASE p = "sqlite_wal_full"
    <3>1. at \notin LazyPaths
      BY <2>1 DEF Relaxed
    <3>2. QED
      BY <2>1, <3>1, SQLiteFullBatchGood
  <2>2. CASE p = "sqlite_wal_normal"
    <3>1. a \in Good(f)
      BY CreateGood
    <3>2. b \in Good(f)
      BY SqlitePutGood DEF EmbedFlags, Keys
    <3>3. c \in Good(f)
      BY <2>2, SQLiteFacts, RowGood DEF RowPhases
    <3> HIDE DEF a, b, c
    <3>4. QED
      BY <3>1, <3>2, <3>3, GoodConcat
  <2>3. QED
    BY <2>1, <2>2 DEF SQLite
<1>2. Return(1) \in Good(f)
  BY ReturnPlain
<1>3. benchSQLiteChunkBatched(at, p, f) = a \o b \o c \o Return(1)
  BY DEF benchSQLiteChunkBatched
<1> HIDE DEF a, b, c
<1>4. QED
  BY <1>1, <1>2, <1>3, GoodConcat

LEMMA SQLiteGood ==
  ASSUME NEW ids, NEW f \in EmbedFlags(ids), NEW p \in SQLite
  PROVE  benchSQLite(Dir(p), p, f) \in Good(f)
<1> DEFINE at == Dir(p)
           perCommit == p = "sqlite_wal_full" /\ ~skipPerCommitChunks(f)
           a == <<OpenDB(at, Relaxed(p)), Defer(Close(at)), Call("create_table", at, "exit")>>
           b == sqliteBatchPut(at, perCommit, "memoir", f.memoirs)
           c == <<result("memoir_batch_put", p, at)>>
           d == Gets(at, "memoir", f.memoirs, f.gets)
           e == <<result("memoir_random_get", p, at)>>
           g == sqliteBatchPut(at, perCommit, "chunk", f.chunks)
           h == <<result("chunk_batch_put", p, at)>>
           i == benchSQLiteChunkBatched(<<"tmp", "chunk_batched", p>>, p, f)
           j == <<Call("query", at, "exit"), Read("scan", at, "chunk", 0), result("chunk_prefix_scan", p, at)>>
           k == Gets(at, "chunk", f.chunks, f.gets)
           l == <<result("chunk_random_get", p, at)>>
<1>1. p \in Known /\ at \in Paths /\ <<"tmp", "chunk_batched", p>> \in Paths
  BY SQLiteFacts
<1>2. Relaxed(p) <=> at \in LazyPaths
  BY LazyFacts, ZenonT(60)
<1>3. i \in Good(f)
  BY <1>1, LazyFacts, SQLiteChunkBatchedGood
<1> HIDE DEF at
<1>4. a \in Good(f)
  BY <1>1, <1>2, CreateGood
<1>5. b \in Good(f) /\ g \in Good(f)
  BY <1>1, SqlitePutGood, ZenonT(60) DEF EmbedFlags, Keys
<1>6. c \in Good(f) /\ d \in Good(f) /\ e \in Good(f) /\ j \in Good(f) /\ k \in Good(f) /\ l \in Good(f)
  BY <1>1, ScanGood, ZenonT(60)
<1>7. h \in Good(f)
  BY <1>1, RowGood DEF RowPhases, DurablePhases
<1>8. Return(1) \in Good(f)
  BY ReturnPlain
<1>9. benchSQLite(at, p, f) = a \o b \o c \o d \o e \o g \o h \o i \o j \o k \o l \o Return(1)
  BY DEF benchSQLite
<1> HIDE DEF a, b, c, d, e, g, h, i, j, k, l
<1>10. a \o b \o c \o d \o e \o g \in Good(f)
  BY <1>4, <1>5, <1>6, GoodConcat
<1>11. a \o b \o c \o d \o e \o g \o h \o i \o j \o k \o l \o Return(1) \in Good(f)
  BY <1>3, <1>6, <1>7, <1>8, <1>10, GoodConcat
<1>12. QED
  BY <1>9, <1>11 DEF at

LEMMA SQLitePostRestartGood ==
  ASSUME NEW ids, NEW f \in EmbedFlags(ids), NEW p \in SQLite
  PROVE  benchSQLitePostRestart(RestartDir(p), p, f) \in Good(f)
<1> DEFINE at == RestartDir(p)
           a == <<RemoveAll(at), OpenDB(at, Relaxed(p))>>
           create == <<Call("create_table", at, "exit")>>
           memoirs == sqliteBatchPut(at, FALSE, "memoir", f.memoirs)
           chunks == sqliteBatchPut(at, FALSE, "chunk", f.chunks)
           b == OnError("close", create \o memoirs \o chunks)
           c == <<[Close(at) EXCEPT !.err = "exit"], OpenDB(at, Relaxed(p)),
                  [Read("count", at, "all", 0) EXCEPT !.err = "close"], Close(at)>>
<1>1. p \in Known /\ at \in Paths
  BY SQLiteFacts, ZenonT(60)
<1>2. Relaxed(p) <=> at \in LazyPaths
  BY LazyFacts, ZenonT(60)
<1> HIDE DEF at
<1>3. OpenDB(at, Relaxed(p)) \in Plain(f)
  BY <1>1, <1>2, CreateGood, ZenonT(60)
<1>4. /\ RemoveAll(at) \in Plain(f) /\ Close(at) \in Plain(f)
      /\ Call("create_table", at, "exit") \in Plain(f)
  BY <1>1, StorePlain
<1>5. [Close(at) EXCEPT !.err = "exit"] \in Plain(f)
  <2>1. [Close(at) EXCEPT !.err = "exit"] = Call("close", at, "exit")
    BY SMT DEF Close, Call
  <2>2. QED
    BY <1>1, <2>1, SimplePlain, SMT DEF PlainOps, Errs
<1>6. [Read("count", at, "all", 0) EXCEPT !.err = "close"] \in Plain(f)
  BY <1>1, SMT DEF Read, Plain, Allowed, CallSet, CountCalls, Errs, NoDurableRow, Batched, WriterOps
<1>7. a \in Good(f) /\ c \in Good(f)
  <2>1. a \in Seq(Plain(f)) /\ c \in Seq(Plain(f))
    BY <1>3, <1>4, <1>5, <1>6, SMT
  <2>2. QED
    BY <2>1, GoodPlain, ZenonT(60)
<1>8. create \in Seq(Plain(f)) /\ memoirs \in Seq(Plain(f)) /\ chunks \in Seq(Plain(f))
  <2>1. create \in Seq(Plain(f))
    BY <1>4, SMT
  <2>2. memoirs \in Seq(Plain(f)) /\ chunks \in Seq(Plain(f))
    BY <1>1, SqlitePutGood, ZenonT(60) DEF EmbedFlags, Keys
  <2>3. QED
    BY <2>1, <2>2, ZenonT(60)
<1> HIDE DEF create, memoirs, chunks
<1>9. b \in Good(f)
  <2>1. create \o memoirs \o chunks \in Seq(Plain(f))
    BY <1>8, SMT
  <2>2. QED
    BY <2>1, OnErrorPlain, ZenonT(60) DEF Errs
<1>10. GateRows(p, at) \in Good(f)
  BY <1>1, GateRowsGood
<1>11. benchSQLitePostRestart(at, p, f) = a \o b \o c \o GateRows(p, at)
  BY DEF benchSQLitePostRestart, create, memoirs, chunks
<1> HIDE DEF a, b, c
<1>12. a \o b \o c \o GateRows(p, at) \in Good(f)
  BY <1>7, <1>9, <1>10, GoodConcat
<1>13. QED
  BY <1>11, <1>12 DEF at

-----------------------------------------------------------------------------
(* The programs.                                                           *)

\* Only known profiles are run.
LEMMA WantedKnown ==
  ASSUME NEW ids, NEW f \in EmbedFlags(ids)
  PROVE  Wanted(f) \subseteq Known
<1> DEFINE names == f.profiles
           stops == {i \in DOMAIN names : names[i] = "all" \/ ~(Named(names[i]) \subseteq Known)}
<1>1. parseProfiles(names) \in {{"all"}, {}} \/ parseProfiles(names) \subseteq Known
  <2>1. CASE stops = {}
    <3>1. \A i \in DOMAIN names : Named(names[i]) \subseteq Known
      BY <2>1
    <3>2. UNION {Named(names[i]) : i \in DOMAIN names} \subseteq Known
      BY <3>1
    <3>3. QED
      BY <2>1, <3>2 DEF parseProfiles
  <2>2. CASE stops # {}
    BY <2>2 DEF parseProfiles
  <2>3. QED
    BY <2>1, <2>2
<1>2. QED
  BY <1>1 DEF Wanted

LEMMA BenchGood ==
  ASSUME NEW ids, NEW f \in EmbedFlags(ids), NEW p \in Known
  PROVE  Bench(p, f) \in Good(f) /\ Gate(p, f) \in Good(f)
<1>1. CASE p \in SQLite
  BY <1>1, SQLiteGood, SQLitePostRestartGood DEF Bench, Gate
<1>2. CASE p \notin SQLite
  BY <1>2, F4KVSGood, F4KVSPostRestartGood, WhenGood DEF Bench, Gate
<1>3. QED
  BY <1>1, <1>2

LEMMA SelectedGood ==
  ASSUME NEW f, NEW want, want \subseteq Known, NEW calls \in [want -> Good(f)]
  PROVE  selectedProfileNames(want, calls) \in Good(f)
<1> DEFINE run(i) == When(knownProfiles[i] \in want, calls[knownProfiles[i]])
<1>1. \A i : run(i) \in Good(f)
  BY WhenGood, ZenonT(60)
<1>2. selectedProfileNames(want, calls)
         = run(1) \o run(2) \o run(3) \o run(4) \o run(5) \o run(6) \o run(7) \o run(8)
  BY DEF selectedProfileNames
<1> HIDE DEF run
<1>3. QED
  BY <1>1, <1>2, GoodConcat, ZenonT(60)

\* A call of embed_vs_sqlite that concerns no store.
LEMMA MainPlain ==
  ASSUME NEW f, NEW op \in {"fatal", "print_table", "write_json", "gate"} \cup WriterOps,
         op \in WriterOps => f.program = "embed_vs_sqlite", NEW err \in Errs
  PROVE  Call(op, <<>>, err) \in Plain(f) /\ <<Call(op, <<>>, err)>> \in Good(f)
<1>1. <<>> \in Paths
  BY SMT DEF Paths
<1>2. Call(op, <<>>, err) \in Plain(f)
  BY <1>1 DEF Call, Plain, Allowed, CallSet, SimpleCalls, PlainOps, NoDurableRow, Batched, WriterOps
<1>3. <<Call(op, <<>>, err)>> \in Seq(Plain(f))
  BY <1>2, SMT
<1>4. QED
  BY <1>2, <1>3, GoodPlain, ZenonT(60)

LEMMA EmbedGood ==
  ASSUME NEW ids, NEW f \in EmbedFlags(ids)
  PROVE  EmbedVsSQLite(f) \in Good(f)
<1> DEFINE want == Wanted(f)
           a == <<Call("mkdir", Tmp, "exit"), Defer(RemoveAll(Tmp))>>
           b == When(f.root, <<Call("new_run_writer", <<>>, "exit")>>)
           c == selectedProfileNames(want, [p \in want |-> Bench(p, f)])
           d == selectedProfileNames(want, [p \in want |-> Gate(p, f)])
           e == <<Call("print_table", <<>>, "ignore")>>
           g == When(f.out, <<Call("write_json", <<>>, "exit")>>)
           h == When(f.root, <<Call("append", <<>>, "exit"), Call("finalize", <<>>, "exit")>>)
           i == <<Call("gate", <<>>, "exit")>>
<1>0. f.program = "embed_vs_sqlite" /\ "exit" \in Errs /\ "ignore" \in Errs /\ Tmp \in Paths
  <2>1. "tmp" \in PathNames
    BY DEF PathNames
  <2>2. QED
    BY <2>1, SMT DEF EmbedFlags, Errs, Tmp, Paths
<1>1. a \in Good(f)
  <2>1. a \in Seq(Plain(f))
    BY <1>0, StorePlain, SMT
  <2>2. QED
    BY <2>1, GoodPlain, ZenonT(60)
<1>2. c \in Good(f) /\ d \in Good(f)
  <2>1. want \subseteq Known
    BY WantedKnown
  <2> HIDE DEF want
  <2>2. [p \in want |-> Bench(p, f)] \in [want -> Good(f)] /\ [p \in want |-> Gate(p, f)] \in [want -> Good(f)]
    BY <2>1, BenchGood
  <2>3. QED
    BY <2>1, <2>2, SelectedGood
<1>3. e \in Good(f) /\ i \in Good(f) /\ b \in Good(f) /\ g \in Good(f)
  BY <1>0, MainPlain, WhenGood DEF WriterOps
<1>4. h \in Good(f)
  <2>1. Call("append", <<>>, "exit") \in Plain(f) /\ Call("finalize", <<>>, "exit") \in Plain(f)
    BY <1>0, MainPlain, ZenonT(60) DEF WriterOps
  <2>2. <<Call("append", <<>>, "exit"), Call("finalize", <<>>, "exit")>> \in Seq(Plain(f))
    BY <2>1, SMT
  <2>3. QED
    BY <2>2, WhenPlain, ZenonT(60)
<1>5. <<Call("fatal", <<>>, "exit")>> \in Good(f) /\ Return(1) \in Good(f)
  BY <1>0, MainPlain, ReturnPlain DEF WriterOps
<1>6. EmbedVsSQLite(f) = IF want = {} THEN <<Call("fatal", <<>>, "exit")>>
                         ELSE a \o b \o c \o d \o e \o g \o h \o i \o Return(1)
  BY DEF EmbedVsSQLite
<1> HIDE DEF want, a, b, c, d, e, g, h, i
<1>7. a \o b \o c \o d \o e \o g \o h \o i \o Return(1) \in Good(f)
  BY <1>1, <1>2, <1>3, <1>4, <1>5, GoodConcat
<1>8. QED
  BY <1>5, <1>6, <1>7

LEMMA ReadTaxGood ==
  ASSUME NEW f \in ReadTaxFlags
  PROVE  FfiReadTax(f) \in Good(f)
<1> DEFINE dir == IF f.dir THEN <<"dir">> ELSE Tmp
           a == <<Call("mkdir", dir, "exit")>>
           b == <<Open(dir, Nil)>>
           c == When(f.bulkImport, <<SetBulkImport(dir)>>)
           d == <<Write("batch", dir, "chunk", f.chunks, f.chunks), Close(dir)>>
           e == <<Open(dir, Nil), Defer(Close(dir))>>
           g == Gets(dir, "chunk", f.chunks, f.gets)
           h == When(f.out, <<Call("write_json", <<>>, "exit")>>)
<1>0. f.chunks \in Nat /\ f.gets \in Nat /\ "exit" \in Errs /\ "chunk" \in Keys
  BY DEF ReadTaxFlags, Errs, Keys
<1>1. dir \in Paths /\ dir \notin LazyPaths
  <2>1. "tmp" \in PathNames /\ "dir" \in PathNames
    BY DEF PathNames
  <2>2. <<"dir">> \in Paths /\ Tmp \in Paths
    BY <2>1, SMT DEF Tmp, Paths
  <2>3. QED
    BY <2>2, LazyFacts
<1> HIDE DEF dir
<1>2. Open(dir, Nil) \in Plain(f)
  BY <1>1, OpenPlain, ZenonT(60) DEF Nil, Options
<1>3. Write("batch", dir, "chunk", f.chunks, f.chunks) \in Plain(f)
  BY <1>0, <1>1, SMT DEF Write, Plain, Allowed, CallSet, WriteCalls, NoDurableRow, Batched, WriterOps
<1>4. /\ Call("mkdir", dir, "exit") \in Plain(f) /\ SetBulkImport(dir) \in Plain(f)
      /\ Close(dir) \in Plain(f) /\ Defer(Close(dir)) \in Plain(f)
  BY <1>1, StorePlain
<1>5. a \in Good(f) /\ b \in Good(f) /\ c \in Good(f) /\ d \in Good(f) /\ e \in Good(f)
  <2>1. /\ a \in Seq(Plain(f)) /\ b \in Seq(Plain(f)) /\ <<SetBulkImport(dir)>> \in Seq(Plain(f))
        /\ d \in Seq(Plain(f)) /\ e \in Seq(Plain(f))
    BY <1>2, <1>3, <1>4, SMT
  <2>2. QED
    BY <2>1, GoodPlain, WhenPlain, ZenonT(60)
<1>6. g \in Good(f)
  BY <1>0, <1>1, GetsGood
<1>7. h \in Good(f)
  BY <1>0, MainPlain, WhenGood DEF WriterOps
<1>8. Return(1) \in Good(f)
  BY ReturnPlain
<1>9. FfiReadTax(f) = a \o When(~f.readOnly, b \o c \o d) \o When(~f.prepareOnly, e \o g \o h \o Return(1))
  BY DEF FfiReadTax, dir
<1> HIDE DEF a, b, c, d, e, g, h
<1>10. b \o c \o d \in Good(f) /\ e \o g \o h \o Return(1) \in Good(f)
  BY <1>5, <1>6, <1>7, <1>8, GoodConcat
<1>11. QED
  BY <1>5, <1>9, <1>10, WhenGood, GoodConcat, SMT

LEMMA ProbesGood ==
  ASSUME NEW f \in ProbeFlags
  PROVE  F4kvsBatchProbe(f) \in Good(f) /\ SqliteFsyncProbe(f) \in Good(f)
<1>0. f.chunks \in Nat /\ "chunk" \in Keys /\ "panic" \in Errs /\ "exit" \in Errs
  BY DEF ProbeFlags, Keys, Errs
<1>1. Return(3) \in Good(f)
  BY ReturnPlain
<1>2. F4kvsBatchProbe(f) \in Good(f)
  <2> DEFINE batch == <<"tmp-batch">>
             a == <<Call("mkdir", Tmp, "exit"), Defer(RemoveAll(Tmp)), Open(Tmp, Nil), Defer(Close(Tmp))>>
             b == Puts("put", Tmp, "chunk", f.chunks)
             c == <<Open(batch, Nil), Defer(Close(batch)),
                    Write("batch", batch, "chunk", f.chunks, f.chunks)>>
  <2>1. Tmp \in Paths /\ batch \in Paths /\ Tmp \notin LazyPaths /\ batch \notin LazyPaths
    <3>1. "tmp" \in PathNames /\ "tmp-batch" \in PathNames
      BY DEF PathNames
    <3>2. QED
      BY <3>1, LazyFacts, SMT DEF Paths, Tmp
  <2> HIDE DEF batch
  <2>2. Open(Tmp, Nil) \in Plain(f) /\ Open(batch, Nil) \in Plain(f)
    BY <2>1, OpenPlain, ZenonT(60) DEF Nil, Options
  <2>3. Write("batch", batch, "chunk", f.chunks, f.chunks) \in Plain(f)
    BY <1>0, <2>1, SMT DEF Write, Plain, Allowed, CallSet, WriteCalls, NoDurableRow, Batched, WriterOps
  <2>4. a \in Seq(Plain(f)) /\ c \in Seq(Plain(f))
    BY <2>1, <2>2, <2>3, StorePlain, SMT
  <2>5. b \in Seq(Plain(f))
    BY <1>0, <2>1, PutsGood
  <2>6. F4kvsBatchProbe(f) = OnError("panic", a \o b \o c) \o Return(3)
    BY DEF F4kvsBatchProbe, batch
  <2> HIDE DEF a, b, c
  <2>7. a \o b \o c \in Seq(Plain(f))
    BY <2>4, <2>5, SMT
  <2>8. QED
    BY <1>0, <1>1, <2>6, <2>7, OnErrorPlain, GoodConcat, ZenonT(60)
<1>3. SqliteFsyncProbe(f) \in Good(f)
  <2> DEFINE probe(profile) ==
                LET at == Dir(profile)
                IN  <<Call("mkdir", at, "exit"), Defer(RemoveAll(at)),
                      OpenDB(at, profile = "wal_normal"), Call("create_table", at, "exit")>>
                    \o Puts("put", at, "chunk", f.chunks) \o <<Close(at)>>
  <2>1. ASSUME NEW p \in {"wal_full", "wal_normal", "delete_full"} PROVE probe(p) \in Seq(Plain(f))
    <3> DEFINE at == Dir(p)
               a == <<Call("mkdir", at, "exit"), Defer(RemoveAll(at)),
                      OpenDB(at, p = "wal_normal"), Call("create_table", at, "exit")>>
               b == Puts("put", at, "chunk", f.chunks)
               c == <<Close(at)>>
    <3>1. at \in Paths
      <4>1. p \in PathNames /\ "tmp" \in PathNames
        BY DEF PathNames
      <4>2. QED
        BY <4>1, SMT DEF Dir, Paths
    <3>2. (p = "wal_normal") <=> at \in LazyPaths
      BY LazyFacts
    <3> HIDE DEF at
    <3>3. OpenDB(at, p = "wal_normal") \in Plain(f)
      BY <3>1, <3>2, OpenDBPlain, ZenonT(60)
    <3>4. a \in Seq(Plain(f)) /\ c \in Seq(Plain(f))
      BY <3>1, <3>3, StorePlain, SMT
    <3>5. b \in Seq(Plain(f))
      BY <1>0, <3>1, PutsGood
    <3>6. probe(p) = a \o b \o c
      BY DEF at
    <3> HIDE DEF a, b, c, probe
    <3>7. QED
      BY <3>4, <3>5, <3>6, SMT
  <2>2. SqliteFsyncProbe(f)
           = OnError("panic", probe("wal_full") \o probe("wal_normal") \o probe("delete_full")) \o Return(3)
    BY DEF SqliteFsyncProbe
  <2> HIDE DEF probe
  <2>3. probe("wal_full") \o probe("wal_normal") \o probe("delete_full") \in Seq(Plain(f))
    BY <2>1, SMT
  <2>4. QED
    BY <1>0, <1>1, <2>2, <2>3, OnErrorPlain, GoodConcat, ZenonT(60)
<1>4. QED
  BY <1>2, <1>3

\* Every script is good: whatever the flags, a row of durable ingest comes
\* just after a FlushWAL of its store, unless writes to it are durable; and a
\* row of batched ingest comes after as many writes to its store, since it
\* was opened or last measured, as the batch size asks for.
THEOREM ScriptGood ==
  ASSUME NEW ids, NEW f \in EmbedFlags(ids) \cup ReadTaxFlags \cup ProbeFlags
  PROVE  Script(f) \in Good(f)
<1>1. CASE f \in EmbedFlags(ids)
  BY <1>1, EmbedGood DEF EmbedFlags, Script
<1>2. CASE f \in ReadTaxFlags
  BY <1>2, ReadTaxGood DEF ReadTaxFlags, Script
<1>3. CASE f \in ProbeFlags
  BY <1>3, ProbesGood DEF ProbeFlags, Script
<1>4. QED
  BY <1>1, <1>2, <1>3

-----------------------------------------------------------------------------
(* Traces: what holds before and after each call of a script.              *)

LEMMA LeadsConcat ==
  ASSUME NEW R, NEW a, NEW b, NEW c, NEW s \in Leads(R, a, b), NEW t \in Leads(R, b, c)
  PROVE  s \o t \in Leads(R, a, c)
<1>1. s \in Seq(CallSet) /\ t \in Seq(CallSet)
  BY DEF Leads
<1>2. PICK g : g[1] = a /\ g[Len(s) + 1] = b /\ \A i \in 1 .. Len(s) : <<g[i], s[i], g[i + 1]>> \in R
  BY DEF Leads
<1>3. PICK h : h[1] = b /\ h[Len(t) + 1] = c /\ \A i \in 1 .. Len(t) : <<h[i], t[i], h[i + 1]>> \in R
  BY DEF Leads
<1> DEFINE m == Len(s)
           n == Len(t)
           k == [i \in 1 .. m + n + 1 |-> IF i <= m THEN g[i] ELSE h[i - m]]
<1>4. m \in Nat /\ n \in Nat
  BY <1>1, SMT
<1>5. /\ s \o t \in Seq(CallSet) /\ Len(s \o t) = m + n
      /\ \A i \in 1 .. m : (s \o t)[i] = s[i]
      /\ \A i \in m + 1 .. m + n : (s \o t)[i] = t[i - m]
  BY <1>1, SMT
<1> HIDE DEF m, n
<1>6. \A i \in 1 .. m + 1 : k[i] = g[i]
  <2>1. \A i \in 1 .. m : i \in 1 .. m + n + 1 /\ i <= m
    BY <1>4, SMT
  <2>2. \A i \in 1 .. m : k[i] = g[i]
    BY <2>1
  <2>3. m + 1 \in 1 .. m + n + 1 /\ ~(m + 1 <= m) /\ (m + 1) - m = 1
    BY <1>4, SMT
  <2>4. k[m + 1] = g[m + 1]
    BY <1>2, <1>3, <2>3 DEF m
  <2>5. \A i \in 1 .. m + 1 : i \in 1 .. m \/ i = m + 1
    BY <1>4, SMT
  <2>6. QED
    BY <2>2, <2>4, <2>5
<1>7. \A i \in m + 1 .. m + n + 1 : k[i] = h[i - m]
  <2>1. \A i \in m + 1 .. m + n + 1 : i \in 1 .. m + n + 1 /\ ~(i <= m)
    BY <1>4, SMT
  <2>2. QED
    BY <2>1
<1> HIDE DEF k
<1>8. ASSUME NEW i \in 1 .. m + n PROVE <<k[i], (s \o t)[i], k[i + 1]>> \in R
  <2>1. CASE i \in 1 .. m
    <3>1. i \in 1 .. m + 1 /\ i + 1 \in 1 .. m + 1
      BY <1>4, <2>1, SMT
    <3>2. QED
      BY <1>2, <1>5, <1>6, <2>1, <3>1 DEF m
  <2>2. CASE i \in m + 1 .. m + n
    <3>1. /\ i \in m + 1 .. m + n + 1 /\ i + 1 \in m + 1 .. m + n + 1
          /\ i - m \in 1 .. n /\ (i + 1) - m = (i - m) + 1
      BY <1>4, <2>2, SMT
    <3>2. QED
      BY <1>3, <1>5, <1>7, <2>2, <3>1 DEF n
  <2>3. i \in 1 .. m \/ i \in m + 1 .. m + n
    BY <1>4, SMT
  <2>4. QED
    BY <2>1, <2>2, <2>3
<1>9. k[1] = a /\ k[m + n + 1] = c
  <2>1. 1 \in 1 .. m + 1 /\ m + n + 1 \in m + 1 .. m + n + 1 /\ (m + n + 1) - m = n + 1
    BY <1>4, SMT
  <2>2. k[1] = g[1] /\ k[m + n + 1] = h[n + 1]
    BY <1>6, <1>7, <2>1, SMT
  <2>3. QED
    BY <1>2, <1>3, <2>2 DEF n
<1>10. QED
  BY <1>5, <1>8, <1>9 DEF Leads

LEMMA LeadsOne ==
  ASSUME NEW R, NEW a, NEW b, NEW c \in CallSet, <<a, c, b>> \in R
  PROVE  <<c>> \in Leads(R, a, b)
<1> DEFINE g == <<a, b>>
<1>1. <<c>> \in Seq(CallSet) /\ Len(<<c>>) = 1 /\ <<c>>[1] = c /\ g[1] = a /\ g[2] = b
  BY SMT
<1> HIDE DEF g
<1>2. Len(<<c>>) + 1 = 2 /\ 1 + 1 = 2 /\ \A i \in 1 .. Len(<<c>>) : i = 1
  BY <1>1, SMT
<1>3. \A i \in 1 .. Len(<<c>>) : <<g[i], <<c>>[i], g[i + 1]>> \in R
  BY <1>1, <1>2
<1>4. QED
  BY <1>1, <1>2, <1>3, ZenonT(60) DEF Leads

LEMMA LeadsTwo ==
  ASSUME NEW R, NEW a0, NEW a1, NEW a2,
         NEW c1 \in CallSet, NEW c2 \in CallSet,
         <<a0, c1, a1>> \in R, <<a1, c2, a2>> \in R
  PROVE  <<c1, c2>> \in Leads(R, a0, a2)
<1> DEFINE g == <<a0, a1, a2>>
           s == <<c1, c2>>
<1>1. s \in Seq(CallSet) /\ Len(s) = 2
  BY SMT
<1>2. s[1] = c1 /\ s[2] = c2
  BY SMT
<1>3. g[1] = a0 /\ g[2] = a1 /\ g[3] = a2
  BY SMT
<1> HIDE DEF g, s
<1>4. ASSUME NEW i \in 1 .. 2 PROVE <<g[i], s[i], g[i + 1]>> \in R
  <2>1. (i = 1 /\ i + 1 = 2) \/ (i = 2 /\ i + 1 = 3)
    BY SMT
  <2>2. QED
    BY <1>2, <1>3, <2>1, ZenonT(60)
<1>5. Len(s) + 1 = 3
  BY <1>1, SMT
<1>6. QED
  BY <1>1, <1>3, <1>4, <1>5, ZenonT(60) DEF Leads, s

LEMMA LeadsFour ==
  ASSUME NEW R, NEW a0, NEW a1, NEW a2, NEW a3, NEW a4,
         NEW c1 \in CallSet, NEW c2 \in CallSet, NEW c3 \in CallSet, NEW c4 \in CallSet,
         <<a0, c1, a1>> \in R, <<a1, c2, a2>> \in R, <<a2, c3, a3>> \in R,
         <<a3, c4, a4>> \in R
  PROVE  <<c1, c2, c3, c4>> \in Leads(R, a0, a4)
<1> DEFINE g == <<a0, a1, a2, a3, a4>>
           s == <<c1, c2, c3, c4>>
<1>1. s \in Seq(CallSet) /\ Len(s) = 4
  BY SMT
<1>2. s[1] = c1 /\ s[2] = c2 /\ s[3] = c3 /\ s[4] = c4
  BY SMT
<1>3. g[1] = a0 /\ g[2] = a1 /\ g[3] = a2 /\ g[4] = a3 /\ g[5] = a4
  BY SMT
<1> HIDE DEF g, s
<1>4. ASSUME NEW i \in 1 .. 4 PROVE <<g[i], s[i], g[i + 1]>> \in R
  <2>1. (i = 1 /\ i + 1 = 2) \/ (i = 2 /\ i + 1 = 3) \/ (i = 3 /\ i + 1 = 4) \/ (i = 4 /\ i + 1 = 5)
    BY SMT
  <2>2. QED
    BY <1>2, <1>3, <2>1, ZenonT(60)
<1>5. Len(s) + 1 = 5
  BY <1>1, SMT
<1>6. QED
  BY <1>1, <1>3, <1>4, <1>5, ZenonT(60) DEF Leads, s

LEMMA LeadsFive ==
  ASSUME NEW R, NEW a0, NEW a1, NEW a2, NEW a3, NEW a4, NEW a5,
         NEW c1 \in CallSet, NEW c2 \in CallSet, NEW c3 \in CallSet, NEW c4 \in CallSet, NEW c5 \in CallSet,
         <<a0, c1, a1>> \in R, <<a1, c2, a2>> \in R, <<a2, c3, a3>> \in R,
         <<a3, c4, a4>> \in R, <<a4, c5, a5>> \in R
  PROVE  <<c1, c2, c3, c4, c5>> \in Leads(R, a0, a5)
<1> DEFINE g == <<a0, a1, a2, a3, a4, a5>>
           s == <<c1, c2, c3, c4, c5>>
<1>1. s \in Seq(CallSet) /\ Len(s) = 5
  BY SMT
<1>2. s[1] = c1 /\ s[2] = c2 /\ s[3] = c3 /\ s[4] = c4 /\ s[5] = c5
  BY SMT
<1>3. g[1] = a0 /\ g[2] = a1 /\ g[3] = a2 /\ g[4] = a3 /\ g[5] = a4 /\ g[6] = a5
  BY SMT
<1> HIDE DEF g, s
<1>4. ASSUME NEW i \in 1 .. 5 PROVE <<g[i], s[i], g[i + 1]>> \in R
  <2>1. (i = 1 /\ i + 1 = 2) \/ (i = 2 /\ i + 1 = 3) \/ (i = 3 /\ i + 1 = 4) \/ (i = 4 /\ i + 1 = 5) \/ (i = 5 /\ i + 1 = 6)
    BY SMT
  <2>2. QED
    BY <1>2, <1>3, <2>1, ZenonT(60)
<1>5. Len(s) + 1 = 6
  BY <1>1, SMT
<1>6. QED
  BY <1>1, <1>3, <1>4, <1>5, ZenonT(60) DEF Leads, s

\* Calls that change nothing, in any number.
LEMMA LeadsStay ==
  ASSUME NEW R, NEW a, NEW X, X \subseteq CallSet, \A c \in X : <<a, c, a>> \in R, NEW s \in Seq(X)
  PROVE  s \in Leads(R, a, a)
<1>1. s \in Seq(CallSet) /\ Len(s) \in Nat /\ \A i \in 1 .. Len(s) : s[i] \in X
  BY SMT
<1> DEFINE g == [i \in 1 .. Len(s) + 1 |-> a]
<1>2. /\ 1 \in 1 .. Len(s) + 1 /\ Len(s) + 1 \in 1 .. Len(s) + 1
      /\ \A i \in 1 .. Len(s) : i \in 1 .. Len(s) + 1 /\ i + 1 \in 1 .. Len(s) + 1
  BY <1>1, SMT
<1>3. g[1] = a /\ g[Len(s) + 1] = a /\ \A i \in 1 .. Len(s) : g[i] = a /\ g[i + 1] = a
  BY <1>2
<1> HIDE DEF g
<1>4. QED
  BY <1>1, <1>3, ZenonT(60) DEF Leads

LEMMA LeadsWhen ==
  ASSUME NEW R, NEW a, NEW b, NEW s, b => s \in Leads(R, a, a)
  PROVE  When(b, s) \in Leads(R, a, a)
<1>1. <<>> \in Seq({})
  BY SMT
<1>2. <<>> \in Leads(R, a, a)
  BY <1>1, LeadsStay, ZenonT(60)
<1>3. QED
  BY <1>2 DEF When

-----------------------------------------------------------------------------
(* The shape of a function of the benchmark: what it defers and opens, the *)
(* order of its rows, and which stores it touches.                         *)

\* A state of a trace: the deferred calls, the stores that may be open, and
\* the rank up to which rows have been recorded.
States == Seq(Put_Off) \X (SUBSET Paths) \X Nat

\* Calls that main makes, and no function of a profile.
MainOps == {"new_run_writer", "append", "finalize", "gate", "print_table", "write_json", "fatal"}

\* The calls of a function for profile q that touches the stores D only.
Calls(D, q) ==
    {c \in CallSet :
        /\ c.op \notin MainOps /\ IF c.op = "return" THEN c.at = <<>> ELSE c.at \in D
        /\ c.op = "defer" => c.call.at \in D
        /\ c.op = "row" => c.profile = q}

\* A row is of higher rank than those before it.
RankMove(n, c, m) == IF c.op = "row" THEN n < Rank(c) /\ Rank(c) <= m ELSE m = n

ShapeMove(u, c, v) == StackMove(u, c, v) /\ RankMove(u[3], c, v[3])
Shape(D, q) == {m \in States \X CallSet \X States : m[2] \in Calls(D, q) /\ ShapeMove(m[1], m[2], m[3])}

LEMMA ShapeIs ==
  ASSUME NEW D, NEW q, NEW stk \in Seq(Put_Off), NEW opn \in SUBSET Paths, NEW n \in Nat, NEW c \in Calls(D, q),
         NEW stk2 \in Seq(Put_Off), NEW opn2 \in SUBSET Paths, NEW n2 \in Nat,
         ShapeMove(<<stk, opn, n>>, c, <<stk2, opn2, n2>>)
  PROVE  <<<<stk, opn, n>>, c, <<stk2, opn2, n2>>>> \in Shape(D, q)
<1>1. <<stk, opn, n>> \in States /\ <<stk2, opn2, n2>> \in States /\ c \in CallSet
  BY DEF States, Calls
<1>2. QED
  BY <1>1 DEF Shape

\* Calls that do not change the shape.
LEMMA InertMove ==
  ASSUME NEW D, NEW q, NEW at \in D, NEW c \in Inert(at),
         NEW stk \in Seq(Put_Off), NEW opn \in SUBSET Paths, NEW n \in Nat
  PROVE  c \in CallSet /\ <<<<stk, opn, n>>, c, <<stk, opn, n>>>> \in Shape(D, q)
<1>1. c \in Calls(D, q)
  BY DEF Inert, InertOps, Calls, MainOps
<1>2. ShapeMove(<<stk, opn, n>>, c, <<stk, opn, n>>)
  BY DEF Inert, InertOps, ShapeMove, StackMove, RankMove
<1>3. QED
  BY <1>1, <1>2, ShapeIs DEF Calls

LEMMA InertLeads ==
  ASSUME NEW D, NEW q, NEW at \in D, NEW s \in Seq(Inert(at)),
         NEW stk \in Seq(Put_Off), NEW opn \in SUBSET Paths, NEW n \in Nat
  PROVE  s \in Leads(Shape(D, q), <<stk, opn, n>>, <<stk, opn, n>>)
<1>1. Inert(at) \subseteq CallSet
  BY DEF Inert
<1>2. \A c \in Inert(at) : <<<<stk, opn, n>>, c, <<stk, opn, n>>>> \in Shape(D, q)
  BY InertMove
<1>3. QED
  BY <1>1, <1>2, LeadsStay

LEMMA RowMove ==
  ASSUME NEW D, NEW q \in Known, NEW at \in D, at \in Paths, NEW phase \in RowPhases, NEW metric \in Metrics \cup {""},
         NEW c, c \in RowCalls, c.at = at, c.phase = phase, c.profile = q, c.metric = metric,
         NEW stk \in Seq(Put_Off), NEW opn \in SUBSET Paths, NEW n \in Nat, NEW m \in Nat,
         n < Rank(c), Rank(c) <= m
  PROVE  c \in CallSet /\ <<<<stk, opn, n>>, c, <<stk, opn, m>>>> \in Shape(D, q)
<1>1. c.op = "row" /\ c \in CallSet
  BY DEF RowCalls, CallSet
<1>2. c \in Calls(D, q)
  BY <1>1 DEF Calls, MainOps
<1>3. ShapeMove(<<stk, opn, n>>, c, <<stk, opn, m>>)
  BY <1>1 DEF ShapeMove, StackMove, RankMove
<1>4. QED
  BY <1>1, <1>2, <1>3, ShapeIs

LEMMA OpenMove ==
  ASSUME NEW D, NEW q, NEW c \in OpenCalls, c.at \in D,
         NEW stk \in Seq(Put_Off), NEW opn \in SUBSET Paths, NEW n \in Nat
  PROVE  c \in CallSet /\ <<<<stk, opn, n>>, c, <<stk, opn \cup {c.at}, n>>>> \in Shape(D, q)
<1>1. c.op = "open" /\ c \in CallSet /\ opn \cup {c.at} \in SUBSET Paths
  BY DEF OpenCalls, CallSet
<1>2. c \in Calls(D, q)
  BY <1>1 DEF Calls, MainOps
<1>3. ShapeMove(<<stk, opn, n>>, c, <<stk, opn \cup {c.at}, n>>)
  BY <1>1 DEF ShapeMove, StackMove, RankMove
<1>4. QED
  BY <1>1, <1>2, <1>3, ShapeIs

LEMMA StoreMove ==
  ASSUME NEW D, NEW q, NEW c \in SimpleCalls, c.at \in D, c.op \in {"close", "remove_all"},
         NEW stk \in Seq(Put_Off), NEW opn \in SUBSET Paths, NEW opn2 \in SUBSET Paths, NEW n \in Nat,
         IF c.op = "close" THEN opn \ {c.at} \subseteq opn2
         ELSE opn \subseteq opn2 /\ \A x \in opn : ~Below(x, c.at)
  PROVE  c \in CallSet /\ <<<<stk, opn, n>>, c, <<stk, opn2, n>>>> \in Shape(D, q)
<1>1. c \in CallSet
  BY DEF CallSet
<1>2. c \in Calls(D, q)
  BY <1>1 DEF Calls, MainOps
<1>3. ShapeMove(<<stk, opn, n>>, c, <<stk, opn2, n>>)
  BY DEF ShapeMove, StackMove, RankMove
<1>4. QED
  BY <1>1, <1>2, <1>3, ShapeIs

LEMMA DeferMove ==
  ASSUME NEW D, NEW q, NEW d \in Put_Off, d.at \in D,
         NEW stk \in Seq(Put_Off), NEW opn \in SUBSET Paths, NEW n \in Nat
  PROVE  /\ Defer(d) \in CallSet /\ <<d>> \o stk \in Seq(Put_Off)
         /\ <<<<stk, opn, n>>, Defer(d), <<<<d>> \o stk, opn, n>>>> \in Shape(D, q)
<1>1. Defer(d) \in CallSet /\ Defer(d).op = "defer" /\ Defer(d).call = d /\ Defer(d).at = d.at
  BY DEF Defer, CallSet, DeferCalls, Put_Off, Errs
<1>2. <<d>> \o stk \in Seq(Put_Off)
  BY SMT
<1>3. Defer(d) \in Calls(D, q)
  BY <1>1 DEF Calls, MainOps
<1>4. ShapeMove(<<stk, opn, n>>, Defer(d), <<<<d>> \o stk, opn, n>>)
  BY <1>1 DEF ShapeMove, StackMove, RankMove
<1>5. QED
  BY <1>1, <1>2, <1>3, <1>4, ShapeIs

\* A function returns: what it deferred last is done.
LEMMA ReturnMove ==
  ASSUME NEW D, NEW q, NEW d \in Put_Off,
         NEW stk \in Seq(Put_Off), NEW opn \in SUBSET Paths, NEW opn2 \in SUBSET Paths, NEW n \in Nat,
         IF d.op = "close" THEN opn \ {d.at} \subseteq opn2
         ELSE opn \subseteq opn2 /\ \A x \in opn : ~Below(x, d.at)
  PROVE  LET c == Call("return", <<>>, "ignore")
         IN  c \in CallSet /\ <<<<<<d>> \o stk, opn, n>>, c, <<stk, opn2, n>>>> \in Shape(D, q)
<1> DEFINE c == Call("return", <<>>, "ignore")
           st == <<d>> \o stk
<1>1. st \in Seq(Put_Off) /\ st # <<>> /\ Head(st) = d /\ Tail(st) = stk
  BY SMT
<1>2. <<>> \in Paths
  BY SMT DEF Paths
<1>3. c \in CallSet /\ c.op = "return" /\ c.at = <<>>
  BY <1>2 DEF Call, CallSet, SimpleCalls, PlainOps, Errs
<1>4. c \in Calls(D, q)
  BY <1>3 DEF Calls, MainOps
<1>5. d.op \in {"close", "remove_all"}
  BY DEF Put_Off
<1> HIDE DEF c, st
<1>6. ShapeMove(<<st, opn, n>>, c, <<stk, opn2, n>>)
  BY <1>1, <1>3, <1>5 DEF ShapeMove, StackMove, RankMove
<1>7. <<<<st, opn, n>>, c, <<stk, opn2, n>>>> \in Shape(D, q)
  BY <1>1, <1>4, <1>6, ShapeIs
<1>8. QED
  BY <1>3, <1>7 DEF c, st

LEMMA ReturnOne == Return(1) = <<Call("return", <<>>, "ignore")>>
<1> DEFINE c == Call("return", <<>>, "ignore")
<1>1. Return(1) = [i \in 1 .. 1 |-> c]
  BY DEF Return
<1> HIDE DEF c
<1>2. [i \in 1 .. 1 |-> c] = <<c>>
  BY SMT
<1>3. QED
  BY <1>1, <1>2 DEF c

\* The beginning and the end of a function that opens a store and defers its
\* Close.
LEMMA Brackets ==
  ASSUME NEW D, NEW q, NEW dir \in D, dir \in Paths, NEW c \in OpenCalls, c.at = dir,
         NEW stk \in Seq(Put_Off), NEW opn \in SUBSET Paths, NEW n \in Nat
  PROVE  /\ <<Close(dir)>> \o stk \in Seq(Put_Off) /\ opn \cup {dir} \in SUBSET Paths
         /\ <<c, Defer(Close(dir))>> \in
               Leads(Shape(D, q), <<stk, opn, n>>, <<<<Close(dir)>> \o stk, opn \cup {dir}, n>>)
         /\ Return(1) \in
               Leads(Shape(D, q), <<<<Close(dir)>> \o stk, opn \cup {dir}, n>>, <<stk, opn, n>>)
<1> DEFINE d == Close(dir)
           st == <<d>> \o stk
           op == opn \cup {dir}
           r == Call("return", <<>>, "ignore")
<1>1. d \in Put_Off /\ d.at = dir /\ d.op = "close"
  BY DEF Close, Call, Put_Off
<1> HIDE DEF d
<1>2. op \in SUBSET Paths
  OBVIOUS
<1>3. c \in CallSet /\ <<<<stk, opn, n>>, c, <<stk, op, n>>>> \in Shape(D, q)
  BY OpenMove
<1>4. op \ {d.at} \subseteq opn
  BY <1>1
<1> HIDE DEF op
<1>5. Defer(d) \in CallSet /\ st \in Seq(Put_Off) /\ <<<<stk, op, n>>, Defer(d), <<st, op, n>>>> \in Shape(D, q)
  BY <1>1, <1>2, DeferMove
<1>6. r \in CallSet /\ <<<<st, op, n>>, r, <<stk, opn, n>>>> \in Shape(D, q)
  BY <1>1, <1>2, <1>4, ReturnMove
<1> HIDE DEF st, r
<1>7. <<c, Defer(d)>> \in Leads(Shape(D, q), <<stk, opn, n>>, <<st, op, n>>)
  BY <1>3, <1>5, LeadsTwo
<1>8. <<r>> \in Leads(Shape(D, q), <<st, op, n>>, <<stk, opn, n>>)
  BY <1>6, LeadsOne
<1>9. QED
  BY <1>2, <1>5, <1>7, <1>8, ReturnOne DEF d, st, op, r

-----------------------------------------------------------------------------
(* Loops do not change the shape.                                          *)

LEMMA InertLoop ==
  ASSUME NEW at, NEW n \in Nat, NEW s, s \in [1 .. n -> Inert(at)]
  PROVE  s \in Seq(Inert(at))
  BY SMT

LEMMA InertConcat ==
  ASSUME NEW at, NEW s \in Seq(Inert(at)), NEW t \in Seq(Inert(at))
  PROVE  s \o t \in Seq(Inert(at))
  BY SMT

LEMMA InertWhen ==
  ASSUME NEW at, NEW b, NEW s, b => s \in Seq(Inert(at))
  PROVE  When(b, s) \in Seq(Inert(at))
  BY SMT DEF When

\* What is plain is a call.
LEMMA PlainCalls ==
  ASSUME NEW f, NEW at, NEW c \in Plain(f), c.at = at, c.op \in InertOps
  PROVE  c \in Inert(at)
  BY DEF Plain, Allowed, Inert

LEMMA PutsInert ==
  ASSUME NEW at \in Paths, NEW key \in Keys, NEW n \in Nat
  PROVE  Puts("put", at, key, n) \in Seq(Inert(at))
<1>1. \A i \in 1 .. n : Write("put", at, key, 1, i) \in Inert(at)
  BY SMT DEF Write, Inert, InertOps, CallSet, WriteCalls, Errs
<1>2. Puts("put", at, key, n) \in [1 .. n -> Inert(at)]
  BY <1>1 DEF Puts
<1>3. QED
  BY <1>2, InertLoop

LEMMA GetsInert ==
  ASSUME NEW at \in Paths, NEW key \in Keys, NEW keys \in Nat, NEW gets \in Nat
  PROVE  Gets(at, key, keys, gets) \in Seq(Inert(at))
<1>1. CASE gets > 0 /\ keys = 0
  <2>1. Call("divide_by_zero", at, "panic") \in Inert(at)
    BY DEF Call, Inert, InertOps, CallSet, SimpleCalls, PlainOps, Errs
  <2>2. <<Call("divide_by_zero", at, "panic")>> \in Seq(Inert(at))
    BY <2>1, SMT
  <2>3. QED
    BY <1>1, <2>2, ZenonT(60) DEF Gets
<1>2. CASE ~(gets > 0 /\ keys = 0)
  <2>1. ASSUME NEW i \in 1 .. gets PROVE Read("get", at, key, (i - 1) % keys) \in Inert(at)
    <3>1. (i - 1) % keys \in Int
      BY <1>2, SMT
    <3>2. QED
      BY <3>1 DEF Read, Inert, InertOps, CallSet, ReadCalls, Errs
  <2>2. Gets(at, key, keys, gets) \in [1 .. gets -> Inert(at)]
    BY <1>2, <2>1 DEF Gets
  <2>3. QED
    BY <2>2, InertLoop
<1>3. QED
  BY <1>1, <1>2

LEMMA FillingInert ==
  ASSUME NEW f, NEW at, NEW s \in Seq(Filling(f, at))
  PROVE  s \in Seq(Inert(at))
<1>1. Filling(f, at) \subseteq Inert(at)
  BY DEF Filling
<1>2. QED
  BY <1>1, SMT

LEMMA FillingConcat ==
  ASSUME NEW f, NEW at, NEW s \in Seq(Filling(f, at)), NEW t \in Seq(Filling(f, at))
  PROVE  s \o t \in Seq(Filling(f, at))
  BY SMT

LEMMA FillingWhen ==
  ASSUME NEW f, NEW at, NEW b, NEW s, b => s \in Seq(Filling(f, at))
  PROVE  When(b, s) \in Seq(Filling(f, at))
  BY SMT DEF When

LEMMA WriteFilling ==
  ASSUME NEW f, NEW at \in Paths, NEW op \in {"put", "batch", "commit"}, NEW key \in Keys, NEW n \in Int,
         NEW upto \in Int, upto <= Limit(f, key)
  PROVE  Write(op, at, key, n, upto) \in Filling(f, at)
<1>1. Write(op, at, key, n, upto) \in WriteCalls
  BY DEF Write, WriteCalls, Errs
<1>2. QED
  BY <1>1 DEF Write, Filling, Inert, InertOps, CallSet

LEMMA SimpleFilling ==
  ASSUME NEW f, NEW at \in Paths, NEW err \in Errs,
         NEW op \in {"set_bulk_import", "flush_wal", "create_table", "begin", "prepare", "insert"}
  PROVE  Call(op, at, err) \in Filling(f, at)
<1>1. Call(op, at, err) \in SimpleCalls
  BY DEF Call, SimpleCalls, PlainOps
<1>2. QED
  BY <1>1 DEF Call, Filling, Inert, InertOps, CallSet

LEMMA BatchesFill ==
  ASSUME NEW f, f.batch \in Nat, f.chunks \in Nat, NEW at \in Paths
  PROVE  batchPutBytesChunked(at, f.chunks, f) \in Seq(Filling(f, at))
<1> DEFINE n == f.chunks
           step == resolveBatchPutSize(n, BatchPutSize(f))
           Size(i) == IF (i + 1) * step <= n THEN step ELSE n - i * step
           count == (n + step - 1) \div step
           call(i) == Write("batch", at, "chunk", Size(i - 1), (i - 1) * step + Size(i - 1))
<1>1. CASE n = 0
  <2>1. <<>> \in Seq(Filling(f, at))
    BY SMT
  <2>2. QED
    BY <1>1, <2>1, ZenonT(60) DEF batchPutBytesChunked
<1>2. CASE n # 0
  <2>1. step \in Nat /\ step > 0
    BY <1>2, SMT DEF resolveBatchPutSize, BatchPutSize
  <2>2. batchPutBytesChunked(at, n, f) = [i \in 1 .. count |-> call(i)]
    BY <1>2 DEF batchPutBytesChunked
  <2> HIDE DEF step
  <2>3. count \in Nat
    BY <2>1, SMT
  <2>4. ASSUME NEW i \in 1 .. count PROVE call(i) \in Filling(f, at)
    <3> DEFINE k == (i - 1) * step
    <3>1. k \in Int /\ ((i - 1) + 1) * step = k + step
      BY <2>1, <2>3, SMT
    <3> HIDE DEF k
    <3>2. Size(i - 1) = IF k + step <= n THEN step ELSE n - k
      BY <3>1 DEF k
    <3>3. Size(i - 1) \in Int /\ k + Size(i - 1) \in Int /\ k + Size(i - 1) <= n
      BY <2>1, <3>1, <3>2, SMT
    <3> HIDE DEF Size
    <3>4. Write("batch", at, "chunk", Size(i - 1), k + Size(i - 1)) \in Filling(f, at)
      BY <3>3, WriteFilling DEF Keys, Limit
    <3>5. QED
      BY <3>4 DEF k
  <2> HIDE DEF call, count
  <2>5. [i \in 1 .. count |-> call(i)] \in Seq(Filling(f, at))
    BY <2>3, <2>4, SMT
  <2>6. QED
    BY <2>2, <2>5
<1>3. QED
  BY <1>1, <1>2

LEMMA SqlitePutFills ==
  ASSUME NEW f, NEW at \in Paths, NEW perCommit, NEW key \in Keys, NEW n \in Nat, n = Limit(f, key)
  PROVE  sqliteBatchPut(at, perCommit, key, n) \in Seq(Filling(f, at))
<1>1. CASE perCommit
  <2>1. \A i \in 1 .. n : Write("put", at, key, 1, i) \in Filling(f, at)
    <3>1. \A i \in 1 .. n : i \in Int /\ i <= Limit(f, key) /\ 1 \in Int
      BY SMT
    <3>2. QED
      BY <3>1, WriteFilling
  <2>2. Puts("put", at, key, n) \in [1 .. n -> Filling(f, at)]
    BY <2>1 DEF Puts
  <2>3. Puts("put", at, key, n) \in Seq(Filling(f, at))
    BY <2>2, SMT
  <2>4. QED
    BY <1>1, <2>3 DEF sqliteBatchPut
<1>2. CASE ~perCommit
  <2> DEFINE first == <<Call("begin", at, "exit"), Call("prepare", at, "exit")>>
             insert == Call("insert", at, "exit")
             inserts == [i \in 1 .. n |-> insert]
             commit == Write("commit", at, key, n, n)
  <2>1. /\ Call("begin", at, "exit") \in Filling(f, at) /\ Call("prepare", at, "exit") \in Filling(f, at)
        /\ insert \in Filling(f, at)
    BY SimpleFilling DEF Errs
  <2>2. commit \in Filling(f, at)
    <3>1. n \in Int /\ n <= Limit(f, key)
      BY SMT
    <3>2. QED
      BY <3>1, WriteFilling
  <2>3. first \in Seq(Filling(f, at))
    BY <2>1, SMT
  <2>4. sqliteBatchPut(at, perCommit, key, n) = first \o inserts \o <<commit>>
    BY <1>2 DEF sqliteBatchPut
  <2> HIDE DEF first, insert, commit
  <2>5. inserts \in Seq(Filling(f, at)) /\ <<commit>> \in Seq(Filling(f, at))
    BY <2>1, <2>2, SMT
  <2> HIDE DEF inserts
  <2>6. QED
    BY <2>3, <2>4, <2>5, FillingConcat
<1>3. QED
  BY <1>1, <1>2

\* Other error handling makes no difference.
LEMMA OnErrorFills ==
  ASSUME NEW f, NEW at, NEW err \in Errs, NEW s \in Seq(Filling(f, at))
  PROVE  OnError(err, s) \in Seq(Filling(f, at))
<1>1. ASSUME NEW c \in Filling(f, at) PROVE [c EXCEPT !.err = err] \in Filling(f, at)
  <2> DEFINE d == [c EXCEPT !.err = err]
  <2>1. CASE c \in SimpleCalls
    BY <2>1 DEF CallSet, SimpleCalls, Filling, Inert, PlainOps, WriterOps
  <2>2. CASE c \in WriteCalls
    BY <2>2 DEF CallSet, WriteCalls, Filling, Inert
  <2>3. QED
    BY <2>1, <2>2 DEF Filling, Inert, CallSet, OpenCalls, ReadCalls, CountCalls, DeferCalls, RowCalls
<1>2. Len(s) \in Nat /\ DOMAIN s = 1 .. Len(s) /\ \A i \in 1 .. Len(s) : s[i] \in Filling(f, at)
  BY SMT
<1>3. OnError(err, s) \in [1 .. Len(s) -> Filling(f, at)]
  BY <1>1, <1>2 DEF OnError
<1>4. QED
  BY <1>2, <1>3, SMT

-----------------------------------------------------------------------------
(* The shape of the functions.                                             *)

LEMMA RankIs ==
  ASSUME NEW c
  PROVE  /\ c.phase = "memoir_batch_put" => Rank(c) = 1
         /\ c.phase = "memoir_random_get" => Rank(c) = 2
         /\ c.phase = "chunk_batch_put" => Rank(c) = 3
         /\ c.phase = "chunk_batch_put_flush" => Rank(c) = 4
         /\ c.phase \in {"chunk_batch_put_durable", "chunk_put_group_commit"} => Rank(c) = 5
         /\ c.phase = "chunk_batch_put_batched" => Rank(c) = 6
         /\ c.phase = "chunk_batch_put_bulk_import" => Rank(c) = 7
         /\ c.phase = "chunk_prefix_scan" => Rank(c) = 8
         /\ c.phase = "chunk_random_get" => Rank(c) = 9
         /\ c.phase = "post_restart_row_count" =>
               /\ c.metric = "duration_ms" => Rank(c) = 10
               /\ c.metric = "row_count" => Rank(c) = 11
               /\ c.metric = "expected_row_count" => Rank(c) = 12
               /\ c.metric = "integrity_ok" => Rank(c) = 13
<1>1. ASSUME c.phase = "memoir_batch_put" PROVE Rank(c) = 1
  BY <1>1, ZenonT(60) DEF Rank
<1>2. ASSUME c.phase = "memoir_random_get" PROVE Rank(c) = 2
  BY <1>2, ZenonT(60) DEF Rank
<1>3. ASSUME c.phase = "chunk_batch_put" PROVE Rank(c) = 3
  BY <1>3, ZenonT(60) DEF Rank
<1>4. ASSUME c.phase = "chunk_batch_put_flush" PROVE Rank(c) = 4
  BY <1>4, ZenonT(60) DEF Rank
<1>5. ASSUME c.phase \in {"chunk_batch_put_durable", "chunk_put_group_commit"} PROVE Rank(c) = 5
  BY <1>5, ZenonT(60) DEF Rank
<1>6. ASSUME c.phase = "chunk_batch_put_batched" PROVE Rank(c) = 6
  BY <1>6, ZenonT(60) DEF Rank
<1>7. ASSUME c.phase = "chunk_batch_put_bulk_import" PROVE Rank(c) = 7
  BY <1>7, ZenonT(60) DEF Rank
<1>8. ASSUME c.phase = "chunk_prefix_scan" PROVE Rank(c) = 8
  BY <1>8, ZenonT(60) DEF Rank
<1>9. ASSUME c.phase = "chunk_random_get" PROVE Rank(c) = 9
  BY <1>9, ZenonT(60) DEF Rank
<1>10. ASSUME c.phase = "post_restart_row_count"
       PROVE  /\ c.metric = "duration_ms" => Rank(c) = 10
              /\ c.metric = "row_count" => Rank(c) = 11
              /\ c.metric = "expected_row_count" => Rank(c) = 12
              /\ c.metric = "integrity_ok" => Rank(c) = 13
  BY <1>10 DEF Rank
<1>11. QED
  BY <1>1, <1>2, <1>3, <1>4, <1>5, <1>6, <1>7, <1>8, <1>9, <1>10

\* A row comes after those of lower rank.
LEMMA ShapeRow ==
  ASSUME NEW D, NEW q \in Known, NEW at \in D, at \in Paths, NEW phase \in RowPhases,
         NEW stk \in Seq(Put_Off), NEW opn \in SUBSET Paths, NEW n \in Nat, NEW m \in Nat,
         n < Rank(result(phase, q, at)), Rank(result(phase, q, at)) <= m
  PROVE  <<result(phase, q, at)>> \in Leads(Shape(D, q), <<stk, opn, n>>, <<stk, opn, m>>)
<1> DEFINE c == result(phase, q, at)
<1>1. c \in RowCalls /\ c.at = at /\ c.phase = phase /\ c.profile = q /\ c.metric = ""
  BY DEF result, RowCalls, Errs
<1> HIDE DEF c
<1>2. "" \in Metrics \cup {""} /\ n < Rank(c) /\ Rank(c) <= m
  BY DEF c
<1>3. c \in CallSet /\ <<<<stk, opn, n>>, c, <<stk, opn, m>>>> \in Shape(D, q)
  BY <1>1, <1>2, RowMove
<1>4. <<c>> \in Leads(Shape(D, q), <<stk, opn, n>>, <<stk, opn, m>>)
  BY <1>3, LeadsOne
<1>5. QED
  BY <1>4 DEF c

LEMMA InertOne ==
  ASSUME NEW at \in Paths, NEW err \in Errs,
         NEW op \in {"flush_wal", "set_bulk_import", "create_table", "query", "mkdir"}
  PROVE  <<Call(op, at, err)>> \in Seq(Inert(at))
<1>1. Call(op, at, err) \in Inert(at)
  BY DEF Call, Inert, InertOps, CallSet, SimpleCalls, PlainOps
<1>2. QED
  BY <1>1, SMT

LEMMA OpenIs ==
  ASSUME NEW at \in Paths, NEW opts \in Options, NEW lazy \in BOOLEAN
  PROVE  /\ Open(at, opts) \in OpenCalls /\ Open(at, opts).at = at
         /\ OpenDB(at, lazy) \in OpenCalls /\ OpenDB(at, lazy).at = at
  BY ProgramsAssumption DEF Options, Open, OpenDB, OpenCalls, Errs

LEMMA ChunkDurableShape ==
  ASSUME NEW f, f.chunks \in Nat, NEW D, NEW q \in Known, NEW at, Append(at, "chunk_durable") \in Paths,
         Append(at, "chunk_durable") \in D, NEW opts \in Options,
         NEW stk \in Seq(Put_Off), NEW opn \in SUBSET Paths, \A x \in opn : ~Below(x, Append(at, "chunk_durable")),
         NEW n \in Nat, n < 5
  PROVE  benchF4KVSChunkDurable(at, q, opts, f) \in Leads(Shape(D, q), <<stk, opn, n>>, <<stk, opn, 5>>)
<1> DEFINE dir == Append(at, "chunk_durable")
           a == RemoveAll(dir)
           o == Open(dir, opts)
           d == Defer(Close(dir))
           b == Puts("put", dir, "chunk", f.chunks)
           w == FlushWAL(dir)
           r == result("chunk_batch_put_durable", q, dir)
           st == <<Close(dir)>> \o stk
           op == opn \cup {dir}
           L(u, v) == Leads(Shape(D, q), u, v)
<1> HIDE DEF dir
<1>0. dir \in Paths /\ dir \in D /\ 5 \in Nat /\ \A x \in opn : ~Below(x, dir)
  BY DEF dir
<1>1. <<a>> \in L(<<stk, opn, n>>, <<stk, opn, n>>)
  <2>1. a \in SimpleCalls /\ a.at = dir /\ a.op = "remove_all"
    BY <1>0 DEF RemoveAll, Call, SimpleCalls, PlainOps, Errs
  <2> HIDE DEF a
  <2>2. a \in CallSet /\ <<<<stk, opn, n>>, a, <<stk, opn, n>>>> \in Shape(D, q)
    BY <1>0, <2>1, StoreMove
  <2>3. QED
    BY <2>2, LeadsOne
<1>2. /\ st \in Seq(Put_Off) /\ op \in SUBSET Paths
      /\ <<o, d>> \in L(<<stk, opn, n>>, <<st, op, n>>)
      /\ Return(1) \in L(<<st, op, 5>>, <<stk, opn, 5>>)
  <2>1. o \in OpenCalls /\ o.at = dir
    BY <1>0, OpenIs
  <2> HIDE DEF o
  <2>2. QED
    BY <1>0, <2>1, Brackets
<1> HIDE DEF st, op
<1>3. b \in L(<<st, op, n>>, <<st, op, n>>)
  <2>1. b \in Seq(Inert(dir))
    BY <1>0, PutsInert DEF Keys
  <2>2. QED
    BY <1>0, <1>2, <2>1, InertLeads
<1>4. <<w>> \in L(<<st, op, n>>, <<st, op, n>>)
  <2>1. <<w>> \in Seq(Inert(dir))
    BY <1>0, InertOne DEF FlushWAL, Errs
  <2>2. QED
    BY <1>0, <1>2, <2>1, InertLeads
<1>5. <<r>> \in L(<<st, op, n>>, <<st, op, 5>>)
  <2>1. r.phase = "chunk_batch_put_durable"
    BY DEF result
  <2>2. Rank(r) = 5
    BY <2>1, RankIs
  <2>3. n < Rank(r) /\ Rank(r) <= 5
    BY <2>2, SMT
  <2>4. QED
    BY <1>0, <1>2, <2>3, ShapeRow DEF RowPhases
<1>6. <<a, o, d>> = <<a>> \o <<o, d>> /\ <<w, r>> = <<w>> \o <<r>>
  BY SMT DEF L
<1>7. benchF4KVSChunkDurable(at, q, opts, f) = (<<a>> \o <<o, d>>) \o b \o (<<w>> \o <<r>>) \o Return(1)
  BY <1>6 DEF benchF4KVSChunkDurable, dir
<1> HIDE DEF a, o, d, b, w, r
<1>8. (<<a>> \o <<o, d>>) \o b \in L(<<stk, opn, n>>, <<st, op, n>>)
  BY <1>1, <1>2, <1>3, LeadsConcat
<1>9. <<w>> \o <<r>> \in L(<<st, op, n>>, <<st, op, 5>>)
  BY <1>4, <1>5, LeadsConcat
<1>10. QED
  BY <1>2, <1>7, <1>8, <1>9, LeadsConcat

LEMMA ChunkBatchPutShape ==
  ASSUME NEW f, f.chunks \in Nat, f.batch \in Nat, NEW D, NEW q \in Known, NEW dir \in D, dir \in Paths,
         NEW bulk \in BOOLEAN, NEW phase \in RowPhases,
         NEW stk \in Seq(Put_Off), NEW opn \in SUBSET Paths, NEW n \in Nat, NEW m \in Nat,
         n < Rank(result(phase, q, dir)), Rank(result(phase, q, dir)) <= m
  PROVE  benchF4KVSChunkBatchPut(dir, q, f, bulk, phase) \in Leads(Shape(D, q), <<stk, opn, n>>, <<stk, opn, m>>)
<1> DEFINE opts == openOptsForProfile(Nil, f.chunks, f)
           o == Open(dir, opts)
           d == Defer(Close(dir))
           b == When(bulk, <<SetBulkImport(dir)>>)
           c == batchPutBytesChunked(dir, f.chunks, f)
           w == When(BatchPutSize(f) <= 0, <<FlushWAL(dir)>>)
           r == <<result(phase, q, dir)>>
           st == <<Close(dir)>> \o stk
           op == opn \cup {dir}
           L(u, v) == Leads(Shape(D, q), u, v)
<1>1. opts \in Options
  BY OptionsKept, ZenonT(60) DEF Nil, Options
<1> HIDE DEF opts
<1>2. /\ st \in Seq(Put_Off) /\ op \in SUBSET Paths
      /\ <<o, d>> \in L(<<stk, opn, n>>, <<st, op, n>>)
      /\ Return(1) \in L(<<st, op, m>>, <<stk, opn, m>>)
  <2>1. o \in OpenCalls /\ o.at = dir
    BY <1>1, OpenIs
  <2> HIDE DEF o
  <2>2. QED
    BY <2>1, Brackets
<1> HIDE DEF st, op
<1>3. /\ b \in L(<<st, op, n>>, <<st, op, n>>) /\ c \in L(<<st, op, n>>, <<st, op, n>>)
      /\ w \in L(<<st, op, n>>, <<st, op, n>>)
  <2>1. <<SetBulkImport(dir)>> \in Seq(Inert(dir)) /\ <<FlushWAL(dir)>> \in Seq(Inert(dir))
    BY InertOne DEF FlushWAL, SetBulkImport, Errs
  <2>2. b \in Seq(Inert(dir)) /\ w \in Seq(Inert(dir))
    BY <2>1, InertWhen
  <2>3. c \in Seq(Inert(dir))
    BY BatchesFill, FillingInert
  <2> HIDE DEF b, c, w
  <2>4. QED
    BY <1>2, <2>2, <2>3, InertLeads
<1>4. r \in L(<<st, op, n>>, <<st, op, m>>)
  BY <1>2, ShapeRow
<1>5. benchF4KVSChunkBatchPut(dir, q, f, bulk, phase) = <<o, d>> \o b \o c \o w \o r \o Return(1)
  BY DEF benchF4KVSChunkBatchPut, opts
<1> HIDE DEF o, d, b, c, w, r
<1>6. <<o, d>> \o b \o c \o w \in L(<<stk, opn, n>>, <<st, op, n>>)
  BY <1>2, <1>3, LeadsConcat
<1>7. QED
  BY <1>2, <1>4, <1>5, <1>6, LeadsConcat

\* The chunks of an f4kvs profile, in whichever way they are put.
ChunkPart(at, q, opts, f) ==
    (IF ~skipPerCommitChunks(f) THEN PerCommitChunks(at, q, opts, f)
     ELSE IF usesGroupCommit(opts) THEN StreamedChunks(at, q, f)
     ELSE BatchedChunks(at, q, f))

\* The stores below that of a profile.
SideDirs(at) == {Append(at, "chunk_durable"), Append(at, "chunk_batched"), Append(at, "chunk_bulk_import")}

LEMMA SideShape ==
  ASSUME NEW f, f.chunks \in Nat, f.batch \in Nat, NEW D, NEW q \in Known, NEW at,
         SideDirs(at) \subseteq D, SideDirs(at) \subseteq Paths,
         NEW stk \in Seq(Put_Off), NEW opn \in SUBSET Paths
  PROVE  /\ \A n, m \in Nat : n < 6 /\ 6 <= m =>
               benchF4KVSChunkBatched(at, q, f) \in Leads(Shape(D, q), <<stk, opn, n>>, <<stk, opn, m>>)
         /\ \A n \in Nat : n < 7 =>
               benchF4KVSChunkBulkImport(at, q, f) \in Leads(Shape(D, q), <<stk, opn, n>>, <<stk, opn, 7>>)
<1> DEFINE a == Append(at, "chunk_batched")
           b == Append(at, "chunk_bulk_import")
<1>1. a \in D /\ a \in Paths /\ b \in D /\ b \in Paths
  BY DEF SideDirs
<1> HIDE DEF a, b
<1>2. Rank(result("chunk_batch_put_batched", q, a)) = 6 /\ Rank(result("chunk_batch_put_bulk_import", q, b)) = 7
  <2>1. /\ result("chunk_batch_put_batched", q, a).phase = "chunk_batch_put_batched"
        /\ result("chunk_batch_put_bulk_import", q, b).phase = "chunk_batch_put_bulk_import"
    BY DEF result
  <2>2. QED
    BY <2>1, RankIs
<1>3. 7 \in Nat /\ 7 <= 7
  BY SMT
<1>4. ASSUME NEW n \in Nat, NEW m \in Nat, n < 6, 6 <= m
      PROVE  benchF4KVSChunkBatchPut(a, q, f, FALSE, "chunk_batch_put_batched")
                \in Leads(Shape(D, q), <<stk, opn, n>>, <<stk, opn, m>>)
  <2>1. /\ n < Rank(result("chunk_batch_put_batched", q, a))
        /\ Rank(result("chunk_batch_put_batched", q, a)) <= m
    BY <1>2, <1>4
  <2>2. QED
    BY <1>1, <2>1, ChunkBatchPutShape DEF RowPhases
<1>5. ASSUME NEW n \in Nat, n < 7
      PROVE  benchF4KVSChunkBatchPut(b, q, f, TRUE, "chunk_batch_put_bulk_import")
                \in Leads(Shape(D, q), <<stk, opn, n>>, <<stk, opn, 7>>)
  <2>1. /\ n < Rank(result("chunk_batch_put_bulk_import", q, b))
        /\ Rank(result("chunk_batch_put_bulk_import", q, b)) <= 7
    BY <1>2, <1>3, <1>5
  <2>2. QED
    BY <1>1, <1>3, <2>1, ChunkBatchPutShape DEF RowPhases
<1>6. QED
  BY <1>4, <1>5 DEF benchF4KVSChunkBatched, benchF4KVSChunkBulkImport, a, b

LEMMA PerCommitShape ==
  ASSUME NEW f, f.chunks \in Nat, f.batch \in Nat, NEW D, NEW q \in Known, NEW at \in D, at \in Paths,
         SideDirs(at) \subseteq D, SideDirs(at) \subseteq Paths, NEW opts \in Options,
         NEW stk \in Seq(Put_Off), NEW opn \in SUBSET Paths, \A x \in opn : ~Below(x, Append(at, "chunk_durable"))
  PROVE  PerCommitChunks(at, q, opts, f) \in Leads(Shape(D, q), <<stk, opn, 2>>, <<stk, opn, 5>>)
<1> DEFINE b == Puts("put", at, "chunk", f.chunks)
           r == <<result("chunk_batch_put", q, at)>>
           w == FlushWAL(at)
           t == result("chunk_batch_put_flush", q, at)
           d == benchF4KVSChunkDurable(at, q, opts, f)
           L(u, v) == Leads(Shape(D, q), u, v)
           U(n) == <<stk, opn, n>>
<1>0. 2 \in Nat /\ 3 \in Nat /\ 4 \in Nat /\ 5 \in Nat /\ 4 < 5 /\ 2 < 3 /\ 3 <= 3 /\ 3 <= 5 /\ 3 < 4 /\ 4 <= 4
  BY SMT
<1>1. b \in L(U(2), U(2))
  <2>1. b \in Seq(Inert(at))
    BY PutsInert DEF Keys
  <2>2. QED
    BY <1>0, <2>1, InertLeads
<1>2. r \in L(U(2), U(3)) /\ r \in L(U(2), U(5))
  <2>1. result("chunk_batch_put", q, at).phase = "chunk_batch_put"
    BY DEF result
  <2>2. Rank(result("chunk_batch_put", q, at)) = 3
    BY <2>1, RankIs
  <2>3. /\ 2 < Rank(result("chunk_batch_put", q, at)) /\ Rank(result("chunk_batch_put", q, at)) <= 3
        /\ Rank(result("chunk_batch_put", q, at)) <= 5 /\ "chunk_batch_put" \in RowPhases
    BY <1>0, <2>2 DEF RowPhases
  <2>4. r \in L(U(2), U(3))
    BY <1>0, <2>3, ShapeRow
  <2>5. r \in L(U(2), U(5))
    BY <1>0, <2>3, ShapeRow
  <2>6. QED
    BY <2>4, <2>5
<1>3. <<w>> \in L(U(3), U(3))
  <2>1. <<w>> \in Seq(Inert(at))
    BY InertOne DEF FlushWAL, Errs
  <2>2. QED
    BY <1>0, <2>1, InertLeads
<1>4. <<t>> \in L(U(3), U(4))
  <2>1. t.phase = "chunk_batch_put_flush"
    BY DEF result
  <2>2. Rank(t) = 4
    BY <2>1, RankIs
  <2>3. 3 < Rank(t) /\ Rank(t) <= 4 /\ "chunk_batch_put_flush" \in RowPhases
    BY <1>0, <2>2 DEF RowPhases
  <2>4. QED
    BY <1>0, <2>3, ShapeRow
<1>5. d \in L(U(4), U(5))
  BY <1>0, ChunkDurableShape DEF SideDirs
<1>6. <<w, t>> = <<w>> \o <<t>>
  BY SMT DEF w, t
<1>7. PerCommitChunks(at, q, opts, f) = b \o r \o When(usesGroupCommit(opts), (<<w>> \o <<t>>) \o d)
  BY <1>6 DEF PerCommitChunks
<1> HIDE DEF b, r, w, t, d
<1>8. CASE usesGroupCommit(opts)
  <2>1. (<<w>> \o <<t>>) \o d \in L(U(3), U(5))
    BY <1>3, <1>4, <1>5, LeadsConcat
  <2>2. b \o r \in L(U(2), U(3))
    BY <1>1, <1>2, LeadsConcat
  <2>3. QED
    BY <1>7, <1>8, <2>1, <2>2, LeadsConcat DEF When
<1>9. CASE ~usesGroupCommit(opts)
  <2>1. When(usesGroupCommit(opts), (<<w>> \o <<t>>) \o d) \in L(U(5), U(5))
    BY <1>9, LeadsWhen
  <2>2. b \o r \in L(U(2), U(5))
    BY <1>1, <1>2, LeadsConcat
  <2>3. QED
    BY <1>7, <2>1, <2>2, LeadsConcat
<1>10. QED
  BY <1>8, <1>9

LEMMA StreamedShape ==
  ASSUME NEW f, f.chunks \in Nat, f.batch \in Nat, NEW D, NEW q \in Known, NEW at \in D, at \in Paths,
         SideDirs(at) \subseteq D, SideDirs(at) \subseteq Paths,
         NEW stk \in Seq(Put_Off), NEW opn \in SUBSET Paths
  PROVE  StreamedChunks(at, q, f) \in Leads(Shape(D, q), <<stk, opn, 2>>, <<stk, opn, 7>>)
<1> DEFINE a == <<SetBulkImport(at)>>
           b == Puts("put", at, "chunk", f.chunks)
           w == FlushWAL(at)
           x == SetBulkImport(at)
           t == result("chunk_put_group_commit", q, at)
           d == benchF4KVSChunkBatched(at, q, f)
           L(u, v) == Leads(Shape(D, q), u, v)
           U(n) == <<stk, opn, n>>
<1>0. 2 \in Nat /\ 5 \in Nat /\ 7 \in Nat /\ 2 < 5 /\ 5 <= 5 /\ 5 < 6 /\ 6 <= 7
  BY SMT
<1>1. a \in L(U(2), U(2)) /\ b \in L(U(2), U(2)) /\ <<w>> \in L(U(2), U(2)) /\ <<x>> \in L(U(2), U(2))
  <2>1. a \in Seq(Inert(at)) /\ <<w>> \in Seq(Inert(at)) /\ <<x>> \in Seq(Inert(at))
    BY InertOne DEF FlushWAL, SetBulkImport, Errs
  <2>2. b \in Seq(Inert(at))
    BY PutsInert DEF Keys
  <2> HIDE DEF a, b, w, x
  <2>3. QED
    BY <1>0, <2>1, <2>2, InertLeads
<1>2. <<t>> \in L(U(2), U(5))
  <2>1. t.phase = "chunk_put_group_commit"
    BY DEF result
  <2>2. Rank(t) = 5
    BY <2>1, RankIs
  <2>3. QED
    BY <1>0, <2>2, ShapeRow DEF RowPhases
<1>3. d \in L(U(5), U(7))
  BY <1>0, SideShape
<1>4. <<w, x, t>> = <<w>> \o <<x>> \o <<t>>
  BY SMT DEF w, x, t
<1>5. StreamedChunks(at, q, f) = a \o b \o (<<w>> \o <<x>> \o <<t>>) \o d
  BY <1>4 DEF StreamedChunks
<1> HIDE DEF a, b, w, x, t, d
<1>6. <<w>> \o <<x>> \o <<t>> \in L(U(2), U(5))
  BY <1>1, <1>2, LeadsConcat
<1>7. a \o b \in L(U(2), U(2))
  BY <1>1, LeadsConcat
<1>8. QED
  BY <1>3, <1>5, <1>6, <1>7, LeadsConcat

LEMMA BatchedShape ==
  ASSUME NEW f, f.chunks \in Nat, f.batch \in Nat, NEW D, NEW q \in Known, NEW at \in D, at \in Paths,
         SideDirs(at) \subseteq D, SideDirs(at) \subseteq Paths,
         NEW stk \in Seq(Put_Off), NEW opn \in SUBSET Paths
  PROVE  BatchedChunks(at, q, f) \in Leads(Shape(D, q), <<stk, opn, 2>>, <<stk, opn, 7>>)
<1> DEFINE a == <<SetBulkImport(at)>>
           b == batchPutBytesChunked(at, f.chunks, f)
           w == When(BatchPutSize(f) <= 0, <<FlushWAL(at)>>)
           t == result("chunk_batch_put_batched", q, at)
           d == benchF4KVSChunkBulkImport(at, q, f)
           e == When(BatchPutSize(f) > 0, d)
           L(u, v) == Leads(Shape(D, q), u, v)
           U(n) == <<stk, opn, n>>
<1>0. 2 \in Nat /\ 6 \in Nat /\ 7 \in Nat /\ 2 < 6 /\ 6 <= 6 /\ 6 < 7 /\ 6 <= 7
  BY SMT
<1>1. a \in L(U(2), U(2)) /\ b \in L(U(2), U(2)) /\ w \in L(U(2), U(2))
  <2>1. a \in Seq(Inert(at)) /\ <<FlushWAL(at)>> \in Seq(Inert(at))
    BY InertOne DEF FlushWAL, SetBulkImport, Errs
  <2>2. w \in Seq(Inert(at))
    BY <2>1, InertWhen
  <2>3. b \in Seq(Inert(at))
    BY BatchesFill, FillingInert
  <2> HIDE DEF a, b, w
  <2>4. QED
    BY <1>0, <2>1, <2>2, <2>3, InertLeads
<1>2. <<t>> \in L(U(2), U(6)) /\ <<t>> \in L(U(2), U(7))
  <2>1. t.phase = "chunk_batch_put_batched"
    BY DEF result
  <2>2. Rank(t) = 6
    BY <2>1, RankIs
  <2>3. QED
    BY <1>0, <2>2, ShapeRow DEF RowPhases
<1>3. d \in L(U(6), U(7))
  BY <1>0, SideShape
<1>4. BatchedChunks(at, q, f) = a \o b \o a \o w \o <<t>> \o e
  BY DEF BatchedChunks
<1> HIDE DEF a, b, w, t, d
<1>5. a \o b \o a \o w \in L(U(2), U(2))
  BY <1>1, LeadsConcat
<1>6. CASE BatchPutSize(f) > 0
  <2>1. e \in L(U(6), U(7))
    BY <1>3, <1>6 DEF When
  <2> HIDE DEF e
  <2>2. QED
    BY <1>2, <1>4, <1>5, <2>1, LeadsConcat
<1>7. CASE ~(BatchPutSize(f) > 0)
  <2>1. e \in L(U(7), U(7))
    BY <1>7, LeadsWhen
  <2> HIDE DEF e
  <2>2. QED
    BY <1>2, <1>4, <1>5, <2>1, LeadsConcat
<1>8. QED
  BY <1>6, <1>7

\* The chunks, and what is measured besides.
LEMMA ChunksShape ==
  ASSUME NEW f, f.chunks \in Nat, f.batch \in Nat, NEW D, NEW q \in Known, NEW at \in D, at \in Paths,
         SideDirs(at) \subseteq D, SideDirs(at) \subseteq Paths, NEW opts \in Options,
         NEW stk \in Seq(Put_Off), NEW opn \in SUBSET Paths, \A x \in opn : ~Below(x, Append(at, "chunk_durable")),
         NEW u, NEW s \in Leads(Shape(D, q), u, <<stk, opn, 2>>)
  PROVE  s \o ChunkPart(at, q, opts, f) \o SideMeasurements(at, q, f)
            \in Leads(Shape(D, q), u, <<stk, opn, 7>>)
<1> DEFINE a == ChunkPart(at, q, opts, f)
           b == benchF4KVSChunkBatched(at, q, f)
           c == benchF4KVSChunkBulkImport(at, q, f)
           e == SideMeasurements(at, q, f)
           L(v, w) == Leads(Shape(D, q), v, w)
           U(n) == <<stk, opn, n>>
<1>0. 5 \in Nat /\ 6 \in Nat /\ 5 < 6 /\ 6 <= 6 /\ 6 < 7
  BY SMT
<1>1. CASE ~skipPerCommitChunks(f)
  <2>1. a \in L(U(2), U(5))
    BY <1>1, PerCommitShape DEF ChunkPart
  <2>2. b \in L(U(5), U(6)) /\ c \in L(U(6), U(7))
    BY <1>0, SideShape
  <2>3. e = b \o c
    BY <1>1 DEF SideMeasurements, When
  <2> HIDE DEF a, b, c, e
  <2>4. e \in L(U(5), U(7))
    BY <2>2, <2>3, LeadsConcat
  <2>5. s \o a \o e \in L(u, U(7))
    BY <2>1, <2>4, LeadsConcat
  <2>6. QED
    BY <2>5 DEF a, e
<1>2. CASE skipPerCommitChunks(f)
  <2>1. a \in L(U(2), U(7))
    BY <1>2, StreamedShape, BatchedShape DEF ChunkPart
  <2>2. e \in L(U(7), U(7))
    BY <1>2, LeadsWhen DEF SideMeasurements
  <2> HIDE DEF a, e
  <2>3. s \o a \o e \in L(u, U(7))
    BY <2>1, <2>2, LeadsConcat
  <2>4. QED
    BY <2>3 DEF a, e
<1>3. QED
  BY <1>1, <1>2

\* The rows that are recorded for every profile.
LEMMA MainRows ==
  ASSUME NEW D, NEW q \in Known, NEW at \in D, at \in Paths, NEW stk \in Seq(Put_Off), NEW opn \in SUBSET Paths
  PROVE  /\ <<result("memoir_batch_put", q, at)>> \in Leads(Shape(D, q), <<stk, opn, 0>>, <<stk, opn, 1>>)
         /\ <<result("memoir_random_get", q, at)>> \in Leads(Shape(D, q), <<stk, opn, 1>>, <<stk, opn, 2>>)
         /\ <<result("chunk_batch_put", q, at)>> \in Leads(Shape(D, q), <<stk, opn, 2>>, <<stk, opn, 3>>)
         /\ <<result("chunk_prefix_scan", q, at)>> \in Leads(Shape(D, q), <<stk, opn, 7>>, <<stk, opn, 8>>)
         /\ <<result("chunk_random_get", q, at)>> \in Leads(Shape(D, q), <<stk, opn, 8>>, <<stk, opn, 9>>)
<1>1. \A phase : result(phase, q, at).phase = phase
  BY DEF result
<1>2. <<result("memoir_batch_put", q, at)>> \in Leads(Shape(D, q), <<stk, opn, 0>>, <<stk, opn, 1>>)
  <2>1. Rank(result("memoir_batch_put", q, at)) = 1
    BY <1>1, RankIs
  <2>2. /\ 0 < Rank(result("memoir_batch_put", q, at)) /\ Rank(result("memoir_batch_put", q, at)) <= 1
        /\ 0 \in Nat /\ 1 \in Nat
    BY <2>1, SMT
  <2>3. "memoir_batch_put" \in RowPhases
    BY DEF RowPhases
  <2>4. QED
    BY <2>2, <2>3, ShapeRow
<1>3. <<result("memoir_random_get", q, at)>> \in Leads(Shape(D, q), <<stk, opn, 1>>, <<stk, opn, 2>>)
  <2>1. Rank(result("memoir_random_get", q, at)) = 2
    BY <1>1, RankIs
  <2>2. /\ 1 < Rank(result("memoir_random_get", q, at)) /\ Rank(result("memoir_random_get", q, at)) <= 2
        /\ 1 \in Nat /\ 2 \in Nat
    BY <2>1, SMT
  <2>3. "memoir_random_get" \in RowPhases
    BY DEF RowPhases
  <2>4. QED
    BY <2>2, <2>3, ShapeRow
<1>4. <<result("chunk_batch_put", q, at)>> \in Leads(Shape(D, q), <<stk, opn, 2>>, <<stk, opn, 3>>)
  <2>1. Rank(result("chunk_batch_put", q, at)) = 3
    BY <1>1, RankIs
  <2>2. /\ 2 < Rank(result("chunk_batch_put", q, at)) /\ Rank(result("chunk_batch_put", q, at)) <= 3
        /\ 2 \in Nat /\ 3 \in Nat
    BY <2>1, SMT
  <2>3. "chunk_batch_put" \in RowPhases
    BY DEF RowPhases
  <2>4. QED
    BY <2>2, <2>3, ShapeRow
<1>5. <<result("chunk_prefix_scan", q, at)>> \in Leads(Shape(D, q), <<stk, opn, 7>>, <<stk, opn, 8>>)
  <2>1. Rank(result("chunk_prefix_scan", q, at)) = 8
    BY <1>1, RankIs
  <2>2. /\ 7 < Rank(result("chunk_prefix_scan", q, at)) /\ Rank(result("chunk_prefix_scan", q, at)) <= 8
        /\ 7 \in Nat /\ 8 \in Nat
    BY <2>1, SMT
  <2>3. "chunk_prefix_scan" \in RowPhases
    BY DEF RowPhases
  <2>4. QED
    BY <2>2, <2>3, ShapeRow
<1>6. <<result("chunk_random_get", q, at)>> \in Leads(Shape(D, q), <<stk, opn, 8>>, <<stk, opn, 9>>)
  <2>1. Rank(result("chunk_random_get", q, at)) = 9
    BY <1>1, RankIs
  <2>2. /\ 8 < Rank(result("chunk_random_get", q, at)) /\ Rank(result("chunk_random_get", q, at)) <= 9
        /\ 8 \in Nat /\ 9 \in Nat
    BY <2>1, SMT
  <2>3. "chunk_random_get" \in RowPhases
    BY DEF RowPhases
  <2>4. QED
    BY <2>2, <2>3, ShapeRow
<1>7. QED
  BY <1>2, <1>3, <1>4, <1>5, <1>6

LEMMA F4KVSShape ==
  ASSUME NEW f, f.chunks \in Nat, f.memoirs \in Nat, f.gets \in Nat, f.batch \in Nat,
         NEW D, NEW q \in Known, NEW at \in D, at \in Paths,
         SideDirs(at) \subseteq D, SideDirs(at) \subseteq Paths, NEW base \in Options,
         NEW stk \in Seq(Put_Off), NEW opn \in SUBSET Paths,
         \A x \in opn \cup {at} : ~Below(x, Append(at, "chunk_durable"))
  PROVE  benchF4KVS(at, q, base, f) \in Leads(Shape(D, q), <<stk, opn, 0>>, <<stk, opn, 9>>)
<1> DEFINE opts == openOptsForProfile(base, f.chunks, f)
           o == Open(at, opts)
           d == Defer(Close(at))
           b1 == Puts("put", at, "memoir", f.memoirs)
           r1 == <<result("memoir_batch_put", q, at)>>
           g1 == Gets(at, "memoir", f.memoirs, f.gets)
           r2 == <<result("memoir_random_get", q, at)>>
           x == ChunkPart(at, q, opts, f)
           y == SideMeasurements(at, q, f)
           z == Read("scan", at, "chunk", 0)
           r3 == result("chunk_prefix_scan", q, at)
           g2 == Gets(at, "chunk", f.chunks, f.gets)
           r4 == <<result("chunk_random_get", q, at)>>
           st == <<Close(at)>> \o stk
           op == opn \cup {at}
           L(u, v) == Leads(Shape(D, q), u, v)
           U(n) == <<st, op, n>>
<1>0. /\ 0 \in Nat /\ 1 \in Nat /\ 2 \in Nat /\ 7 \in Nat /\ 8 \in Nat /\ 9 \in Nat
      /\ 0 < 1 /\ 1 <= 1 /\ 1 < 2 /\ 2 <= 2 /\ 7 < 8 /\ 8 <= 8 /\ 8 < 9 /\ 9 <= 9
  BY SMT
<1>1. opts \in Options
  BY OptionsKept
<1> HIDE DEF opts
<1>2. /\ st \in Seq(Put_Off) /\ op \in SUBSET Paths
      /\ <<o, d>> \in L(<<stk, opn, 0>>, U(0))
      /\ Return(1) \in L(U(9), <<stk, opn, 9>>)
  <2>1. o \in OpenCalls /\ o.at = at
    BY <1>1, OpenIs
  <2> HIDE DEF o
  <2>2. QED
    BY <1>0, <2>1, Brackets
<1>3. \A v \in op : ~Below(v, Append(at, "chunk_durable"))
  OBVIOUS
<1> HIDE DEF st, op
<1>4. b1 \in L(U(0), U(0)) /\ g1 \in L(U(1), U(1)) /\ <<z>> \in L(U(7), U(7)) /\ g2 \in L(U(8), U(8))
  <2>1. b1 \in Seq(Inert(at)) /\ g1 \in Seq(Inert(at)) /\ g2 \in Seq(Inert(at))
    BY PutsInert, GetsInert DEF Keys
  <2>2. z \in Inert(at)
    <3>1. 0 \in Int
      BY SMT
    <3>2. QED
      BY <3>1 DEF Read, Inert, InertOps, CallSet, ReadCalls, Errs, Keys
  <2>3. <<z>> \in Seq(Inert(at))
    BY <2>2, SMT
  <2> HIDE DEF b1, g1, g2, z
  <2>4. QED
    BY <1>0, <1>2, <2>1, <2>3, InertLeads
<1>5. r1 \in L(U(0), U(1)) /\ r2 \in L(U(1), U(2)) /\ <<r3>> \in L(U(7), U(8)) /\ r4 \in L(U(8), U(9))
  BY <1>2, MainRows
<1>6. <<z, r3>> = <<z>> \o <<r3>>
  BY SMT DEF z, r3
<1>7. benchF4KVS(at, q, base, f)
        = <<o, d>> \o b1 \o r1 \o g1 \o r2 \o x \o y \o (<<z>> \o <<r3>>) \o g2 \o r4 \o Return(1)
  BY <1>6 DEF benchF4KVS, ChunkPart, opts
<1>8. \A s \in L(<<stk, opn, 0>>, U(2)) : s \o x \o y \in L(<<stk, opn, 0>>, U(7))
  BY <1>1, <1>2, <1>3, ChunksShape
<1> HIDE DEF o, d, b1, r1, g1, r2, x, y, z, r3, g2, r4
<1>9. <<o, d>> \o b1 \o r1 \o g1 \o r2 \in L(<<stk, opn, 0>>, U(2))
  <2>1. <<o, d>> \o b1 \o r1 \in L(<<stk, opn, 0>>, U(1))
    BY <1>2, <1>4, <1>5, LeadsConcat
  <2>2. QED
    BY <1>4, <1>5, <2>1, LeadsConcat
<1>10. <<o, d>> \o b1 \o r1 \o g1 \o r2 \o x \o y \in L(<<stk, opn, 0>>, U(7))
  BY <1>8, <1>9
<1>11. <<z>> \o <<r3>> \in L(U(7), U(8))
  BY <1>4, <1>5, LeadsConcat
<1>12. <<o, d>> \o b1 \o r1 \o g1 \o r2 \o x \o y \o (<<z>> \o <<r3>>) \o g2 \in L(<<stk, opn, 0>>, U(8))
  BY <1>4, <1>10, <1>11, LeadsConcat
<1>13. QED
  BY <1>2, <1>5, <1>7, <1>12, LeadsConcat

LEMMA SQLiteChunkBatchedShape ==
  ASSUME NEW f, f.chunks \in Nat, NEW D, NEW q \in Known, NEW at \in D, at \in Paths,
         NEW stk \in Seq(Put_Off), NEW opn \in SUBSET Paths
  PROVE  benchSQLiteChunkBatched(at, q, f) \in Leads(Shape(D, q), <<stk, opn, 3>>, <<stk, opn, 7>>)
<1> DEFINE o == OpenDB(at, Relaxed(q))
           d == Defer(Close(at))
           t == Call("create_table", at, "exit")
           b == sqliteBatchPut(at, FALSE, "chunk", f.chunks)
           r == <<result("chunk_batch_put_batched", q, at)>>
           st == <<Close(at)>> \o stk
           op == opn \cup {at}
           L(u, v) == Leads(Shape(D, q), u, v)
           U(n) == <<st, op, n>>
<1>0. 3 \in Nat /\ 7 \in Nat /\ 3 < 6 /\ 6 <= 7
  BY SMT
<1>1. /\ st \in Seq(Put_Off) /\ op \in SUBSET Paths
      /\ <<o, d>> \in L(<<stk, opn, 3>>, U(3)) /\ Return(1) \in L(U(7), <<stk, opn, 7>>)
  <2>1. Relaxed(q) \in BOOLEAN
    BY DEF Relaxed
  <2>2. o \in OpenCalls /\ o.at = at
    BY <2>1 DEF OpenDB, OpenCalls, Errs
  <2> HIDE DEF o
  <2>3. QED
    BY <1>0, <2>2, Brackets
<1> HIDE DEF st, op
<1>2. <<t>> \in L(U(3), U(3)) /\ b \in L(U(3), U(3))
  <2>1. <<t>> \in Seq(Inert(at))
    BY InertOne DEF Errs
  <2>2. b \in Seq(Inert(at))
    BY SqlitePutFills, FillingInert DEF Keys, Limit
  <2> HIDE DEF t, b
  <2>3. QED
    BY <1>0, <1>1, <2>1, <2>2, InertLeads
<1>3. r \in L(U(3), U(7))
  <2>1. result("chunk_batch_put_batched", q, at).phase = "chunk_batch_put_batched"
    BY DEF result
  <2>2. Rank(result("chunk_batch_put_batched", q, at)) = 6
    BY <2>1, RankIs
  <2>3. QED
    BY <1>0, <1>1, <2>2, ShapeRow DEF RowPhases
<1>4. <<o, d, t>> = <<o, d>> \o <<t>>
  BY SMT DEF o, d, t
<1>5. benchSQLiteChunkBatched(at, q, f) = (<<o, d>> \o <<t>>) \o b \o r \o Return(1)
  BY <1>4 DEF benchSQLiteChunkBatched
<1> HIDE DEF o, d, t, b, r
<1>6. (<<o, d>> \o <<t>>) \o b \in L(<<stk, opn, 3>>, U(3))
  BY <1>1, <1>2, LeadsConcat
<1>7. QED
  BY <1>1, <1>3, <1>5, <1>6, LeadsConcat

LEMMA SQLiteShape ==
  ASSUME NEW f, f.chunks \in Nat, f.memoirs \in Nat, f.gets \in Nat,
         NEW D, NEW q \in Known, NEW at \in D, at \in Paths,
         <<"tmp", "chunk_batched", q>> \in D, <<"tmp", "chunk_batched", q>> \in Paths,
         NEW stk \in Seq(Put_Off), NEW opn \in SUBSET Paths
  PROVE  benchSQLite(at, q, f) \in Leads(Shape(D, q), <<stk, opn, 0>>, <<stk, opn, 9>>)
<1> DEFINE perCommit == q = "sqlite_wal_full" /\ ~skipPerCommitChunks(f)
           o == OpenDB(at, Relaxed(q))
           d == Defer(Close(at))
           t == Call("create_table", at, "exit")
           b1 == sqliteBatchPut(at, perCommit, "memoir", f.memoirs)
           r1 == <<result("memoir_batch_put", q, at)>>
           g1 == Gets(at, "memoir", f.memoirs, f.gets)
           r2 == <<result("memoir_random_get", q, at)>>
           b2 == sqliteBatchPut(at, perCommit, "chunk", f.chunks)
           r3 == <<result("chunk_batch_put", q, at)>>
           x == benchSQLiteChunkBatched(<<"tmp", "chunk_batched", q>>, q, f)
           y == Call("query", at, "exit")
           z == Read("scan", at, "chunk", 0)
           r4 == result("chunk_prefix_scan", q, at)
           g2 == Gets(at, "chunk", f.chunks, f.gets)
           r5 == <<result("chunk_random_get", q, at)>>
           st == <<Close(at)>> \o stk
           op == opn \cup {at}
           L(u, v) == Leads(Shape(D, q), u, v)
           U(n) == <<st, op, n>>
<1> HIDE DEF perCommit
<1>0. 0 \in Nat /\ 1 \in Nat /\ 2 \in Nat /\ 7 \in Nat /\ 8 \in Nat /\ 9 \in Nat
  BY SMT
<1>1. /\ st \in Seq(Put_Off) /\ op \in SUBSET Paths
      /\ <<o, d>> \in L(<<stk, opn, 0>>, U(0)) /\ Return(1) \in L(U(9), <<stk, opn, 9>>)
  <2>1. Relaxed(q) \in BOOLEAN
    BY DEF Relaxed
  <2>2. o \in OpenCalls /\ o.at = at
    BY <2>1 DEF OpenDB, OpenCalls, Errs
  <2> HIDE DEF o
  <2>3. QED
    BY <1>0, <2>2, Brackets
<1> HIDE DEF st, op
<1>2. /\ <<t>> \in L(U(0), U(0)) /\ b1 \in L(U(0), U(0)) /\ g1 \in L(U(1), U(1)) /\ b2 \in L(U(2), U(2))
      /\ <<y>> \in L(U(7), U(7)) /\ <<z>> \in L(U(7), U(7)) /\ g2 \in L(U(8), U(8))
  <2>1. <<t>> \in Seq(Inert(at)) /\ <<y>> \in Seq(Inert(at))
    BY InertOne DEF Errs
  <2>2. b1 \in Seq(Inert(at)) /\ b2 \in Seq(Inert(at))
    BY SqlitePutFills, FillingInert DEF Keys, Limit
  <2>3. g1 \in Seq(Inert(at)) /\ g2 \in Seq(Inert(at))
    BY GetsInert DEF Keys
  <2>4. z \in Inert(at)
    <3>1. 0 \in Int
      BY SMT
    <3>2. QED
      BY <3>1 DEF Read, Inert, InertOps, CallSet, ReadCalls, Errs, Keys
  <2>5. <<z>> \in Seq(Inert(at))
    BY <2>4, SMT
  <2> HIDE DEF t, b1, b2, g1, g2, y, z
  <2>6. QED
    BY <1>0, <1>1, <2>1, <2>2, <2>3, <2>5, InertLeads
<1>3. /\ r1 \in L(U(0), U(1)) /\ r2 \in L(U(1), U(2)) /\ r3 \in L(U(2), U(3)) /\ <<r4>> \in L(U(7), U(8))
      /\ r5 \in L(U(8), U(9))
  BY <1>1, MainRows
<1>4. x \in L(U(3), U(7))
  BY <1>1, SQLiteChunkBatchedShape
<1>5. <<o, d, t>> = <<o, d>> \o <<t>> /\ <<y, z, r4>> = <<y>> \o <<z>> \o <<r4>>
  BY SMT DEF o, d, t, y, z, r4
<1>6. benchSQLite(at, q, f)
        = (<<o, d>> \o <<t>>) \o b1 \o r1 \o g1 \o r2 \o b2 \o r3 \o x \o (<<y>> \o <<z>> \o <<r4>>) \o g2 \o r5
          \o Return(1)
  BY <1>5 DEF benchSQLite, perCommit
<1> HIDE DEF o, d, t, b1, r1, g1, r2, b2, r3, x, y, z, r4, g2, r5
<1>7. (<<o, d>> \o <<t>>) \o b1 \o r1 \in L(<<stk, opn, 0>>, U(1))
  BY <1>1, <1>2, <1>3, LeadsConcat
<1>8. (<<o, d>> \o <<t>>) \o b1 \o r1 \o g1 \o r2 \o b2 \in L(<<stk, opn, 0>>, U(2))
  BY <1>2, <1>3, <1>7, LeadsConcat
<1>9. (<<o, d>> \o <<t>>) \o b1 \o r1 \o g1 \o r2 \o b2 \o r3 \o x \in L(<<stk, opn, 0>>, U(7))
  BY <1>3, <1>4, <1>8, LeadsConcat
<1>10. <<y>> \o <<z>> \o <<r4>> \in L(U(7), U(8))
  BY <1>2, <1>3, LeadsConcat
<1>11. (<<o, d>> \o <<t>>) \o b1 \o r1 \o g1 \o r2 \o b2 \o r3 \o x \o (<<y>> \o <<z>> \o <<r4>>) \o g2
         \in L(<<stk, opn, 0>>, U(8))
  BY <1>2, <1>9, <1>10, LeadsConcat
<1>12. QED
  BY <1>1, <1>3, <1>6, <1>11, LeadsConcat

\* What an integrity check puts into its store is what it expects to find.
LEMMA GateFills ==
  ASSUME NEW f, f.chunks \in Nat, f.memoirs \in Nat, f.batch \in Nat, NEW at \in Paths, NEW b1, NEW b2, NEW b3
  PROVE  /\ OnError("close", When(f.memoirs > 0, <<Write("batch", at, "memoir", f.memoirs, f.memoirs)>>)
                             \o When(b1, <<SetBulkImport(at)>>) \o batchPutBytesChunked(at, f.chunks, f))
               \in Seq(Filling(f, at))
         /\ OnError("ignore", When(b2, <<FlushWAL(at)>>) \o When(b1, <<SetBulkImport(at)>>)) \in Seq(Filling(f, at))
         /\ OnError("close", When(b3, <<FlushWAL(at)>>)) \in Seq(Filling(f, at))
         /\ OnError("close", <<Call("create_table", at, "exit")>> \o sqliteBatchPut(at, FALSE, "memoir", f.memoirs)
                             \o sqliteBatchPut(at, FALSE, "chunk", f.chunks)) \in Seq(Filling(f, at))
<1> DEFINE a == Write("batch", at, "memoir", f.memoirs, f.memoirs)
           x == SetBulkImport(at)
           w == FlushWAL(at)
           t == Call("create_table", at, "exit")
<1>1. a \in Filling(f, at)
  <2>1. f.memoirs \in Int /\ f.memoirs <= f.memoirs
    BY SMT
  <2>2. QED
    BY <2>1, WriteFilling DEF Keys, Limit
<1>2. x \in Filling(f, at) /\ w \in Filling(f, at) /\ t \in Filling(f, at)
  BY SimpleFilling DEF SetBulkImport, FlushWAL, Errs
<1> DEFINE S == Seq(Filling(f, at))
<1>3. <<a>> \in S /\ <<x>> \in S /\ <<w>> \in S /\ <<t>> \in S
  BY <1>1, <1>2, SMT
<1> HIDE DEF a, x, w, t
<1>4. /\ When(f.memoirs > 0, <<a>>) \in S /\ When(b1, <<x>>) \in S /\ When(b2, <<w>>) \in S /\ When(b3, <<w>>) \in S
  BY <1>3, FillingWhen
<1>5. /\ batchPutBytesChunked(at, f.chunks, f) \in S
      /\ sqliteBatchPut(at, FALSE, "memoir", f.memoirs) \in S /\ sqliteBatchPut(at, FALSE, "chunk", f.chunks) \in S
  BY BatchesFill, SqlitePutFills DEF Keys, Limit
<1>6. "close" \in Errs /\ "ignore" \in Errs
  BY DEF Errs
<1>7. When(f.memoirs > 0, <<a>>) \o When(b1, <<x>>) \o batchPutBytesChunked(at, f.chunks, f) \in S
  BY <1>4, <1>5, FillingConcat
<1>8. When(b2, <<w>>) \o When(b1, <<x>>) \in S
  BY <1>4, FillingConcat
<1>9. <<t>> \o sqliteBatchPut(at, FALSE, "memoir", f.memoirs) \o sqliteBatchPut(at, FALSE, "chunk", f.chunks) \in S
  BY <1>3, <1>5, FillingConcat
<1>10. QED
  BY <1>4, <1>6, <1>7, <1>8, <1>9, OnErrorFills DEF a, x, w, t

\* The moves that an integrity check of the store at makes: s says what holds
\* before and after its calls.
GateMoves(R, f, q, at, s) ==
    /\ <<s[1], RemoveAll(at), s[1]>> \in R
    /\ \A c \in OpenCalls : c.at = at /\ c.err = "exit" => <<s[1], c, s[2]>> \in R /\ <<s[3], c, s[4]>> \in R
    /\ \A c \in Filling(f, at) : <<s[2], c, s[2]>> \in R
    /\ \A err \in {"ignore", "exit"} : /\ <<s[2], Call("close", at, err), s[3]>> \in R
                                       /\ <<s[6], Call("close", at, err), s[7]>> \in R
    /\ <<s[4], Read("scan", at, "memoir", 0), s[5]>> \in R
    /\ <<s[5], Read("scan_more", at, "chunk", 0), s[6]>> \in R
    /\ <<s[4], [Read("count", at, "all", 0) EXCEPT !.err = "close"], s[6]>> \in R
    /\ <<s[7], metricResult("post_restart_row_count", q, at, "duration_ms"), s[8]>> \in R
    /\ <<s[8], metricResult("post_restart_row_count", q, at, "row_count"), s[9]>> \in R
    /\ <<s[9], metricResult("post_restart_row_count", q, at, "expected_row_count"), s[10]>> \in R
    /\ <<s[10], metricResult("post_restart_row_count", q, at, "integrity_ok"), s[11]>> \in R

LEMMA GateCalls ==
  ASSUME NEW q \in Known, NEW at \in Paths
  PROVE  /\ RemoveAll(at) \in CallSet /\ \A err \in {"ignore", "exit"} : Call("close", at, err) \in CallSet
         /\ Read("scan", at, "memoir", 0) \in CallSet /\ Read("scan_more", at, "chunk", 0) \in CallSet
         /\ [Read("count", at, "all", 0) EXCEPT !.err = "close"] \in CallSet
         /\ \A metric \in Metrics : metricResult("post_restart_row_count", q, at, metric) \in CallSet
<1>0. 0 \in Int
  BY SMT
<1>1. RemoveAll(at) \in CallSet /\ \A err \in {"ignore", "exit"} : Call("close", at, err) \in CallSet
  BY DEF RemoveAll, Call, CallSet, SimpleCalls, PlainOps, Errs
<1>2. Read("scan", at, "memoir", 0) \in CallSet /\ Read("scan_more", at, "chunk", 0) \in CallSet
  BY <1>0 DEF Read, CallSet, ReadCalls, Errs, Keys
<1>3. [Read("count", at, "all", 0) EXCEPT !.err = "close"] \in CallSet
  BY <1>0 DEF Read, CallSet, CountCalls, Errs
<1>4. \A metric \in Metrics : metricResult("post_restart_row_count", q, at, metric) \in CallSet
  BY DEF result, metricResult, CallSet, RowCalls, RowPhases, Errs
<1>5. QED
  BY <1>1, <1>2, <1>3, <1>4

LEMMA GateRowsLead ==
  ASSUME NEW R, NEW f, NEW q \in Known, NEW at \in Paths, NEW s, GateMoves(R, f, q, at, s)
  PROVE  GateRows(q, at) \in Leads(R, s[7], s[11])
<1> DEFINE row(metric) == metricResult("post_restart_row_count", q, at, metric)
<1>1. /\ row("duration_ms") \in CallSet /\ row("row_count") \in CallSet /\ row("expected_row_count") \in CallSet
      /\ row("integrity_ok") \in CallSet
  BY GateCalls DEF Metrics
<1>2. /\ <<s[7], row("duration_ms"), s[8]>> \in R /\ <<s[8], row("row_count"), s[9]>> \in R
      /\ <<s[9], row("expected_row_count"), s[10]>> \in R /\ <<s[10], row("integrity_ok"), s[11]>> \in R
  BY DEF GateMoves
<1> HIDE DEF row
<1>3. <<row("duration_ms"), row("row_count"), row("expected_row_count"), row("integrity_ok")>> \in Leads(R, s[7], s[11])
  BY <1>1, <1>2, LeadsFour
<1>4. QED
  BY <1>3 DEF GateRows, row

LEMMA F4KVSGateLeads ==
  ASSUME NEW f, f.chunks \in Nat, f.memoirs \in Nat, f.batch \in Nat, NEW base \in Options,
         NEW R, NEW q \in Known, NEW at \in Paths, NEW s, GateMoves(R, f, q, at, s)
  PROVE  benchF4KVSPostRestart(at, q, base, f) \in Leads(R, s[1], s[11])
<1> DEFINE opts == openOptsForProfile(base, f.chunks + f.memoirs, f)
           bulk == f.chunks > BulkFrom
           o == Open(at, opts)
           x == OnError("close", When(f.memoirs > 0, <<Write("batch", at, "memoir", f.memoirs, f.memoirs)>>)
                                 \o When(bulk, <<SetBulkImport(at)>>) \o batchPutBytesChunked(at, f.chunks, f))
           y == OnError("ignore", When(BatchPutSize(f) <= 0, <<FlushWAL(at)>>) \o When(bulk, <<SetBulkImport(at)>>))
           z == OnError("close", When(usesGroupCommit(opts), <<FlushWAL(at)>>))
           c == Close(at)
           r1 == Read("scan", at, "memoir", 0)
           r2 == Read("scan_more", at, "chunk", 0)
           L(u, v) == Leads(R, u, v)
<1>1. opts \in Options
  <2>1. f.chunks + f.memoirs \in Nat
    BY SMT
  <2>2. QED
    BY <2>1, OptionsKept
<1> HIDE DEF opts, bulk
<1>2. o \in OpenCalls /\ o.at = at /\ o.err = "exit" /\ o \in CallSet
  BY <1>1, OpenIs DEF Open, CallSet
<1>3. x \in L(s[2], s[2]) /\ y \in L(s[2], s[2]) /\ z \in L(s[2], s[2])
  <2>1. x \in Seq(Filling(f, at)) /\ y \in Seq(Filling(f, at)) /\ z \in Seq(Filling(f, at))
    BY GateFills
  <2> HIDE DEF x, y, z
  <2>2. Filling(f, at) \subseteq CallSet /\ \A e \in Filling(f, at) : <<s[2], e, s[2]>> \in R
    BY DEF GateMoves, Filling, Inert
  <2>3. QED
    BY <2>1, <2>2, LeadsStay
<1>4. <<RemoveAll(at), o>> \in L(s[1], s[2])
  BY <1>2, GateCalls, LeadsTwo DEF GateMoves
<1>5. <<c, o, r1, r2, c>> \in L(s[2], s[7])
  <2>1. c = Call("close", at, "ignore")
    BY DEF Close
  <2>2. c \in CallSet /\ r1 \in CallSet /\ r2 \in CallSet
    BY <2>1, GateCalls
  <2>3. /\ <<s[2], c, s[3]>> \in R /\ <<s[3], o, s[4]>> \in R /\ <<s[4], r1, s[5]>> \in R /\ <<s[5], r2, s[6]>> \in R
        /\ <<s[6], c, s[7]>> \in R
    BY <1>2, <2>1 DEF GateMoves
  <2> HIDE DEF c, o, r1, r2
  <2>4. QED
    BY <1>2, <2>2, <2>3, LeadsFive
<1>6. GateRows(q, at) \in L(s[7], s[11])
  BY GateRowsLead
<1>7. benchF4KVSPostRestart(at, q, base, f)
        = <<RemoveAll(at), o>> \o x \o y \o z \o <<c, o, r1, r2, c>> \o GateRows(q, at)
  BY DEF benchF4KVSPostRestart, opts, bulk
<1> HIDE DEF o, x, y, z, c, r1, r2
<1>8. <<RemoveAll(at), o>> \o x \o y \o z \in L(s[1], s[2])
  BY <1>3, <1>4, LeadsConcat
<1>9. QED
  BY <1>5, <1>6, <1>7, <1>8, LeadsConcat

LEMMA SQLiteGateLeads ==
  ASSUME NEW f, f.chunks \in Nat, f.memoirs \in Nat, f.batch \in Nat,
         NEW R, NEW q \in Known, NEW at \in Paths, NEW s, GateMoves(R, f, q, at, s)
  PROVE  benchSQLitePostRestart(at, q, f) \in Leads(R, s[1], s[11])
<1> DEFINE o == OpenDB(at, Relaxed(q))
           x == OnError("close", <<Call("create_table", at, "exit")>> \o sqliteBatchPut(at, FALSE, "memoir", f.memoirs)
                                 \o sqliteBatchPut(at, FALSE, "chunk", f.chunks))
           e == [Close(at) EXCEPT !.err = "exit"]
           c == Close(at)
           r == [Read("count", at, "all", 0) EXCEPT !.err = "close"]
           L(u, v) == Leads(R, u, v)
<1>1. o \in OpenCalls /\ o.at = at /\ o.err = "exit" /\ o \in CallSet
  BY DEF OpenDB, OpenCalls, Errs, CallSet, Relaxed
<1>2. x \in L(s[2], s[2])
  <2>1. x \in Seq(Filling(f, at))
    BY GateFills
  <2> HIDE DEF x
  <2>2. Filling(f, at) \subseteq CallSet /\ \A b \in Filling(f, at) : <<s[2], b, s[2]>> \in R
    BY DEF GateMoves, Filling, Inert
  <2>3. QED
    BY <2>1, <2>2, LeadsStay
<1>3. <<RemoveAll(at), o>> \in L(s[1], s[2])
  BY <1>1, GateCalls, LeadsTwo DEF GateMoves
<1>4. <<e, o, r, c>> \in L(s[2], s[7])
  <2>1. c = Call("close", at, "ignore") /\ e = Call("close", at, "exit")
    BY SMT DEF Close, Call
  <2>2. c \in CallSet /\ r \in CallSet /\ e \in CallSet
    BY <2>1, GateCalls
  <2>3. /\ <<s[2], e, s[3]>> \in R /\ <<s[3], o, s[4]>> \in R /\ <<s[4], r, s[6]>> \in R /\ <<s[6], c, s[7]>> \in R
    BY <1>1, <2>1 DEF GateMoves
  <2> HIDE DEF c, o, r, e
  <2>4. QED
    BY <1>1, <2>2, <2>3, LeadsFour
<1>5. GateRows(q, at) \in L(s[7], s[11])
  BY GateRowsLead
<1>6. benchSQLitePostRestart(at, q, f) = <<RemoveAll(at), o>> \o x \o <<e, o, r, c>> \o GateRows(q, at)
  BY DEF benchSQLitePostRestart
<1> HIDE DEF o, x, e, c, r
<1>7. QED
  BY <1>2, <1>3, <1>4, <1>5, <1>6, LeadsConcat

\* The shape of an integrity check.
LEMMA GateShape ==
  ASSUME NEW f, NEW D, NEW q \in Known, NEW at \in D, at \in Paths,
         NEW stk \in Seq(Put_Off), NEW opn \in SUBSET Paths, \A x \in opn : ~Below(x, at), NEW n \in Nat, n < 10
  PROVE  LET u == <<stk, opn, n>>
             v == <<stk, opn \cup {at}, n>>
         IN  GateMoves(Shape(D, q), f, q, at,
                <<u, v, u, v, v, v, u, <<stk, opn, 10>>, <<stk, opn, 11>>, <<stk, opn, 12>>, <<stk, opn, 13>>>>)
<1> DEFINE op == opn \cup {at}
           u == <<stk, opn, n>>
           v == <<stk, op, n>>
           U(k) == <<stk, opn, k>>
           R == Shape(D, q)
           row(metric) == metricResult("post_restart_row_count", q, at, metric)
           s == <<u, v, u, v, v, v, u, U(10), U(11), U(12), U(13)>>
<1>1. op \in SUBSET Paths /\ op \ {at} \subseteq opn
  OBVIOUS
<1>2. <<u, RemoveAll(at), u>> \in R
  <2>1. RemoveAll(at) \in SimpleCalls /\ RemoveAll(at).at = at /\ RemoveAll(at).op = "remove_all"
    BY DEF RemoveAll, Call, SimpleCalls, PlainOps, Errs
  <2>2. QED
    BY <2>1, StoreMove
<1>3. \A c \in OpenCalls : c.at = at => <<u, c, v>> \in R
  BY OpenMove
<1> HIDE DEF op
<1>4. \A c \in Filling(f, at) : <<v, c, v>> \in R
  <2>1. \A c \in Filling(f, at) : c \in Inert(at)
    BY DEF Filling
  <2>2. QED
    BY <1>1, <2>1, InertMove
<1>5. \A err \in {"ignore", "exit"} : <<v, Call("close", at, err), u>> \in R
  <2>1. \A err \in {"ignore", "exit"} : /\ Call("close", at, err) \in SimpleCalls /\ Call("close", at, err).at = at
                                        /\ Call("close", at, err).op = "close"
    BY DEF Call, SimpleCalls, PlainOps, Errs
  <2>2. QED
    BY <1>1, <2>1, StoreMove
<1>6. /\ <<v, Read("scan", at, "memoir", 0), v>> \in R /\ <<v, Read("scan_more", at, "chunk", 0), v>> \in R
      /\ <<v, [Read("count", at, "all", 0) EXCEPT !.err = "close"], v>> \in R
  <2>1. /\ Read("scan", at, "memoir", 0) \in Inert(at) /\ Read("scan_more", at, "chunk", 0) \in Inert(at)
        /\ [Read("count", at, "all", 0) EXCEPT !.err = "close"] \in Inert(at)
    BY GateCalls DEF Inert, InertOps, Read
  <2>2. QED
    BY <1>1, <2>1, InertMove
<1>7. \A metric : row(metric).phase = "post_restart_row_count" /\ row(metric).metric = metric
  BY DEF result, metricResult
<1>8. /\ Rank(row("duration_ms")) = 10 /\ Rank(row("row_count")) = 11
      /\ Rank(row("expected_row_count")) = 12 /\ Rank(row("integrity_ok")) = 13
  BY <1>7, RankIs
<1>9. ASSUME NEW metric \in Metrics, NEW k \in Nat, NEW m \in Nat, k < Rank(row(metric)), Rank(row(metric)) <= m
      PROVE  <<U(k), row(metric), U(m)>> \in R
  <2>1. row(metric) \in RowCalls /\ row(metric).at = at /\ row(metric).profile = q
    BY DEF result, metricResult, RowCalls, RowPhases, Errs
  <2>2. metric \in Metrics \cup {""} /\ "post_restart_row_count" \in RowPhases
    BY DEF RowPhases
  <2> HIDE DEF row
  <2>3. QED
    BY <1>7, <1>9, <2>1, <2>2, RowMove
<1> HIDE DEF row
<1>10. /\ <<u, row("duration_ms"), U(10)>> \in R /\ <<U(10), row("row_count"), U(11)>> \in R
       /\ <<U(11), row("expected_row_count"), U(12)>> \in R /\ <<U(12), row("integrity_ok"), U(13)>> \in R
  <2>1. /\ n < Rank(row("duration_ms")) /\ Rank(row("duration_ms")) <= 10
        /\ 10 < Rank(row("row_count")) /\ Rank(row("row_count")) <= 11
        /\ 11 < Rank(row("expected_row_count")) /\ Rank(row("expected_row_count")) <= 12
        /\ 12 < Rank(row("integrity_ok")) /\ Rank(row("integrity_ok")) <= 13
        /\ 10 \in Nat /\ 11 \in Nat /\ 12 \in Nat /\ 13 \in Nat
    BY <1>8, SMT
  <2>2. "duration_ms" \in Metrics /\ "row_count" \in Metrics /\ "expected_row_count" \in Metrics /\ "integrity_ok" \in Metrics
    BY DEF Metrics
  <2>3. QED
    BY <1>9, <2>1, <2>2
<1> HIDE DEF u, v, U, R
<1>11. /\ s[1] = u /\ s[2] = v /\ s[3] = u /\ s[4] = v /\ s[5] = v /\ s[6] = v /\ s[7] = u
       /\ s[8] = U(10) /\ s[9] = U(11) /\ s[10] = U(12) /\ s[11] = U(13)
  BY SMT
<1> HIDE DEF s
<1>12. GateMoves(R, f, q, at, s)
  BY <1>2, <1>3, <1>4, <1>5, <1>6, <1>10, <1>11, ZenonT(60) DEF GateMoves, row
<1>13. QED
  BY <1>12 DEF s, u, v, U, R, op

-----------------------------------------------------------------------------
(* What follows from a shape.                                              *)

\* A function makes no calls but its own.
LEMMA ShapeCalls ==
  ASSUME NEW D, NEW q, NEW u, NEW v, NEW s \in Leads(Shape(D, q), u, v)
  PROVE  s \in Seq(Calls(D, q))
<1>1. s \in Seq(CallSet)
  BY DEF Leads
<1>2. PICK g : \A i \in 1 .. Len(s) : <<g[i], s[i], g[i + 1]>> \in Shape(D, q)
  BY DEF Leads
<1>3. \A i \in 1 .. Len(s) : s[i] \in Calls(D, q)
  BY <1>2 DEF Shape
<1>4. QED
  BY <1>1, <1>3, SMT

LEMMA ShapeStacks ==
  ASSUME NEW D, NEW q, NEW u \in States, NEW v \in States, NEW s \in Leads(Shape(D, q), u, v)
  PROVE  s \in Leads(Stacks, <<u[1], u[2]>>, <<v[1], v[2]>>)
<1>1. s \in Seq(CallSet) /\ Len(s) \in Nat
  <2>1. s \in Seq(CallSet)
    BY DEF Leads
  <2>2. QED
    BY <2>1, SMT
<1>2. PICK g : g[1] = u /\ g[Len(s) + 1] = v /\ \A i \in 1 .. Len(s) : <<g[i], s[i], g[i + 1]>> \in Shape(D, q)
  BY DEF Leads
<1> DEFINE h == [i \in 1 .. Len(s) + 1 |-> <<g[i][1], g[i][2]>>]
<1>3. /\ 1 \in 1 .. Len(s) + 1 /\ Len(s) + 1 \in 1 .. Len(s) + 1
      /\ \A i \in 1 .. Len(s) : i \in 1 .. Len(s) + 1 /\ i + 1 \in 1 .. Len(s) + 1
  BY <1>1, SMT
<1>4. h[1] = <<u[1], u[2]>> /\ h[Len(s) + 1] = <<v[1], v[2]>>
  BY <1>2, <1>3
<1>5. ASSUME NEW i \in 1 .. Len(s) PROVE <<h[i], s[i], h[i + 1]>> \in Stacks
  <2>1. h[i] = <<g[i][1], g[i][2]>> /\ h[i + 1] = <<g[i + 1][1], g[i + 1][2]>>
    BY <1>3
  <2>2. g[i] \in States /\ s[i] \in CallSet /\ g[i + 1] \in States /\ StackMove(g[i], s[i], g[i + 1])
    BY <1>2 DEF Shape, ShapeMove
  <2> HIDE DEF h
  <2> DEFINE a == g[i]
             b == g[i + 1]
             c == s[i]
  <2>3. StackMove(<<a[1], a[2]>>, c, <<b[1], b[2]>>)
    <3> HIDE DEF a, b, c
    <3>1. StackMove(a, c, b)
      BY <2>2 DEF a, b, c
    <3>2. QED
      BY <3>1, ZenonT(60) DEF StackMove
  <2>4. <<a[1], a[2]>> \in Seq(Put_Off) \X (SUBSET Paths) /\ <<b[1], b[2]>> \in Seq(Put_Off) \X (SUBSET Paths)
    BY <2>2 DEF States
  <2>5. QED
    BY <2>1, <2>2, <2>3, <2>4 DEF Stacks
<1> HIDE DEF h
<1>6. QED
  BY <1>1, <1>4, <1>5 DEF Leads

LEMMA ShapeRanks ==
  ASSUME NEW D, NEW q, NEW u \in States, NEW v \in States, NEW s \in Leads(Shape(D, q), u, v)
  PROVE  s \in Leads(Ranks(q), u[3], v[3])
<1>1. s \in Seq(CallSet) /\ Len(s) \in Nat
  <2>1. s \in Seq(CallSet)
    BY DEF Leads
  <2>2. QED
    BY <2>1, SMT
<1>2. PICK g : g[1] = u /\ g[Len(s) + 1] = v /\ \A i \in 1 .. Len(s) : <<g[i], s[i], g[i + 1]>> \in Shape(D, q)
  BY DEF Leads
<1> DEFINE h == [i \in 1 .. Len(s) + 1 |-> g[i][3]]
<1>3. /\ 1 \in 1 .. Len(s) + 1 /\ Len(s) + 1 \in 1 .. Len(s) + 1
      /\ \A i \in 1 .. Len(s) : i \in 1 .. Len(s) + 1 /\ i + 1 \in 1 .. Len(s) + 1
  BY <1>1, SMT
<1>4. h[1] = u[3] /\ h[Len(s) + 1] = v[3]
  BY <1>2, <1>3
<1>5. ASSUME NEW i \in 1 .. Len(s) PROVE <<h[i], s[i], h[i + 1]>> \in Ranks(q)
  <2>1. h[i] = g[i][3] /\ h[i + 1] = g[i + 1][3]
    BY <1>3
  <2>2. /\ g[i] \in States /\ s[i] \in Calls(D, q) /\ s[i] \in CallSet /\ g[i + 1] \in States
        /\ RankMove(g[i][3], s[i], g[i + 1][3])
    BY <1>2 DEF Shape, ShapeMove
  <2>3. g[i][3] \in Nat /\ g[i + 1][3] \in Nat
    BY <2>2 DEF States
  <2>4. s[i].op = "row" => s[i].profile = q
    BY <2>2 DEF Calls
  <2> HIDE DEF h
  <2>5. QED
    BY <2>1, <2>2, <2>3, <2>4 DEF Ranks, RankMove
<1> HIDE DEF h
<1>6. QED
  BY <1>1, <1>4, <1>5 DEF Leads

\* Rows of other profiles do not matter.
LEMMA OtherRanks ==
  ASSUME NEW D, NEW q, NEW p, p # q, NEW s \in Seq(Calls(D, q)), NEW n \in Nat
  PROVE  s \in Leads(Ranks(p), n, n)
<1>1. Calls(D, q) \subseteq CallSet /\ \A c \in Calls(D, q) : <<n, c, n>> \in Ranks(p)
  BY DEF Calls, Ranks
<1>2. QED
  BY <1>1, LeadsStay

-----------------------------------------------------------------------------
(* The profiles.                                                           *)

\* The stores of a profile; that of its integrity check is apart.
Area(p) == {Dir(p), <<"tmp", "chunk_batched", p>>} \cup SideDirs(Dir(p))

LEMMA AreaFacts ==
  ASSUME NEW p \in Known
  PROVE  /\ Area(p) \subseteq Paths /\ RestartDir(p) \in Paths /\ ~Below(Dir(p), Append(Dir(p), "chunk_durable"))
         /\ \A q \in Known : RestartDir(q) \notin Area(p) /\ (q # p => RestartDir(q) # RestartDir(p))
         /\ RestartDir(p) # <<>>
<1>1. p \in PathNames /\ {"tmp", "restart", "chunk_durable", "chunk_batched", "chunk_bulk_import"} \subseteq PathNames
  BY DEF PathNames
<1>2. /\ Append(Dir(p), "chunk_durable") = <<"tmp", p, "chunk_durable">>
      /\ Append(Dir(p), "chunk_batched") = <<"tmp", p, "chunk_batched">>
      /\ Append(Dir(p), "chunk_bulk_import") = <<"tmp", p, "chunk_bulk_import">>
  BY <1>1, AppendToDir
<1>3. Area(p) = {<<"tmp", p>>, <<"tmp", "chunk_batched", p>>, <<"tmp", p, "chunk_durable">>,
                 <<"tmp", p, "chunk_batched">>, <<"tmp", p, "chunk_bulk_import">>}
  BY <1>2 DEF Area, SideDirs, Dir
<1>4. /\ <<"tmp", p>> \in Paths /\ <<"tmp", "chunk_batched", p>> \in Paths /\ <<"tmp", p, "chunk_durable">> \in Paths
      /\ <<"tmp", p, "chunk_batched">> \in Paths /\ <<"tmp", p, "chunk_bulk_import">> \in Paths
      /\ RestartDir(p) \in Paths
  BY <1>1, SMT DEF Paths, RestartDir
<1>5. Area(p) \subseteq Paths
  BY <1>3, <1>4
<1>6. ~Below(Dir(p), Append(Dir(p), "chunk_durable"))
  <2>1. Len(Dir(p)) = 2 /\ Len(Append(Dir(p), "chunk_durable")) = 3
    BY <1>2, SMT DEF Dir
  <2>2. QED
    BY <2>1, SMT DEF Below
<1>7. ASSUME NEW q \in Known PROVE RestartDir(q) \notin Area(p) /\ (q # p => RestartDir(q) # RestartDir(p))
  <2>1. p # "restart" /\ q # "restart"
    BY KnownIs
  <2>2. QED
    BY <1>3, <2>1, SMT DEF RestartDir
<1>8. RestartDir(p) # <<>>
  BY SMT DEF RestartDir
<1>9. QED
  BY <1>4, <1>5, <1>6, <1>7, <1>8

LEMMA BaseOptions ==
  ASSUME NEW p
  PROVE  OptionsOf(p) \in Options
<1>1. 0 \in Nat
  BY SMT
<1>2. QED
  BY <1>1 DEF OptionsOf, Nil, GroupCommit, Options

LEMMA BenchShape ==
  ASSUME NEW ids, NEW f \in EmbedFlags(ids), NEW p \in Known, NEW stk \in Seq(Put_Off)
  PROVE  Bench(p, f) \in Leads(Shape(Area(p), p), <<stk, {}, 0>>, <<stk, {}, 9>>)
<1>1. f.chunks \in Nat /\ f.memoirs \in Nat /\ f.gets \in Nat /\ f.batch \in Nat
  BY DEF EmbedFlags
<1>2. /\ Dir(p) \in Area(p) /\ <<"tmp", "chunk_batched", p>> \in Area(p) /\ SideDirs(Dir(p)) \subseteq Area(p)
      /\ Area(p) \subseteq Paths
  BY AreaFacts DEF Area
<1>3. {} \in SUBSET Paths /\ \A x \in {} \cup {Dir(p)} : ~Below(x, Append(Dir(p), "chunk_durable"))
  BY AreaFacts
<1>4. CASE p \in SQLite
  BY <1>1, <1>2, <1>3, <1>4, SQLiteShape DEF Bench
<1>5. CASE p \notin SQLite
  <2>1. benchF4KVS(Dir(p), p, OptionsOf(p), f) \in Leads(Shape(Area(p), p), <<stk, {}, 0>>, <<stk, {}, 9>>)
    BY <1>1, <1>2, <1>3, BaseOptions, F4KVSShape
  <2>2. QED
    BY <1>5, <2>1 DEF Bench
<1>6. QED
  BY <1>4, <1>5

\* An integrity check, given the moves that it makes.
LEMMA GateLeads ==
  ASSUME NEW ids, NEW f \in EmbedFlags(ids), NEW p \in Gated, NEW R, NEW s, GateMoves(R, f, p, RestartDir(p), s)
  PROVE  Gate(p, f) \in Leads(R, s[1], s[11])
<1>1. f.chunks \in Nat /\ f.memoirs \in Nat /\ f.batch \in Nat
  BY DEF EmbedFlags
<1>2. p \in Known /\ RestartDir(p) \in Paths
  BY KnownIs, AreaFacts DEF Gated, SQLite
<1>3. CASE p \in SQLite
  BY <1>1, <1>2, <1>3, SQLiteGateLeads DEF Gate
<1>4. CASE p \notin SQLite
  <2>1. benchF4KVSPostRestart(RestartDir(p), p, OptionsOf(p), f) \in Leads(R, s[1], s[11])
    BY <1>1, <1>2, BaseOptions, F4KVSGateLeads
  <2>2. QED
    BY <1>4, <2>1 DEF Gate, When, Gated
<1>5. QED
  BY <1>3, <1>4

LEMMA GateNone ==
  ASSUME NEW f, NEW p \in Known, p \notin Gated
  PROVE  Gate(p, f) = <<>>
  BY DEF Gate, When, Gated

LEMMA GateKeepsShape ==
  ASSUME NEW ids, NEW f \in EmbedFlags(ids), NEW p \in Known, NEW stk \in Seq(Put_Off)
  PROVE  Gate(p, f) \in Leads(Shape({RestartDir(p)}, p), <<stk, {}, 9>>, <<stk, {}, LastRank(p)>>)
<1> DEFINE at == RestartDir(p)
           R == Shape({at}, p)
           u == <<stk, {}, 9>>
           v == <<stk, {} \cup {at}, 9>>
           s == <<u, v, u, v, v, v, u, <<stk, {}, 10>>, <<stk, {}, 11>>, <<stk, {}, 12>>, <<stk, {}, 13>>>>
<1>1. CASE p \in Gated
  <2>1. 9 \in Nat /\ 9 < 10
    BY SMT
  <2>2. at \in {at} /\ at \in Paths /\ {} \in SUBSET Paths /\ \A x \in {} : ~Below(x, at)
    BY AreaFacts
  <2> HIDE DEF at
  <2>3. GateMoves(R, f, p, at, s)
    BY <2>1, <2>2, GateShape
  <2>4. s[1] = u /\ s[11] = <<stk, {}, 13>>
    BY SMT DEF s
  <2> HIDE DEF s, u, R
  <2>5. Gate(p, f) \in Leads(R, s[1], s[11])
    BY <1>1, <2>3, GateLeads DEF at
  <2>6. QED
    BY <1>1, <2>4, <2>5 DEF LastRank, u, R, at
<1>2. CASE p \notin Gated
  <2>1. <<>> \in Leads(R, u, u)
    <3>1. When(FALSE, <<>>) \in Leads(R, u, u)
      BY LeadsWhen
    <3>2. QED
      BY <3>1 DEF When
  <2>2. QED
    BY <1>2, <2>1, GateNone DEF LastRank
<1>3. QED
  BY <1>1, <1>2

-----------------------------------------------------------------------------
(* main of embed_vs_sqlite.                                                *)

\* Calls for one profile after the other.  Those for p lead from a to b, and
\* the others change nothing.
LEMMA SelectedLeads ==
  ASSUME NEW R, NEW a, NEW b, NEW want, NEW calls, NEW p \in Known,
         \A q \in want \ {p} : calls[q] \in Leads(R, a, a) /\ calls[q] \in Leads(R, b, b),
         IF p \in want THEN calls[p] \in Leads(R, a, b) ELSE a = b
  PROVE  selectedProfileNames(want, calls) \in Leads(R, a, b)
<1> DEFINE run(i) == When(knownProfiles[i] \in want, calls[knownProfiles[i]])
<1>1. PICK k \in 1 .. 8 : knownProfiles[k] = p
  <2>1. DOMAIN knownProfiles = 1 .. 8
    BY SMT DEF knownProfiles
  <2>2. QED
    BY <2>1 DEF Known
<1>2. \A i \in 1 .. 8 : i # k => knownProfiles[i] # p
  <2>1. \A i \in 1 .. 8 : i \in {1, 2, 3, 4, 5, 6, 7, 8}
    BY SMT
  <2>2. \A i, j \in {1, 2, 3, 4, 5, 6, 7, 8} : i # j => knownProfiles[i] # knownProfiles[j]
    BY SMT DEF knownProfiles
  <2>3. QED
    BY <1>1, <2>1, <2>2
<1> DEFINE t(i) == IF i <= k THEN a ELSE b
<1>3. ASSUME NEW i \in 1 .. 8 PROVE run(i) \in Leads(R, t(i), t(i + 1))
  <2>1. CASE i = k
    <3>1. t(i) = a /\ t(i + 1) = b
      BY <2>1, SMT
    <3> HIDE DEF t
    <3>2. CASE p \in want
      BY <1>1, <2>1, <3>1, <3>2 DEF When
    <3>3. CASE p \notin want
      <4>1. run(i) \in Leads(R, a, a)
        BY <1>1, <2>1, <3>3, LeadsWhen
      <4>2. QED
        BY <3>1, <3>3, <4>1
    <3>4. QED
      BY <3>2, <3>3
  <2>2. CASE i # k
    <3>1. t(i) = t(i + 1) /\ t(i) \in {a, b}
      BY <2>2, SMT
    <3> HIDE DEF t
    <3>2. knownProfiles[i] # p
      BY <1>2, <2>2
    <3>3. run(i) \in Leads(R, t(i), t(i))
      BY <3>1, <3>2, LeadsWhen
    <3>4. QED
      BY <3>1, <3>3
  <2>3. QED
    BY <2>1, <2>2
<1>4. t(1) = a /\ t(9) = b
  BY SMT
<1> HIDE DEF t
<1>5. /\ run(1) \in Leads(R, a, t(2)) /\ run(2) \in Leads(R, t(2), t(3)) /\ run(3) \in Leads(R, t(3), t(4))
      /\ run(4) \in Leads(R, t(4), t(5)) /\ run(5) \in Leads(R, t(5), t(6)) /\ run(6) \in Leads(R, t(6), t(7))
      /\ run(7) \in Leads(R, t(7), t(8)) /\ run(8) \in Leads(R, t(8), b)
  <2>1. \A i \in 1 .. 8 : run(i) \in Leads(R, t(i), t(i + 1))
    BY <1>3
  <2> HIDE DEF run
  <2>2. /\ 1 \in 1 .. 8 /\ 2 \in 1 .. 8 /\ 3 \in 1 .. 8 /\ 4 \in 1 .. 8 /\ 5 \in 1 .. 8 /\ 6 \in 1 .. 8
        /\ 7 \in 1 .. 8 /\ 8 \in 1 .. 8
        /\ 1 + 1 = 2 /\ 2 + 1 = 3 /\ 3 + 1 = 4 /\ 4 + 1 = 5 /\ 5 + 1 = 6 /\ 6 + 1 = 7 /\ 7 + 1 = 8 /\ 8 + 1 = 9
    BY SMT
  <2>3. /\ run(1) \in Leads(R, t(1), t(2)) /\ run(2) \in Leads(R, t(2), t(3)) /\ run(3) \in Leads(R, t(3), t(4))
        /\ run(4) \in Leads(R, t(4), t(5))
    BY <2>1, <2>2, ZenonT(60)
  <2>4. /\ run(5) \in Leads(R, t(5), t(6)) /\ run(6) \in Leads(R, t(6), t(7)) /\ run(7) \in Leads(R, t(7), t(8))
        /\ run(8) \in Leads(R, t(8), t(9))
    BY <2>1, <2>2, ZenonT(60)
  <2>5. QED
    BY <1>4, <2>3, <2>4
<1>6. selectedProfileNames(want, calls) = run(1) \o run(2) \o run(3) \o run(4) \o run(5) \o run(6) \o run(7) \o run(8)
  BY DEF selectedProfileNames
<1> HIDE DEF run
<1>7. run(1) \o run(2) \o run(3) \o run(4) \in Leads(R, a, t(5))
  BY <1>5, LeadsConcat
<1>8. run(1) \o run(2) \o run(3) \o run(4) \o run(5) \o run(6) \in Leads(R, a, t(7))
  BY <1>5, <1>7, LeadsConcat
<1>9. QED
  BY <1>5, <1>6, <1>8, LeadsConcat

\* The moves that main itself makes.
MainMoves(R, f, s) ==
    /\ Wanted(f) = {} => <<s[1], Call("fatal", <<>>, "exit"), s[9]>> \in R
    /\ <<s[1], Call("mkdir", Tmp, "exit"), s[1]>> \in R
    /\ <<s[1], Defer(RemoveAll(Tmp)), s[2]>> \in R
    /\ IF f.root THEN <<s[2], Call("new_run_writer", <<>>, "exit"), s[3]>> \in R ELSE s[3] = s[2]
    /\ <<s[5], Call("print_table", <<>>, "ignore"), s[5]>> \in R
    /\ <<s[5], Call("write_json", <<>>, "exit"), s[5]>> \in R
    /\ IF f.root THEN /\ <<s[5], Call("append", <<>>, "exit"), s[6]>> \in R
                      /\ <<s[6], Call("finalize", <<>>, "exit"), s[7]>> \in R
       ELSE s[7] = s[5]
    /\ <<s[7], Call("gate", <<>>, "exit"), s[8]>> \in R
    /\ <<s[8], Call("return", <<>>, "ignore"), s[9]>> \in R

LEMMA MainCalls ==
  /\ \A op \in MainOps \cup {"return"}, err \in Errs : Call(op, <<>>, err) \in CallSet
  /\ Call("mkdir", Tmp, "exit") \in CallSet /\ Defer(RemoveAll(Tmp)) \in CallSet
  /\ RemoveAll(Tmp) \in Put_Off /\ RemoveAll(Tmp).at = Tmp /\ RemoveAll(Tmp).op = "remove_all" /\ Tmp \in Paths
<1>1. <<>> \in Paths /\ Tmp \in Paths
  BY SMT DEF Paths, Tmp, PathNames
<1>2. \A op \in MainOps \cup {"return"}, err \in Errs : Call(op, <<>>, err) \in CallSet
  BY <1>1 DEF Call, CallSet, SimpleCalls, PlainOps, WriterOps, MainOps
<1>3. Call("mkdir", Tmp, "exit") \in CallSet
  BY <1>1 DEF Call, CallSet, SimpleCalls, PlainOps, Errs
<1>4. RemoveAll(Tmp) \in Put_Off /\ RemoveAll(Tmp).at = Tmp /\ RemoveAll(Tmp).op = "remove_all"
  BY <1>1 DEF RemoveAll, Call, Put_Off
<1>5. Defer(RemoveAll(Tmp)) \in CallSet
  BY <1>1, <1>4 DEF Defer, CallSet, DeferCalls, Errs
<1>6. QED
  BY <1>1, <1>2, <1>3, <1>4, <1>5

\* A part of main that depends on a flag.
LEMMA LeadsIf ==
  ASSUME NEW R, NEW a, NEW b, NEW flag \in BOOLEAN, NEW s, IF flag THEN s \in Leads(R, a, b) ELSE b = a
  PROVE  When(flag, s) \in Leads(R, a, b)
<1>1. CASE flag
  BY <1>1 DEF When
<1>2. CASE ~flag
  <2>1. When(flag, s) \in Leads(R, a, a)
    BY <1>2, LeadsWhen
  <2>2. QED
    BY <1>2, <2>1
<1>3. QED
  BY <1>1, <1>2

LEMMA EmbedLeads ==
  ASSUME NEW ids, NEW f \in EmbedFlags(ids), NEW R, NEW s, MainMoves(R, f, s),
         selectedProfileNames(Wanted(f), [p \in Wanted(f) |-> Bench(p, f)]) \in Leads(R, s[3], s[4]),
         selectedProfileNames(Wanted(f), [p \in Wanted(f) |-> Gate(p, f)]) \in Leads(R, s[4], s[5])
  PROVE  EmbedVsSQLite(f) \in Leads(R, s[1], s[9])
<1> DEFINE want == Wanted(f)
           call(op) == Call(op, <<>>, "exit")
           m == Call("mkdir", Tmp, "exit")
           d == Defer(RemoveAll(Tmp))
           w == When(f.root, <<call("new_run_writer")>>)
           b == selectedProfileNames(want, [p \in want |-> Bench(p, f)])
           g == selectedProfileNames(want, [p \in want |-> Gate(p, f)])
           t == Call("print_table", <<>>, "ignore")
           j == When(f.out, <<call("write_json")>>)
           x == When(f.root, <<call("append"), call("finalize")>>)
           r == Call("return", <<>>, "ignore")
<1>0. f.root \in BOOLEAN /\ f.out \in BOOLEAN
  BY DEF EmbedFlags
<1>1. /\ m \in CallSet /\ d \in CallSet /\ t \in CallSet /\ r \in CallSet /\ call("fatal") \in CallSet
      /\ call("new_run_writer") \in CallSet /\ call("write_json") \in CallSet /\ call("append") \in CallSet
      /\ call("finalize") \in CallSet /\ call("gate") \in CallSet
  BY MainCalls DEF MainOps, Errs
<1>2. CASE want = {}
  <2>1. <<call("fatal")>> \in Leads(R, s[1], s[9])
    BY <1>1, <1>2, LeadsOne DEF MainMoves
  <2>2. QED
    BY <1>2, <2>1 DEF EmbedVsSQLite
<1>3. CASE want # {}
  <2>1. <<m, d>> \in Leads(R, s[1], s[2])
    BY <1>1, LeadsTwo DEF MainMoves
  <2>2. w \in Leads(R, s[2], s[3])
    <3>1. IF f.root THEN <<call("new_run_writer")>> \in Leads(R, s[2], s[3]) ELSE s[3] = s[2]
      BY <1>1, LeadsOne DEF MainMoves
    <3>2. QED
      BY <1>0, <3>1, LeadsIf
  <2>3. <<t>> \in Leads(R, s[5], s[5])
    BY <1>1, LeadsOne DEF MainMoves
  <2>4. j \in Leads(R, s[5], s[5])
    <3>1. <<call("write_json")>> \in Leads(R, s[5], s[5])
      BY <1>1, LeadsOne DEF MainMoves
    <3>2. QED
      BY <3>1, LeadsWhen
  <2>5. x \in Leads(R, s[5], s[7])
    <3>1. IF f.root THEN <<call("append"), call("finalize")>> \in Leads(R, s[5], s[7]) ELSE s[7] = s[5]
      BY <1>1, LeadsTwo DEF MainMoves
    <3>2. QED
      BY <1>0, <3>1, LeadsIf
  <2>6. <<call("gate")>> \in Leads(R, s[7], s[8]) /\ <<r>> \in Leads(R, s[8], s[9])
    BY <1>1, LeadsOne DEF MainMoves
  <2>7. EmbedVsSQLite(f) = <<m, d>> \o w \o b \o g \o <<t>> \o j \o x \o <<call("gate")>> \o <<r>>
    BY <1>3, ReturnOne DEF EmbedVsSQLite
  <2>8. b \in Leads(R, s[3], s[4]) /\ g \in Leads(R, s[4], s[5])
    OBVIOUS
  <2> HIDE DEF m, d, w, b, g, t, j, x, r, call
  <2>9. <<m, d>> \o w \o b \o g \in Leads(R, s[1], s[5])
    BY <2>1, <2>2, <2>8, LeadsConcat
  <2>10. <<m, d>> \o w \o b \o g \o <<t>> \o j \o x \in Leads(R, s[1], s[7])
    BY <2>3, <2>4, <2>5, <2>9, LeadsConcat
  <2>11. QED
    BY <2>6, <2>7, <2>10, LeadsConcat
<1>4. QED
  BY <1>2, <1>3

-----------------------------------------------------------------------------
(* The stages of the integrity check of a profile.                         *)

LEMMA StagingIs ==
  ASSUME NEW f, NEW p, NEW a \in Stages, NEW b \in Stages, NEW c \in CallSet, StageMove(f, RestartDir(p), a, c, b)
  PROVE  <<a, c, b>> \in Staging(f, p)
  BY DEF Staging

\* Calls elsewhere.
LEMMA AwayStays ==
  ASSUME NEW f, NEW p, NEW q, NEW D, RestartDir(p) \notin D, RestartDir(p) # <<>>, NEW s \in Seq(Calls(D, q)),
         NEW a \in {"before", "done"}
  PROVE  s \in Leads(Staging(f, p), a, a)
<1>1. Calls(D, q) \subseteq CallSet
  BY DEF Calls
<1>2. ASSUME NEW c \in Calls(D, q) PROVE <<a, c, a>> \in Staging(f, p)
  <2>1. Away(RestartDir(p), c) /\ c.op \notin Ending /\ c \in CallSet
    BY DEF Calls, Away, MainOps, Ending
  <2>2. StageMove(f, RestartDir(p), a, c, a)
    BY <2>1 DEF StageMove
  <2>3. QED
    BY <2>1, <2>2, StagingIs DEF Stages
<1>3. QED
  BY <1>1, <1>2, LeadsStay

LEMMA ProfileCalls ==
  ASSUME NEW ids, NEW f \in EmbedFlags(ids), NEW q \in Known
  PROVE  Bench(q, f) \in Seq(Calls(Area(q), q)) /\ Gate(q, f) \in Seq(Calls({RestartDir(q)}, q))
<1>1. <<>> \in Seq(Put_Off)
  BY SMT
<1>2. QED
  BY <1>1, BenchShape, GateKeepsShape, ShapeCalls

\* The integrity check of a profile goes through its stages.
LEMMA GateStages ==
  ASSUME NEW f, NEW p \in Known
  PROVE  GateMoves(Staging(f, p), f, p, RestartDir(p),
            <<"before", "fill", "shut", "again", "half", "full", "rows", "rows", "rows", "rows", "done">>)
<1> DEFINE r == RestartDir(p)
           s == <<"before", "fill", "shut", "again", "half", "full", "rows", "rows", "rows", "rows", "done">>
           R == Staging(f, p)
           row(metric) == metricResult("post_restart_row_count", p, r, metric)
<1>1. r \in Paths
  BY AreaFacts
<1>2. /\ s[1] = "before" /\ s[2] = "fill" /\ s[3] = "shut" /\ s[4] = "again" /\ s[5] = "half" /\ s[6] = "full"
      /\ s[7] = "rows" /\ s[8] = "rows" /\ s[9] = "rows" /\ s[10] = "rows" /\ s[11] = "done"
  BY SMT
<1> HIDE DEF s
<1>3. \A i \in {1, 2, 3, 4, 5, 6, 7, 8, 9, 10, 11} : s[i] \in Stages
  BY <1>2 DEF Stages
<1>4. <<"before", RemoveAll(r), "before">> \in R
  <2>1. RemoveAll(r) \in CallSet /\ RemoveAll(r).op = "remove_all"
    BY <1>1, GateCalls DEF RemoveAll, Call
  <2>2. QED
    BY <2>1, StagingIs DEF StageMove, Stages
<1>5. \A c \in OpenCalls : c.at = r /\ c.err = "exit" => <<"before", c, "fill">> \in R /\ <<"shut", c, "again">> \in R
  <2>1. \A c \in OpenCalls : c \in CallSet /\ c.op = "open"
    BY DEF OpenCalls, CallSet
  <2>2. QED
    BY <2>1, StagingIs DEF StageMove, Stages
<1>6. \A c \in Filling(f, r) : <<"fill", c, "fill">> \in R
  <2>1. \A c \in Filling(f, r) : c \in CallSet
    BY DEF Filling, Inert
  <2>2. QED
    BY <2>1, StagingIs DEF StageMove, Stages
<1>7. ASSUME NEW err \in {"ignore", "exit"}
      PROVE  <<"fill", Call("close", r, err), "shut">> \in R /\ <<"full", Call("close", r, err), "rows">> \in R
  <2>1. Call("close", r, err) \in CallSet /\ Call("close", r, err).op = "close" /\ Call("close", r, err).at = r
    BY <1>1, GateCalls DEF Call
  <2>2. QED
    BY <2>1, StagingIs DEF StageMove, Stages
<1>8. <<"again", Read("scan", r, "memoir", 0), "half">> \in R
  <2> DEFINE c == Read("scan", r, "memoir", 0)
  <2>1. c \in CallSet /\ c.op = "scan" /\ c.at = r /\ c.key = "memoir"
    BY <1>1, GateCalls DEF Read
  <2> HIDE DEF c
  <2>2. StageMove(f, r, "again", c, "half")
    BY <2>1 DEF StageMove
  <2>3. QED
    BY <2>1, <2>2, StagingIs DEF Stages, c
<1>9. <<"half", Read("scan_more", r, "chunk", 0), "full">> \in R
  <2> DEFINE c == Read("scan_more", r, "chunk", 0)
  <2>1. c \in CallSet /\ c.op = "scan_more" /\ c.at = r /\ c.key = "chunk"
    BY <1>1, GateCalls DEF Read
  <2> HIDE DEF c
  <2>2. StageMove(f, r, "half", c, "full")
    BY <2>1 DEF StageMove
  <2>3. QED
    BY <2>1, <2>2, StagingIs DEF Stages, c
<1>10. <<"again", [Read("count", r, "all", 0) EXCEPT !.err = "close"], "full">> \in R
  <2> DEFINE c == [Read("count", r, "all", 0) EXCEPT !.err = "close"]
  <2>1. c \in CallSet /\ c.op = "count" /\ c.at = r /\ c.err = "close"
    BY <1>1, GateCalls DEF Read
  <2> HIDE DEF c
  <2>2. StageMove(f, r, "again", c, "full")
    BY <2>1 DEF StageMove
  <2>3. QED
    BY <2>1, <2>2, StagingIs DEF Stages, c
<1>11. ASSUME NEW metric \in Metrics
       PROVE  <<"rows", row(metric), "rows">> \in R /\ (metric = "integrity_ok" => <<"rows", row(metric), "done">> \in R)
  <2>1. /\ row(metric) \in CallSet /\ row(metric).op = "row" /\ row(metric).at = r
        /\ row(metric).phase = "post_restart_row_count" /\ row(metric).metric = metric
    BY <1>1, GateCalls DEF result, metricResult
  <2> HIDE DEF row
  <2>2. StageMove(f, r, "rows", row(metric), "rows") /\ (metric = "integrity_ok" => StageMove(f, r, "rows", row(metric), "done"))
    BY <2>1 DEF StageMove
  <2>3. QED
    BY <2>1, <2>2, StagingIs DEF Stages
<1> HIDE DEF R, row
<1>12. /\ <<"rows", row("duration_ms"), "rows">> \in R /\ <<"rows", row("row_count"), "rows">> \in R
       /\ <<"rows", row("expected_row_count"), "rows">> \in R /\ <<"rows", row("integrity_ok"), "done">> \in R
  BY <1>11 DEF Metrics
<1>13. GateMoves(R, f, p, r, s)
  BY <1>2, <1>4, <1>5, <1>6, <1>7, <1>8, <1>9, <1>10, <1>12, ZenonT(60) DEF GateMoves, row
<1>14. QED
  BY <1>13 DEF R, s

\* Of each profile: its integrity check is made, or its store stays away.
LEMMA ScriptStages ==
  ASSUME NEW ids, NEW f \in EmbedFlags(ids), NEW p \in Known
  PROVE  \E b \in {"before", "passed"} : EmbedVsSQLite(f) \in Leads(Staging(f, p), "before", b)
<1> DEFINE R == Staging(f, p)
           want == Wanted(f)
           bench == [q \in want |-> Bench(q, f)]
           gate == [q \in want |-> Gate(q, f)]
           call(op) == Call(op, <<>>, "exit")
<1>0. want \subseteq Known
  BY WantedKnown
<1>1. ASSUME NEW q \in want, NEW a \in {"before", "done"}
      PROVE  bench[q] \in Leads(R, a, a) /\ (q # p => gate[q] \in Leads(R, a, a))
  <2>1. /\ q \in Known /\ RestartDir(p) \notin Area(q) /\ RestartDir(p) # <<>>
        /\ q # p => RestartDir(p) \notin {RestartDir(q)}
    BY <1>0, AreaFacts
  <2>2. bench[q] = Bench(q, f) /\ gate[q] = Gate(q, f)
    OBVIOUS
  <2>3. QED
    BY <2>1, <2>2, ProfileCalls, AwayStays
<1> HIDE DEF bench
<1>2. selectedProfileNames(want, bench) \in Leads(R, "before", "before")
  BY <1>1, SelectedLeads
<1>3. ASSUME NEW op \in MainOps \cup {"return"}, NEW err \in Errs
      PROVE  /\ Call(op, <<>>, err) \in CallSet /\ Call(op, <<>>, err).op = op /\ Away(RestartDir(p), Call(op, <<>>, err))
  BY MainCalls, AreaFacts DEF Call, Away, MainOps
<1>4. /\ Away(RestartDir(p), Call("mkdir", Tmp, "exit")) /\ Away(RestartDir(p), Defer(RemoveAll(Tmp)))
  <2>1. Tmp # RestartDir(p)
    BY SMT DEF Tmp, RestartDir
  <2>2. QED
    BY <2>1 DEF Away, Call, Defer, RemoveAll
<1>5. \A c \in CallSet : Away(RestartDir(p), c) => <<"before", c, "before">> \in R
  BY StagingIs DEF StageMove, Stages
<1>6. CASE p \in want /\ p \in Gated
  <2> DEFINE s == <<"before", "before", "before", "before", "done", "appended", IF f.root THEN "appended" ELSE "done",
                    "passed", "passed">>
  <2>1. gate[p] \in Leads(R, "before", "done")
    <3> DEFINE t == <<"before", "fill", "shut", "again", "half", "full", "rows", "rows", "rows", "rows", "done">>
    <3>1. t[1] = "before" /\ t[11] = "done"
      BY SMT
    <3>2. GateMoves(R, f, p, RestartDir(p), t)
      BY GateStages
    <3> HIDE DEF t, R
    <3>3. Gate(p, f) \in Leads(R, t[1], t[11])
      BY <1>6, <3>2, GateLeads
    <3>4. QED
      BY <1>6, <3>1, <3>3
  <2> HIDE DEF gate
  <2>2. selectedProfileNames(want, gate) \in Leads(R, "before", "done")
    BY <1>1, <1>6, <2>1, SelectedLeads
  <2>3. /\ s[1] = "before" /\ s[2] = "before" /\ s[3] = "before" /\ s[4] = "before" /\ s[5] = "done"
        /\ s[6] = "appended" /\ s[7] = (IF f.root THEN "appended" ELSE "done") /\ s[8] = "passed" /\ s[9] = "passed"
    BY SMT DEF s
  <2> HIDE DEF s
  <2>4. /\ <<"before", Call("mkdir", Tmp, "exit"), "before">> \in R /\ <<"before", Defer(RemoveAll(Tmp)), "before">> \in R
        /\ <<"before", call("new_run_writer"), "before">> \in R
    BY <1>3, <1>4, <1>5, MainCalls DEF MainOps, Errs
  <2>5. <<"before", call("fatal"), "passed">> \in R
    <3>1. call("fatal") \in CallSet /\ call("fatal").op = "fatal"
      BY <1>3 DEF MainOps, Errs
    <3> HIDE DEF call
    <3>2. StageMove(f, RestartDir(p), "before", call("fatal"), "passed")
      BY <3>1 DEF StageMove
    <3>3. QED
      BY <3>1, <3>2, StagingIs DEF Stages
  <2>6. <<"done", Call("print_table", <<>>, "ignore"), "done">> \in R /\ <<"done", call("write_json"), "done">> \in R
    <3> DEFINE c == Call("print_table", <<>>, "ignore")
    <3>1. /\ call("write_json") \in CallSet /\ call("write_json").op = "write_json" /\ Away(RestartDir(p), call("write_json"))
          /\ c \in CallSet /\ c.op = "print_table" /\ Away(RestartDir(p), c)
      BY <1>3 DEF MainOps, Errs
    <3> HIDE DEF call, c
    <3>2. StageMove(f, RestartDir(p), "done", call("write_json"), "done") /\ StageMove(f, RestartDir(p), "done", c, "done")
      BY <3>1 DEF StageMove, Ending
    <3>3. QED
      BY <3>1, <3>2, StagingIs DEF Stages, c
  <2>7. f.root => <<"done", call("append"), "appended">> \in R /\ <<"appended", call("finalize"), "appended">> \in R
    <3>1. /\ call("append") \in CallSet /\ call("append").op = "append"
          /\ call("finalize") \in CallSet /\ call("finalize").op = "finalize"
      BY <1>3 DEF MainOps, Errs
    <3> HIDE DEF call
    <3>2. /\ f.root => StageMove(f, RestartDir(p), "done", call("append"), "appended")
          /\ StageMove(f, RestartDir(p), "appended", call("finalize"), "appended")
      BY <3>1 DEF StageMove
    <3>3. QED
      BY <3>1, <3>2, StagingIs DEF Stages
  <2>8. <<IF f.root THEN "appended" ELSE "done", call("gate"), "passed">> \in R
    <3>1. call("gate") \in CallSet /\ call("gate").op = "gate"
      BY <1>3 DEF MainOps, Errs
    <3> HIDE DEF call
    <3>2. StageMove(f, RestartDir(p), IF f.root THEN "appended" ELSE "done", call("gate"), "passed")
      BY <3>1 DEF StageMove
    <3>3. (IF f.root THEN "appended" ELSE "done") \in Stages /\ "passed" \in Stages
      BY DEF Stages
    <3>4. QED
      BY <3>1, <3>2, <3>3, StagingIs
  <2>9. <<"passed", Call("return", <<>>, "ignore"), "passed">> \in R
    <3> DEFINE c == Call("return", <<>>, "ignore")
    <3>1. c \in CallSet /\ c.op = "return"
      BY <1>3 DEF MainOps, Errs
    <3> HIDE DEF c
    <3>2. StageMove(f, RestartDir(p), "passed", c, "passed")
      BY <3>1 DEF StageMove
    <3>3. QED
      BY <3>1, <3>2, StagingIs DEF Stages, c
  <2> HIDE DEF R
  <2>10. MainMoves(R, f, s)
    BY <2>3, <2>4, <2>5, <2>6, <2>7, <2>8, <2>9, ZenonT(60) DEF MainMoves
  <2>11. EmbedVsSQLite(f) \in Leads(R, s[1], s[9])
    BY <1>2, <2>2, <2>3, <2>10, EmbedLeads DEF bench, gate
  <2>12. QED
    BY <2>3, <2>11 DEF R
<1>7. CASE ~(p \in want /\ p \in Gated)
  <2> DEFINE b == "before"
             s == <<b, b, b, b, b, b, b, b, b>>
  <2>1. p \in want => gate[p] \in Leads(R, "before", "before")
    <3>1. When(FALSE, <<>>) \in Leads(R, "before", "before")
      BY LeadsWhen
    <3>2. p \in want => gate[p] = <<>>
      BY <1>7, GateNone
    <3>3. QED
      BY <3>1, <3>2 DEF When
  <2> HIDE DEF gate
  <2>2. selectedProfileNames(want, gate) \in Leads(R, "before", "before")
    BY <1>1, <2>1, SelectedLeads
  <2>3. s[1] = b /\ s[2] = b /\ s[3] = b /\ s[4] = b /\ s[5] = b /\ s[6] = b /\ s[7] = b /\ s[8] = b /\ s[9] = b
    BY SMT DEF s
  <2>4. \A op \in MainOps \cup {"return"}, err \in Errs : <<b, Call(op, <<>>, err), b>> \in R
    BY <1>3, <1>5
  <2>5. <<b, Call("mkdir", Tmp, "exit"), b>> \in R /\ <<b, Defer(RemoveAll(Tmp)), b>> \in R
    BY <1>4, <1>5, MainCalls
  <2>6. /\ <<b, call("fatal"), b>> \in R /\ <<b, call("new_run_writer"), b>> \in R /\ <<b, call("write_json"), b>> \in R
        /\ <<b, Call("print_table", <<>>, "ignore"), b>> \in R /\ <<b, call("append"), b>> \in R
        /\ <<b, call("finalize"), b>> \in R /\ <<b, call("gate"), b>> \in R
        /\ <<b, Call("return", <<>>, "ignore"), b>> \in R
    BY <2>4 DEF MainOps, Errs
  <2> HIDE DEF s, R
  <2>7. MainMoves(R, f, s)
    BY <2>3, <2>5, <2>6, ZenonT(60) DEF MainMoves
  <2>8. EmbedVsSQLite(f) \in Leads(R, s[1], s[9])
    BY <1>2, <2>2, <2>3, <2>7, EmbedLeads DEF bench, gate
  <2>9. QED
    BY <2>3, <2>8 DEF R
<1>8. QED
  BY <1>6, <1>7

-----------------------------------------------------------------------------
(* Deferred calls and open stores, in every program.                       *)

LEMMA StacksIs ==
  ASSUME NEW stk \in Seq(Put_Off), NEW opn \in SUBSET Paths, NEW c \in CallSet,
         NEW stk2 \in Seq(Put_Off), NEW opn2 \in SUBSET Paths, StackMove(<<stk, opn>>, c, <<stk2, opn2>>)
  PROVE  <<<<stk, opn>>, c, <<stk2, opn2>>>> \in Stacks
<1>1. <<stk, opn>> \in Seq(Put_Off) \X (SUBSET Paths) /\ <<stk2, opn2>> \in Seq(Put_Off) \X (SUBSET Paths)
  OBVIOUS
<1>2. QED
  BY <1>1 DEF Stacks

LEMMA StackStays ==
  ASSUME NEW stk \in Seq(Put_Off), NEW opn \in SUBSET Paths, NEW c \in CallSet,
         c.op \notin {"open", "close", "remove_all", "defer", "return"}
  PROVE  <<<<stk, opn>>, c, <<stk, opn>>>> \in Stacks
<1>1. StackMove(<<stk, opn>>, c, <<stk, opn>>)
  BY DEF StackMove
<1>2. QED
  BY <1>1, StacksIs

LEMMA StackInert ==
  ASSUME NEW stk \in Seq(Put_Off), NEW opn \in SUBSET Paths, NEW at, NEW s \in Seq(Inert(at))
  PROVE  s \in Leads(Stacks, <<stk, opn>>, <<stk, opn>>)
<1>1. Inert(at) \subseteq CallSet /\ \A c \in Inert(at) : <<<<stk, opn>>, c, <<stk, opn>>>> \in Stacks
  BY StackStays DEF Inert, InertOps
<1>2. QED
  BY <1>1, LeadsStay

LEMMA StackOpen ==
  ASSUME NEW stk \in Seq(Put_Off), NEW opn \in SUBSET Paths, NEW c \in OpenCalls
  PROVE  <<c>> \in Leads(Stacks, <<stk, opn>>, <<stk, opn \cup {c.at}>>) /\ opn \cup {c.at} \in SUBSET Paths
<1>1. c.op = "open" /\ c \in CallSet /\ opn \cup {c.at} \in SUBSET Paths
  BY DEF OpenCalls, CallSet
<1>2. StackMove(<<stk, opn>>, c, <<stk, opn \cup {c.at}>>)
  BY <1>1 DEF StackMove
<1>3. QED
  BY <1>1, <1>2, StacksIs, LeadsOne

LEMMA StackClose ==
  ASSUME NEW stk \in Seq(Put_Off), NEW opn \in SUBSET Paths, NEW opn2 \in SUBSET Paths, NEW at \in Paths,
         opn \ {at} \subseteq opn2
  PROVE  <<Close(at)>> \in Leads(Stacks, <<stk, opn>>, <<stk, opn2>>)
<1> DEFINE c == Close(at)
<1>1. c \in CallSet /\ c.op = "close" /\ c.at = at
  BY DEF Close, Call, CallSet, SimpleCalls, PlainOps, Errs
<1> HIDE DEF c
<1>2. StackMove(<<stk, opn>>, c, <<stk, opn2>>)
  BY <1>1 DEF StackMove
<1>3. <<c>> \in Leads(Stacks, <<stk, opn>>, <<stk, opn2>>)
  BY <1>1, <1>2, StacksIs, LeadsOne
<1>4. QED
  BY <1>3 DEF c

LEMMA StackDefer ==
  ASSUME NEW stk \in Seq(Put_Off), NEW opn \in SUBSET Paths, NEW d \in Put_Off
  PROVE  <<d>> \o stk \in Seq(Put_Off) /\ <<Defer(d)>> \in Leads(Stacks, <<stk, opn>>, <<<<d>> \o stk, opn>>)
<1>1. Defer(d) \in CallSet /\ Defer(d).op = "defer" /\ Defer(d).call = d
  BY DEF Defer, CallSet, DeferCalls, Put_Off, Errs
<1>2. <<d>> \o stk \in Seq(Put_Off)
  BY SMT
<1>3. StackMove(<<stk, opn>>, Defer(d), <<<<d>> \o stk, opn>>)
  BY <1>1 DEF StackMove
<1>4. QED
  BY <1>1, <1>2, <1>3, StacksIs, LeadsOne

LEMMA StackReturn ==
  ASSUME NEW stk \in Seq(Put_Off), NEW opn \in SUBSET Paths, NEW opn2 \in SUBSET Paths, NEW d \in Put_Off,
         IF d.op = "close" THEN opn \ {d.at} \subseteq opn2
         ELSE opn \subseteq opn2 /\ \A x \in opn : ~Below(x, d.at)
  PROVE  <<Call("return", <<>>, "ignore")>> \in Leads(Stacks, <<<<d>> \o stk, opn>>, <<stk, opn2>>)
<1> DEFINE c == Call("return", <<>>, "ignore")
           st == <<d>> \o stk
<1>1. st \in Seq(Put_Off) /\ st # <<>> /\ Head(st) = d /\ Tail(st) = stk
  BY SMT
<1>2. c \in CallSet
  BY MainCalls DEF Errs
<1>3. c.op = "return"
  BY DEF Call
<1>4. d.op \in {"close", "remove_all"}
  BY DEF Put_Off
<1> HIDE DEF c, st
<1>5. StackMove(<<st, opn>>, c, <<stk, opn2>>)
  BY <1>1, <1>3, <1>4 DEF StackMove
<1>6. <<c>> \in Leads(Stacks, <<st, opn>>, <<stk, opn2>>)
  BY <1>1, <1>2, <1>5, StacksIs, LeadsOne
<1>7. QED
  BY <1>6 DEF c, st

\* What is done about errors does not matter.
LEMMA OnErrorStacks ==
  ASSUME NEW err \in Errs, NEW u, NEW v, NEW s \in Leads(Stacks, u, v)
  PROVE  OnError(err, s) \in Leads(Stacks, u, v)
<1>1. s \in Seq(CallSet) /\ Len(s) \in Nat /\ DOMAIN s = 1 .. Len(s)
  <2>1. s \in Seq(CallSet)
    BY DEF Leads
  <2>2. QED
    BY <2>1, SMT
<1>2. PICK g : g[1] = u /\ g[Len(s) + 1] = v /\ \A i \in 1 .. Len(s) : <<g[i], s[i], g[i + 1]>> \in Stacks
  BY DEF Leads
<1> DEFINE t == OnError(err, s)
<1>3. ASSUME NEW i \in 1 .. Len(s) PROVE t[i] \in CallSet /\ <<g[i], t[i], g[i + 1]>> \in Stacks
  <2> DEFINE c == s[i]
             d == [c EXCEPT !.err = err]
  <2>1. c \in CallSet /\ <<g[i], c, g[i + 1]>> \in Stacks
    BY <1>2 DEF Stacks
  <2>2. t[i] = IF c.err = "exit" THEN d ELSE c
    BY <1>1 DEF OnError
  <2> HIDE DEF c, t
  <2>3. d \in CallSet /\ d.op = c.op /\ d.at = c.at /\ (c.op = "defer" => d.call = c.call)
    <3>1. CASE c \in SimpleCalls
      <4>1. d \in SimpleCalls /\ d.op = c.op /\ d.at = c.at /\ c.op # "defer"
        BY <3>1 DEF SimpleCalls, PlainOps, WriterOps
      <4>2. QED
        BY <4>1 DEF CallSet
    <3>2. CASE c \in OpenCalls
      BY <3>2 DEF OpenCalls, CallSet
    <3>3. CASE c \in WriteCalls
      BY <3>3 DEF WriteCalls, CallSet
    <3>4. CASE c \in ReadCalls
      BY <3>4 DEF ReadCalls, CallSet
    <3>5. CASE c \in CountCalls
      BY <3>5 DEF CountCalls, CallSet
    <3>6. CASE c \in DeferCalls
      BY <3>6 DEF DeferCalls, CallSet
    <3>7. CASE c \in RowCalls
      BY <3>7 DEF RowCalls, CallSet
    <3>8. QED
      BY <2>1, <3>1, <3>2, <3>3, <3>4, <3>5, <3>6, <3>7 DEF CallSet
  <2> HIDE DEF d
  <2>4. <<g[i], d, g[i + 1]>> \in Stacks
    <3> DEFINE a == g[i]
               b == g[i + 1]
    <3>1. StackMove(a, c, b)
      BY <2>1 DEF Stacks
    <3>2. /\ a \in Seq(Put_Off) \X (SUBSET Paths) /\ b \in Seq(Put_Off) \X (SUBSET Paths)
      BY <2>1 DEF Stacks
    <3> HIDE DEF a, b
    <3>3. StackMove(a, d, b)
      BY <2>3, <3>1, ZenonT(60) DEF StackMove
    <3>4. <<a, d, b>> \in Stacks
      BY <2>3, <3>2, <3>3 DEF Stacks
    <3>5. QED
      BY <3>4 DEF a, b
  <2>5. QED
    BY <2>1, <2>2, <2>3, <2>4
<1>4. DOMAIN t = 1 .. Len(s) /\ t = [i \in 1 .. Len(s) |-> t[i]]
  BY <1>1 DEF OnError
<1> HIDE DEF t
<1>5. t \in Seq(CallSet) /\ Len(t) = Len(s)
  <2>1. t \in [1 .. Len(s) -> CallSet]
    BY <1>3, <1>4
  <2>2. QED
    BY <1>1, <2>1, SMT
<1>6. t \in Leads(Stacks, u, v)
  BY <1>2, <1>3, <1>5 DEF Leads
<1>7. QED
  BY <1>6 DEF t

LEMMA EmbedStacks ==
  ASSUME NEW ids, NEW f \in EmbedFlags(ids)
  PROVE  EmbedVsSQLite(f) \in Leads(Stacks, <<<<>>, {}>>, <<<<>>, {}>>)
<1> DEFINE d == RemoveAll(Tmp)
           st == <<d>> \o <<>>
           u == <<<<>>, {}>>
           v == <<st, {}>>
           s == <<u, v, v, v, v, v, v, v, u>>
           want == Wanted(f)
           bench == [q \in want |-> Bench(q, f)]
           gate == [q \in want |-> Gate(q, f)]
<1>1. <<>> \in Seq(Put_Off) /\ {} \in SUBSET Paths
  BY SMT
<1>2. d \in Put_Off /\ d.at = Tmp /\ d.op = "remove_all"
  BY MainCalls
<1> HIDE DEF d
<1>3. st \in Seq(Put_Off) /\ Head(st) = d /\ Tail(st) = <<>> /\ st # <<>>
  BY <1>2, SMT
<1> HIDE DEF st
<1>4. \A q \in want : bench[q] \in Leads(Stacks, v, v) /\ gate[q] \in Leads(Stacks, v, v)
  <2>1. ASSUME NEW q \in want PROVE Bench(q, f) \in Leads(Stacks, v, v) /\ Gate(q, f) \in Leads(Stacks, v, v)
    <3>1. q \in Known
      BY WantedKnown
    <3>2. 0 \in Nat /\ 9 \in Nat /\ LastRank(q) \in Nat
      BY SMT DEF LastRank
    <3>3. /\ <<st, {}, 0>> \in States /\ <<st, {}, 9>> \in States /\ <<st, {}, LastRank(q)>> \in States
      BY <1>1, <1>3, <3>2 DEF States
    <3>4. /\ Bench(q, f) \in Leads(Shape(Area(q), q), <<st, {}, 0>>, <<st, {}, 9>>)
          /\ Gate(q, f) \in Leads(Shape({RestartDir(q)}, q), <<st, {}, 9>>, <<st, {}, LastRank(q)>>)
      BY <1>3, <3>1, BenchShape, GateKeepsShape
    <3>5. /\ <<<<st, {}, 0>>[1], <<st, {}, 0>>[2]>> = v /\ <<<<st, {}, 9>>[1], <<st, {}, 9>>[2]>> = v
          /\ <<<<st, {}, LastRank(q)>>[1], <<st, {}, LastRank(q)>>[2]>> = v
      OBVIOUS
    <3> HIDE DEF v
    <3>6. Bench(q, f) \in Leads(Stacks, v, v)
      BY <3>3, <3>4, <3>5, ShapeStacks
    <3>7. Gate(q, f) \in Leads(Stacks, v, v)
      BY <3>3, <3>4, <3>5, ShapeStacks
    <3>8. QED
      BY <3>6, <3>7
  <2>2. QED
    BY <2>1
<1>5. s[1] = u /\ s[2] = v /\ s[3] = v /\ s[4] = v /\ s[5] = v /\ s[6] = v /\ s[7] = v /\ s[8] = v /\ s[9] = u
  BY SMT
<1>6. /\ <<u, Call("fatal", <<>>, "exit"), u>> \in Stacks /\ <<u, Call("mkdir", Tmp, "exit"), u>> \in Stacks
  <2>1. /\ Call("fatal", <<>>, "exit") \in CallSet /\ Call("fatal", <<>>, "exit").op = "fatal"
        /\ Call("mkdir", Tmp, "exit") \in CallSet /\ Call("mkdir", Tmp, "exit").op = "mkdir"
    BY MainCalls DEF MainOps, Errs, Call
  <2>2. QED
    BY <1>1, <2>1, StackStays
<1>7. <<u, Defer(d), v>> \in Stacks
  <2>1. Defer(d) \in CallSet /\ Defer(d).op = "defer" /\ Defer(d).call = d
    BY MainCalls DEF Defer, d
  <2>2. StackMove(u, Defer(d), v)
    BY <2>1 DEF StackMove, st
  <2>3. QED
    BY <1>1, <1>3, <2>1, <2>2, StacksIs
<1>8. ASSUME NEW op \in MainOps, NEW err \in Errs PROVE <<v, Call(op, <<>>, err), v>> \in Stacks
  <2>1. Call(op, <<>>, err) \in CallSet /\ Call(op, <<>>, err).op = op
    BY MainCalls DEF Call
  <2>2. op \notin {"open", "close", "remove_all", "defer", "return"}
    BY DEF MainOps
  <2>3. QED
    BY <1>1, <1>3, <2>1, <2>2, StackStays
<1>9. <<v, Call("return", <<>>, "ignore"), u>> \in Stacks
  <2> DEFINE c == Call("return", <<>>, "ignore")
  <2>1. c \in CallSet /\ c.op = "return"
    BY MainCalls DEF Errs, Call
  <2> HIDE DEF c
  <2>2. StackMove(v, c, u)
    BY <1>2, <1>3, <2>1 DEF StackMove
  <2>3. <<v, c, u>> \in Stacks
    BY <1>1, <1>3, <2>1, <2>2, StacksIs
  <2>4. QED
    BY <2>3 DEF c
<1> HIDE DEF u, v, s
<1>10. MainMoves(Stacks, f, s)
  BY <1>5, <1>6, <1>7, <1>8, <1>9, ZenonT(60) DEF MainMoves, MainOps, Errs, d
<1>11. "sqlite_wal_full" \in Known
  BY KnownIs
<1> HIDE DEF bench, gate
<1>12. selectedProfileNames(want, bench) \in Leads(Stacks, v, v) /\ selectedProfileNames(want, gate) \in Leads(Stacks, v, v)
  BY <1>4, <1>11, SelectedLeads, ZenonT(60)
<1>13. EmbedVsSQLite(f) \in Leads(Stacks, s[1], s[9])
  BY <1>5, <1>10, <1>12, EmbedLeads DEF bench, gate
<1>14. QED
  BY <1>5, <1>13 DEF u

LEMMA ReadTaxStacks ==
  ASSUME NEW f \in ReadTaxFlags
  PROVE  FfiReadTax(f) \in Leads(Stacks, <<<<>>, {}>>, <<<<>>, {}>>)
<1> DEFINE dir == IF f.dir THEN <<"dir">> ELSE Tmp
           m == <<Call("mkdir", dir, "exit")>>
           o == Open(dir, Nil)
           i == When(f.bulkImport, <<SetBulkImport(dir)>>)
           w == Write("batch", dir, "chunk", f.chunks, f.chunks)
           c == Close(dir)
           d == Defer(Close(dir))
           g == Gets(dir, "chunk", f.chunks, f.gets)
           j == When(f.out, <<Call("write_json", <<>>, "exit")>>)
           u == <<<<>>, {}>>
           v == <<<<>>, {} \cup {dir}>>
           x == <<<<c>> \o <<>>, {} \cup {dir}>>
           L(a, b) == Leads(Stacks, a, b)
<1>0. f.chunks \in Nat /\ f.gets \in Nat
  BY DEF ReadTaxFlags
<1>1. dir \in Paths
  <2>1. "dir" \in PathNames
    BY DEF PathNames
  <2>2. <<"dir">> \in Paths
    BY <2>1, SMT DEF Paths
  <2>3. QED
    BY <2>2, MainCalls
<1> HIDE DEF dir
<1>2. <<>> \in Seq(Put_Off) /\ {} \in SUBSET Paths /\ {} \cup {dir} \in SUBSET Paths /\ ({} \cup {dir}) \ {dir} \subseteq {}
  <2>1. <<>> \in Seq(Put_Off)
    BY SMT
  <2>2. QED
    BY <1>1, <2>1
<1>3. Nil \in Options
  <2>1. 0 \in Nat
    BY SMT
  <2>2. QED
    BY <2>1 DEF Nil, Options
<1>4. o \in OpenCalls /\ o.at = dir
  BY <1>1, <1>3, OpenIs
<1>5. c \in Put_Off /\ c.op = "close" /\ c.at = dir
  BY <1>1 DEF Close, Call, Put_Off
<1>6. m \in L(u, u) /\ i \in L(v, v) /\ <<w>> \in L(v, v)
  <2>1. m \in Seq(Inert(dir)) /\ <<SetBulkImport(dir)>> \in Seq(Inert(dir))
    BY <1>1, InertOne DEF SetBulkImport, Errs
  <2>2. i \in Seq(Inert(dir))
    BY <2>1, InertWhen
  <2>3. w \in Inert(dir)
    <3>1. f.chunks \in Int
      BY <1>0, SMT
    <3>2. QED
      BY <1>1, <3>1 DEF Write, Inert, InertOps, CallSet, WriteCalls, Errs, Keys
  <2>4. <<w>> \in Seq(Inert(dir))
    BY <2>3, SMT
  <2> HIDE DEF m, i, w
  <2>5. QED
    BY <1>2, <2>1, <2>2, <2>4, StackInert
<1>7. <<o>> \in L(u, v) /\ <<c>> \in L(v, u)
  BY <1>1, <1>2, <1>4, StackOpen, StackClose
<1>8. <<d>> \in L(v, x) /\ <<c>> \o <<>> \in Seq(Put_Off)
  BY <1>2, <1>5, StackDefer
<1>9. g \in L(x, x) /\ j \in L(x, x)
  <2>1. g \in Seq(Inert(dir))
    BY <1>0, <1>1, GetsInert DEF Keys
  <2>2. Call("write_json", <<>>, "exit") \in CallSet /\ Call("write_json", <<>>, "exit").op = "write_json"
    BY MainCalls DEF MainOps, Errs, Call
  <2> HIDE DEF c
  <2>3. <<x, Call("write_json", <<>>, "exit"), x>> \in Stacks
    BY <1>2, <1>8, <2>2, StackStays
  <2>4. <<Call("write_json", <<>>, "exit")>> \in L(x, x)
    BY <2>2, <2>3, LeadsOne
  <2>5. j \in L(x, x)
    BY <2>4, LeadsWhen
  <2>6. g \in L(x, x)
    BY <1>2, <1>8, <2>1, StackInert
  <2>7. QED
    BY <2>5, <2>6
<1>10. Return(1) \in L(x, u)
  <2> HIDE DEF c
  <2>1. <<Call("return", <<>>, "ignore")>> \in L(x, u)
    BY <1>2, <1>5, StackReturn
  <2>2. QED
    BY <2>1, ReturnOne
<1>11. <<w, c>> = <<w>> \o <<c>> /\ <<o, d>> = <<o>> \o <<d>>
  BY SMT DEF w, c, o, d
<1>12. FfiReadTax(f) = m \o When(~f.readOnly, <<o>> \o i \o (<<w>> \o <<c>>))
                        \o When(~f.prepareOnly, (<<o>> \o <<d>>) \o g \o j \o Return(1))
  BY <1>11 DEF FfiReadTax, dir
<1> HIDE DEF m, o, i, w, c, d, g, j, u, v, x
<1>13. <<o>> \o i \o (<<w>> \o <<c>>) \in L(u, u)
  BY <1>6, <1>7, LeadsConcat
<1>14. (<<o>> \o <<d>>) \o g \o j \o Return(1) \in L(u, u)
  BY <1>7, <1>8, <1>9, <1>10, LeadsConcat
<1>15. /\ When(~f.readOnly, <<o>> \o i \o (<<w>> \o <<c>>)) \in L(u, u)
       /\ When(~f.prepareOnly, (<<o>> \o <<d>>) \o g \o j \o Return(1)) \in L(u, u)
  BY <1>13, <1>14, LeadsWhen
<1>16. QED
  BY <1>6, <1>12, <1>15, LeadsConcat DEF u

\* Three deferred calls are made when main returns.
LEMMA ReturnThree ==
  ASSUME NEW u, NEW v, NEW w, NEW x,
         LET r == <<Call("return", <<>>, "ignore")>>
         IN  r \in Leads(Stacks, u, v) /\ r \in Leads(Stacks, v, w) /\ r \in Leads(Stacks, w, x)
  PROVE  Return(3) \in Leads(Stacks, u, x)
<1> DEFINE c == Call("return", <<>>, "ignore")
           r == <<c>>
<1>1. Return(3) = [i \in 1 .. 3 |-> c]
  BY DEF Return
<1>2. r \in Leads(Stacks, u, v) /\ r \in Leads(Stacks, v, w) /\ r \in Leads(Stacks, w, x)
  OBVIOUS
<1>3. <<c, c, c>> = r \o r \o r
  BY SMT DEF c, r
<1> HIDE DEF c
<1>4. [i \in 1 .. 3 |-> c] = <<c, c, c>>
  BY SMT
<1> HIDE DEF r
<1>5. r \o r \in Leads(Stacks, u, w)
  BY <1>2, LeadsConcat
<1>6. (r \o r) \o r \in Leads(Stacks, u, x)
  BY <1>2, <1>5, LeadsConcat
<1>7. QED
  BY <1>1, <1>3, <1>4, <1>6

\* f4kvs_batch_probe.
LEMMA BatchProbeStacks ==
  ASSUME NEW f \in ProbeFlags
  PROVE  F4kvsBatchProbe(f) \in Leads(Stacks, <<<<>>, {}>>, <<<<>>, {}>>)
<1> DEFINE batch == <<"tmp-batch">>
           m == Call("mkdir", Tmp, "exit")
           d1 == RemoveAll(Tmp)
           o1 == Open(Tmp, Nil)
           d2 == Close(Tmp)
           b == Puts("put", Tmp, "chunk", f.chunks)
           o2 == Open(batch, Nil)
           d3 == Close(batch)
           w == Write("batch", batch, "chunk", f.chunks, f.chunks)
           st1 == <<d1>> \o <<>>
           st2 == <<d2>> \o st1
           st3 == <<d3>> \o st2
           opn == {} \cup {Tmp}
           opn2 == opn \cup {batch}
           L(x, y) == Leads(Stacks, x, y)
<1>0. f.chunks \in Nat /\ f.chunks \in Int
  BY SMT DEF ProbeFlags
<1>1. Tmp \in Paths /\ batch \in Paths
  <2>1. "tmp-batch" \in PathNames
    BY DEF PathNames
  <2>2. batch \in Paths
    BY <2>1, SMT DEF Paths
  <2>3. QED
    BY <2>2, MainCalls
<1> HIDE DEF batch
<1>2. <<>> \in Seq(Put_Off) /\ {} \in SUBSET Paths
  BY SMT
<1>3. opn \in SUBSET Paths /\ opn2 \in SUBSET Paths /\ opn2 \ {batch} \subseteq opn /\ opn \ {Tmp} \subseteq {}
  BY <1>1
<1>4. Nil \in Options
  <2>1. 0 \in Nat
    BY SMT
  <2>2. QED
    BY <2>1 DEF Nil, Options
<1>5. o1 \in OpenCalls /\ o1.at = Tmp /\ o2 \in OpenCalls /\ o2.at = batch
  BY <1>1, <1>4, OpenIs
<1>6. /\ d1 \in Put_Off /\ d1.op = "remove_all" /\ d1.at = Tmp /\ d2 \in Put_Off /\ d2.op = "close" /\ d2.at = Tmp
      /\ d3 \in Put_Off /\ d3.op = "close" /\ d3.at = batch
  BY <1>1 DEF RemoveAll, Close, Call, Put_Off
<1> HIDE DEF d1, d2, d3
<1>7. st1 \in Seq(Put_Off) /\ <<Defer(d1)>> \in L(<<<<>>, {}>>, <<st1, {}>>)
  BY <1>2, <1>6, StackDefer
<1> HIDE DEF st1
<1>8. <<m>> \in L(<<<<>>, {}>>, <<<<>>, {}>>)
  <2>1. <<m>> \in Seq(Inert(Tmp))
    BY <1>1, InertOne DEF Errs
  <2>2. QED
    BY <1>2, <2>1, StackInert
<1>9. <<o1>> \in L(<<st1, {}>>, <<st1, opn>>)
  BY <1>2, <1>5, <1>7, StackOpen
<1> HIDE DEF opn
<1>10. st2 \in Seq(Put_Off) /\ <<Defer(d2)>> \in L(<<st1, opn>>, <<st2, opn>>)
  BY <1>3, <1>6, <1>7, StackDefer
<1> HIDE DEF st2
<1>11. b \in L(<<st2, opn>>, <<st2, opn>>)
  <2>1. b \in Seq(Inert(Tmp))
    BY <1>0, <1>1, PutsInert DEF Keys
  <2>2. QED
    BY <1>3, <1>10, <2>1, StackInert
<1>12. <<o2>> \in L(<<st2, opn>>, <<st2, opn2>>)
  BY <1>3, <1>5, <1>10, StackOpen
<1> HIDE DEF opn2
<1>13. st3 \in Seq(Put_Off) /\ <<Defer(d3)>> \in L(<<st2, opn2>>, <<st3, opn2>>)
  BY <1>3, <1>6, <1>10, StackDefer
<1> HIDE DEF st3
<1>14. <<w>> \in L(<<st3, opn2>>, <<st3, opn2>>)
  <2>1. w \in Inert(batch)
    BY <1>0, <1>1 DEF Write, Inert, InertOps, CallSet, WriteCalls, Errs, Keys
  <2>2. <<w>> \in Seq(Inert(batch))
    BY <2>1, SMT
  <2>3. QED
    BY <1>3, <1>13, <2>2, StackInert
<1>15. Return(3) \in L(<<st3, opn2>>, <<<<>>, {}>>)
  <2> DEFINE r == <<Call("return", <<>>, "ignore")>>
  <2>1. r \in L(<<st3, opn2>>, <<st2, opn>>)
    BY <1>3, <1>6, <1>10, StackReturn DEF st3
  <2>2. r \in L(<<st2, opn>>, <<st1, {}>>)
    BY <1>2, <1>3, <1>6, <1>7, StackReturn DEF st2
  <2>3. r \in L(<<st1, {}>>, <<<<>>, {}>>)
    BY <1>2, <1>6, StackReturn DEF st1
  <2>4. QED
    BY <2>1, <2>2, <2>3, ReturnThree
<1>16. <<m, Defer(d1), o1, Defer(d2)>> = <<m>> \o <<Defer(d1)>> \o <<o1>> \o <<Defer(d2)>>
  BY SMT DEF m, o1
<1>17. <<o2, Defer(d3), w>> = <<o2>> \o <<Defer(d3)>> \o <<w>>
  BY SMT DEF o2, w
<1> DEFINE s == (<<m>> \o <<Defer(d1)>> \o <<o1>> \o <<Defer(d2)>>) \o b \o (<<o2>> \o <<Defer(d3)>> \o <<w>>)
<1>18. F4kvsBatchProbe(f) = OnError("panic", s) \o Return(3)
  BY <1>16, <1>17 DEF F4kvsBatchProbe, batch, d1, d2, d3
<1> HIDE DEF m, o1, o2, w, b
<1>19. <<m>> \o <<Defer(d1)>> \o <<o1>> \o <<Defer(d2)>> \in L(<<<<>>, {}>>, <<st2, opn>>)
  BY <1>7, <1>8, <1>9, <1>10, LeadsConcat
<1>20. <<o2>> \o <<Defer(d3)>> \o <<w>> \in L(<<st2, opn>>, <<st3, opn2>>)
  BY <1>12, <1>13, <1>14, LeadsConcat
<1>21. s \in L(<<<<>>, {}>>, <<st3, opn2>>)
  BY <1>11, <1>19, <1>20, LeadsConcat
<1> HIDE DEF s
<1>22. OnError("panic", s) \in L(<<<<>>, {}>>, <<st3, opn2>>)
  BY <1>21, OnErrorStacks DEF Errs
<1>23. QED
  BY <1>15, <1>18, <1>22, LeadsConcat

\* One profile of sqlite_fsync_probe: it puts off the removal of its
\* directory and leaves no database open.
LEMMA ProbeStacks ==
  ASSUME NEW f \in ProbeFlags, NEW at \in Paths, NEW lazy \in BOOLEAN, NEW stk \in Seq(Put_Off)
  PROVE  /\ <<Call("mkdir", at, "exit"), Defer(RemoveAll(at)), OpenDB(at, lazy), Call("create_table", at, "exit")>>
            \o Puts("put", at, "chunk", f.chunks) \o <<Close(at)>>
               \in Leads(Stacks, <<stk, {}>>, <<<<RemoveAll(at)>> \o stk, {}>>)
         /\ RemoveAll(at) \in Put_Off /\ RemoveAll(at).op = "remove_all"
         /\ <<RemoveAll(at)>> \o stk \in Seq(Put_Off)
<1> DEFINE m == Call("mkdir", at, "exit")
           d == RemoveAll(at)
           o == OpenDB(at, lazy)
           t == Call("create_table", at, "exit")
           b == Puts("put", at, "chunk", f.chunks)
           st == <<d>> \o stk
           opn == {} \cup {at}
           L(x, y) == Leads(Stacks, x, y)
<1>0. f.chunks \in Nat /\ "chunk" \in Keys
  BY DEF ProbeFlags, Keys
<1>1. {} \in SUBSET Paths /\ opn \in SUBSET Paths /\ opn \ {at} \subseteq {}
  OBVIOUS
<1>2. d \in Put_Off /\ d.op = "remove_all"
  BY DEF RemoveAll, Call, Put_Off
<1>3. o \in OpenCalls /\ o.at = at
  <2>1. 0 \in Nat
    BY SMT
  <2>2. QED
    BY <2>1 DEF OpenDB, OpenCalls, Errs
<1>4. <<m>> \in Seq(Inert(at)) /\ <<t>> \in Seq(Inert(at)) /\ b \in Seq(Inert(at))
  <2>1. <<m>> \in Seq(Inert(at)) /\ <<t>> \in Seq(Inert(at))
    BY InertOne DEF Errs
  <2>2. b \in Seq(Inert(at))
    BY <1>0, PutsInert
  <2>3. QED
    BY <2>1, <2>2
<1>5. <<m, Defer(d), o, t>> = <<m>> \o <<Defer(d)>> \o <<o>> \o <<t>>
  BY SMT DEF m, o, t
<1> HIDE DEF m, d, o, t, b
<1>6. <<m>> \in L(<<stk, {}>>, <<stk, {}>>)
  BY <1>1, <1>4, StackInert
<1>7. st \in Seq(Put_Off) /\ <<Defer(d)>> \in L(<<stk, {}>>, <<st, {}>>)
  BY <1>1, <1>2, StackDefer
<1> HIDE DEF st
<1>8. <<o>> \in L(<<st, {}>>, <<st, opn>>)
  BY <1>1, <1>3, <1>7, StackOpen
<1>9. <<t>> \in L(<<st, opn>>, <<st, opn>>) /\ b \in L(<<st, opn>>, <<st, opn>>)
  BY <1>1, <1>4, <1>7, StackInert
<1>10. <<Close(at)>> \in L(<<st, opn>>, <<st, {}>>)
  BY <1>1, <1>7, StackClose
<1> HIDE DEF opn
<1>11. <<m>> \o <<Defer(d)>> \o <<o>> \o <<t>> \in L(<<stk, {}>>, <<st, opn>>)
  BY <1>6, <1>7, <1>8, <1>9, LeadsConcat
<1>12. (<<m>> \o <<Defer(d)>> \o <<o>> \o <<t>>) \o b \o <<Close(at)>> \in L(<<stk, {}>>, <<st, {}>>)
  BY <1>9, <1>10, <1>11, LeadsConcat
<1>13. QED
  BY <1>2, <1>5, <1>7, <1>12 DEF st, m, d, o, t, b

\* All of sqlite_fsync_probe.
LEMMA FsyncProbeStacks ==
  ASSUME NEW f \in ProbeFlags
  PROVE  SqliteFsyncProbe(f) \in Leads(Stacks, <<<<>>, {}>>, <<<<>>, {}>>)
<1> DEFINE probe(profile) ==
              LET at == Dir(profile)
              IN  <<Call("mkdir", at, "exit"), Defer(RemoveAll(at)),
                    OpenDB(at, profile = "wal_normal"), Call("create_table", at, "exit")>>
                  \o Puts("put", at, "chunk", f.chunks) \o <<Close(at)>>
           d(p) == RemoveAll(Dir(p))
           st1 == <<d("wal_full")>> \o <<>>
           st2 == <<d("wal_normal")>> \o st1
           st3 == <<d("delete_full")>> \o st2
           L(x, y) == Leads(Stacks, x, y)
<1>1. ASSUME NEW p \in {"wal_full", "wal_normal", "delete_full"}, NEW stk \in Seq(Put_Off)
      PROVE  /\ probe(p) \in L(<<stk, {}>>, <<<<d(p)>> \o stk, {}>>)
             /\ d(p) \in Put_Off /\ d(p).op = "remove_all" /\ <<d(p)>> \o stk \in Seq(Put_Off)
  <2>1. p \in PathNames /\ "tmp" \in PathNames
    BY DEF PathNames
  <2>2. Dir(p) \in Paths
    BY <2>1, SMT DEF Dir, Paths
  <2>3. (p = "wal_normal") \in BOOLEAN
    OBVIOUS
  <2>4. QED
    BY <2>2, <2>3, ProbeStacks
<1>2. SqliteFsyncProbe(f)
         = OnError("panic", probe("wal_full") \o probe("wal_normal") \o probe("delete_full")) \o Return(3)
  BY DEF SqliteFsyncProbe
<1>3. <<>> \in Seq(Put_Off) /\ {} \in SUBSET Paths
  BY SMT
<1> HIDE DEF probe, d
<1>4. probe("wal_full") \in L(<<<<>>, {}>>, <<st1, {}>>) /\ st1 \in Seq(Put_Off)
  BY <1>1, <1>3
<1>5. d("wal_full") \in Put_Off /\ d("wal_full").op = "remove_all"
  BY <1>1, <1>3
<1> DEFINE r == <<Call("return", <<>>, "ignore")>>
<1>6. r \in L(<<st1, {}>>, <<<<>>, {}>>)
  BY <1>3, <1>5, StackReturn
<1> HIDE DEF st1
<1>7. probe("wal_normal") \in L(<<st1, {}>>, <<st2, {}>>) /\ st2 \in Seq(Put_Off)
  BY <1>1, <1>4
<1>8. d("wal_normal") \in Put_Off /\ d("wal_normal").op = "remove_all"
  BY <1>1, <1>3
<1>9. r \in L(<<st2, {}>>, <<st1, {}>>)
  BY <1>3, <1>4, <1>8, StackReturn
<1> HIDE DEF st2
<1>10. probe("delete_full") \in L(<<st2, {}>>, <<st3, {}>>) /\ st3 \in Seq(Put_Off)
  BY <1>1, <1>7
<1>11. d("delete_full") \in Put_Off /\ d("delete_full").op = "remove_all"
  BY <1>1, <1>3
<1>12. r \in L(<<st3, {}>>, <<st2, {}>>)
  BY <1>3, <1>7, <1>11, StackReturn
<1> HIDE DEF st3
<1>13. Return(3) \in L(<<st3, {}>>, <<<<>>, {}>>)
  BY <1>6, <1>9, <1>12, ReturnThree
<1>14. probe("wal_full") \o probe("wal_normal") \o probe("delete_full") \in L(<<<<>>, {}>>, <<st3, {}>>)
  BY <1>4, <1>7, <1>10, LeadsConcat
<1>15. OnError("panic", probe("wal_full") \o probe("wal_normal") \o probe("delete_full"))
          \in L(<<<<>>, {}>>, <<st3, {}>>)
  BY <1>14, OnErrorStacks DEF Errs
<1>16. QED
  BY <1>2, <1>13, <1>15, LeadsConcat

\* Every script, call by call: it closes an engine before it removes the
\* directory it is in, and has made all its deferred calls when it is over.
LEMMA ScriptStacks ==
  ASSUME NEW ids, NEW f \in EmbedFlags(ids) \cup ReadTaxFlags \cup ProbeFlags
  PROVE  Script(f) \in Leads(Stacks, <<<<>>, {}>>, <<<<>>, {}>>)
<1>1. CASE f \in EmbedFlags(ids)
  BY <1>1, EmbedStacks DEF EmbedFlags, Script
<1>2. CASE f \in ReadTaxFlags
  BY <1>2, ReadTaxStacks DEF ReadTaxFlags, Script
<1>3. CASE f \in ProbeFlags
  BY <1>3, BatchProbeStacks, FsyncProbeStacks DEF ProbeFlags, Script
<1>4. QED
  BY <1>1, <1>2, <1>3

-----------------------------------------------------------------------------
(* The rows of embed_vs_sqlite, and what it publishes.                     *)

LEMMA RankStays ==
  ASSUME NEW p, NEW n \in Nat, NEW c \in CallSet, c.op # "row"
  PROVE  <<n, c, n>> \in Ranks(p)
  BY DEF Ranks

\* The rows of a profile come in the order of their ranks.
LEMMA ScriptRanks ==
  ASSUME NEW ids, NEW f \in EmbedFlags(ids), NEW p \in Known
  PROVE  EmbedVsSQLite(f) \in Leads(Ranks(p), 0, IF p \in Wanted(f) THEN LastRank(p) ELSE 0)
<1> DEFINE R == Ranks(p)
           want == Wanted(f)
           bench == [q \in want |-> Bench(q, f)]
           gate == [q \in want |-> Gate(q, f)]
           m == IF p \in want THEN 9 ELSE 0
           n == IF p \in want THEN LastRank(p) ELSE 0
           s == <<0, 0, 0, m, n, n, n, n, n>>
<1>0. want \subseteq Known
  BY WantedKnown
<1>1. 0 \in Nat /\ 9 \in Nat /\ m \in Nat /\ n \in Nat /\ LastRank(p) \in Nat
  BY SMT DEF LastRank
<1>2. ASSUME NEW q \in want, q # p, NEW k \in Nat PROVE bench[q] \in Leads(R, k, k) /\ gate[q] \in Leads(R, k, k)
  <2>1. bench[q] = Bench(q, f) /\ gate[q] = Gate(q, f) /\ q \in Known
    BY <1>0
  <2>2. Bench(q, f) \in Seq(Calls(Area(q), q)) /\ Gate(q, f) \in Seq(Calls({RestartDir(q)}, q))
    BY <2>1, ProfileCalls
  <2>3. QED
    BY <1>2, <2>1, <2>2, OtherRanks
<1>3. ASSUME p \in want PROVE bench[p] \in Leads(R, 0, 9) /\ gate[p] \in Leads(R, 9, LastRank(p))
  <2>1. bench[p] = Bench(p, f) /\ gate[p] = Gate(p, f)
    BY <1>3
  <2> DEFINE U(k) == <<<<>>, {}, k>>
  <2>2. <<>> \in Seq(Put_Off) /\ {} \in SUBSET Paths
    BY SMT
  <2>3. U(0) \in States /\ U(9) \in States /\ U(LastRank(p)) \in States
    BY <1>1, <2>2 DEF States
  <2>4. U(0)[3] = 0 /\ U(9)[3] = 9 /\ U(LastRank(p))[3] = LastRank(p)
    BY SMT
  <2>5. /\ Bench(p, f) \in Leads(Shape(Area(p), p), U(0), U(9))
        /\ Gate(p, f) \in Leads(Shape({RestartDir(p)}, p), U(9), U(LastRank(p)))
    BY <2>2, BenchShape, GateKeepsShape
  <2> HIDE DEF U
  <2>6. Bench(p, f) \in Leads(R, U(0)[3], U(9)[3])
    BY <2>3, <2>5, ShapeRanks
  <2>7. Gate(p, f) \in Leads(R, U(9)[3], U(LastRank(p))[3])
    BY <2>3, <2>5, ShapeRanks
  <2>8. QED
    BY <2>1, <2>4, <2>6, <2>7
<1>4. ASSUME NEW k \in Nat, NEW op \in MainOps \cup {"return"}, NEW err \in Errs PROVE <<k, Call(op, <<>>, err), k>> \in R
  <2>1. Call(op, <<>>, err) \in CallSet /\ Call(op, <<>>, err).op = op /\ op # "row"
    BY MainCalls DEF Call, MainOps
  <2>2. QED
    BY <2>1, RankStays
<1>5. <<0, Call("mkdir", Tmp, "exit"), 0>> \in R /\ <<0, Defer(RemoveAll(Tmp)), 0>> \in R
  <2>1. Call("mkdir", Tmp, "exit").op = "mkdir" /\ Defer(RemoveAll(Tmp)).op = "defer"
    BY DEF Call, Defer
  <2>2. QED
    BY <1>1, <2>1, MainCalls, RankStays
<1> HIDE DEF bench, gate, R
<1>6. selectedProfileNames(want, bench) \in Leads(R, 0, m)
  <2>1. IF p \in want THEN bench[p] \in Leads(R, 0, m) ELSE m = 0
    BY <1>3
  <2> HIDE DEF m
  <2>2. QED
    BY <1>1, <1>2, <2>1, SelectedLeads, ZenonT(60)
<1>7. selectedProfileNames(want, gate) \in Leads(R, m, n)
  <2>1. IF p \in want THEN gate[p] \in Leads(R, m, n) ELSE n = m
    BY <1>3
  <2> HIDE DEF m, n
  <2>2. QED
    BY <1>1, <1>2, <2>1, SelectedLeads, ZenonT(60)
<1>8. /\ s[1] = 0 /\ s[2] = 0 /\ s[3] = 0 /\ s[4] = m /\ s[5] = n /\ s[6] = n /\ s[7] = n /\ s[8] = n /\ s[9] = n
  BY SMT DEF s
<1>9. want = {} => n = 0
  OBVIOUS
<1> HIDE DEF s, n, m
<1>10. MainMoves(R, f, s)
  BY <1>1, <1>4, <1>5, <1>8, <1>9, ZenonT(60) DEF MainMoves, MainOps, Errs
<1>11. EmbedVsSQLite(f) \in Leads(R, s[1], s[9])
  BY <1>6, <1>7, <1>8, <1>10, EmbedLeads DEF bench, gate
<1>12. QED
  BY <1>8, <1>11 DEF n, R

LEMMA PublishingIs ==
  ASSUME NEW f, NEW a \in Publications, NEW b \in Publications, NEW c \in CallSet, PublishMove(f, a, c, b)
  PROVE  <<a, c, b>> \in Publishing(f)
  BY DEF Publishing

\* With -runs-root the lines are appended and published, once, after all rows.
LEMMA ScriptPublishes ==
  ASSUME NEW ids, NEW f \in EmbedFlags(ids)
  PROVE  EmbedVsSQLite(f) \in Leads(Publishing(f), "none", IF f.root THEN "published" ELSE "none")
<1> DEFINE want == Wanted(f)
           bench == [q \in want |-> Bench(q, f)]
           gate == [q \in want |-> Gate(q, f)]
           call(op) == Call(op, <<>>, "exit")
           x == IF f.root THEN "open" ELSE "none"
           y == IF f.root THEN "published" ELSE "none"
           s == <<"none", "none", x, x, x, "appended", y, y, y>>
<1>1. want \subseteq Known /\ f.root \in BOOLEAN
  BY WantedKnown DEF EmbedFlags
<1>2. x \in {"none", "open"} /\ y \in {"none", "published"} /\ (y = "none" => ~f.root)
  OBVIOUS
<1>3. ASSUME NEW q \in want PROVE bench[q] \in Leads(Publishing(f), x, x) /\ gate[q] \in Leads(Publishing(f), x, x)
  <2>1. bench[q] = Bench(q, f) /\ gate[q] = Gate(q, f) /\ q \in Known
    BY <1>1
  <2>2. Bench(q, f) \in Seq(Calls(Area(q), q)) /\ Gate(q, f) \in Seq(Calls({RestartDir(q)}, q))
    BY <2>1, ProfileCalls
  <2>3. ASSUME NEW D, NEW c \in Calls(D, q) PROVE c \in CallSet /\ <<x, c, x>> \in Publishing(f)
    <3>1. c \in CallSet /\ c.op \notin WriterOps \cup {"gate"}
      BY DEF Calls, MainOps, WriterOps
    <3> HIDE DEF x
    <3>2. PublishMove(f, x, c, x)
      BY <1>2, <3>1 DEF PublishMove
    <3>3. QED
      BY <1>2, <3>1, <3>2, PublishingIs DEF Publications
  <2>4. ASSUME NEW D PROVE Calls(D, q) \subseteq CallSet /\ \A c \in Calls(D, q) : <<x, c, x>> \in Publishing(f)
    BY <2>3
  <2> HIDE DEF x
  <2>5. QED
    BY <2>1, <2>2, <2>4, LeadsStay
<1>4. ASSUME NEW op \in MainOps \cup {"return"}, NEW err \in Errs
      PROVE  /\ Call(op, <<>>, err) \in CallSet /\ Call(op, <<>>, err).op = op /\ Call(op, <<>>, err).err = err
             /\ op \notin WriterOps \cup {"gate"} => <<x, Call(op, <<>>, err), x>> \in Publishing(f)
             /\ op \notin WriterOps => <<y, Call(op, <<>>, err), y>> \in Publishing(f)
  <2> DEFINE c == Call(op, <<>>, err)
  <2>1. c \in CallSet /\ c.op = op /\ c.err = err /\ op # "row"
    BY MainCalls DEF Call, MainOps
  <2> HIDE DEF c, x, y
  <2>2. /\ op \notin WriterOps \cup {"gate"} => PublishMove(f, x, c, x)
        /\ op \notin WriterOps => PublishMove(f, y, c, y)
    BY <1>2, <2>1 DEF PublishMove
  <2>3. /\ op \notin WriterOps \cup {"gate"} => <<x, c, x>> \in Publishing(f)
        /\ op \notin WriterOps => <<y, c, y>> \in Publishing(f)
    BY <1>2, <2>1, <2>2, PublishingIs DEF Publications
  <2>4. QED
    BY <2>1, <2>3 DEF c
<1>5. <<"none", Call("mkdir", Tmp, "exit"), "none">> \in Publishing(f) /\ <<"none", Defer(RemoveAll(Tmp)), "none">> \in Publishing(f)
  <2>1. /\ Call("mkdir", Tmp, "exit").op \notin WriterOps \cup {"gate"}
        /\ Defer(RemoveAll(Tmp)).op \notin WriterOps \cup {"gate"}
    BY DEF Call, Defer, WriterOps
  <2>2. QED
    BY <2>1, MainCalls, PublishingIs DEF PublishMove, Publications
<1>6. <<"none", call("fatal"), y>> \in Publishing(f)
  <2>1. call("fatal") \in CallSet /\ call("fatal").op = "fatal"
    BY <1>4 DEF MainOps, Errs
  <2> HIDE DEF call, y
  <2>2. QED
    BY <1>2, <2>1, PublishingIs DEF PublishMove, Publications
<1>7. /\ <<"none", call("new_run_writer"), "open">> \in Publishing(f) /\ <<"open", call("append"), "appended">> \in Publishing(f)
      /\ <<"appended", call("finalize"), "published">> \in Publishing(f)
  <2>1. /\ call("new_run_writer") \in CallSet /\ call("append") \in CallSet /\ call("finalize") \in CallSet
        /\ call("new_run_writer").op = "new_run_writer" /\ call("append").op = "append" /\ call("finalize").op = "finalize"
        /\ call("new_run_writer").err = "exit" /\ call("finalize").err = "exit"
    BY <1>4 DEF MainOps, Errs
  <2> HIDE DEF call
  <2>2. /\ PublishMove(f, "none", call("new_run_writer"), "open") /\ PublishMove(f, "open", call("append"), "appended")
        /\ PublishMove(f, "appended", call("finalize"), "published")
    BY <2>1 DEF PublishMove
  <2>3. QED
    BY <2>1, <2>2, PublishingIs DEF Publications
<1>8. /\ s[1] = "none" /\ s[2] = "none" /\ s[3] = x /\ s[4] = x /\ s[5] = x /\ s[6] = "appended" /\ s[7] = y /\ s[8] = y
      /\ s[9] = y
  BY SMT DEF s
<1>9. "sqlite_wal_full" \in Known
  BY KnownIs
<1> HIDE DEF bench, gate
<1>10. selectedProfileNames(want, bench) \in Leads(Publishing(f), x, x) /\ selectedProfileNames(want, gate) \in Leads(Publishing(f), x, x)
  <2> HIDE DEF x
  <2>1. QED
    BY <1>3, <1>9, SelectedLeads, ZenonT(60)
<1>11. IF f.root THEN x = "open" /\ y = "published" ELSE x = "none" /\ y = "none"
  OBVIOUS
<1> HIDE DEF s, x, y
<1>12. ASSUME NEW op \in {"print_table", "write_json", "gate", "fatal", "return"}, NEW err \in Errs
       PROVE  /\ op # "gate" => <<x, Call(op, <<>>, err), x>> \in Publishing(f)
              /\ <<y, Call(op, <<>>, err), y>> \in Publishing(f)
  BY <1>4 DEF MainOps, WriterOps
<1>13. MainMoves(Publishing(f), f, s)
  BY <1>1, <1>5, <1>6, <1>7, <1>8, <1>11, <1>12, ZenonT(60) DEF MainMoves, Errs
<1>14. EmbedVsSQLite(f) \in Leads(Publishing(f), s[1], s[9])
  BY <1>8, <1>10, <1>13, EmbedLeads DEF bench, gate
<1>15. QED
  BY <1>8, <1>14 DEF y
=============================================================================
