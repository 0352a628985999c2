---------------------------- MODULE BenchPrograms ----------------------------
(* The benchmark programs, each as the sequence of calls that it makes for *)
(* given flags, as long as no call fails.  Which calls these are depends   *)
(* on the flags alone.  BenchHarness says what a call does.                *)
(*                                                                         *)
(* Only counts of keys matter: payloads, durations, notes and the text of  *)
(* labels are left out.  A path is a sequence of names.                    *)
EXTENDS Naturals, Sequences

CONSTANTS
    engineMaxBatchDefault,   \* 10_000 in the code
    BulkFrom                 \* 1000: more chunks are loaded in bulk-import mode

ASSUME ProgramsAssumption == engineMaxBatchDefault \in Nat /\ BulkFrom \in Nat

\* The flags of the programs.  A size or count of gets below 0 acts as 0.
EmbedFlags(ids) ==
    [program : {"embed_vs_sqlite"}, profiles : Seq(STRING), relaxed : BOOLEAN, fair : BOOLEAN,
     chunks : Nat, memoirs : Nat, gets : Nat, batch : Nat, maxPerCommit : Nat,
     root : BOOLEAN, out : BOOLEAN, id : ids]
ReadTaxFlags ==
    [program : {"ffi_read_tax"}, chunks : Nat, gets : Nat, bulkImport : BOOLEAN,
     prepareOnly : BOOLEAN, readOnly : BOOLEAN, dir : BOOLEAN, out : BOOLEAN]
ProbeFlags == [program : {"f4kvs_batch_probe", "sqlite_fsync_probe"}, chunks : Nat]

\* The phases of embed_vs_sqlite; those that stand for durable ingest.
RowPhases == {"memoir_batch_put", "memoir_random_get", "chunk_batch_put", "chunk_batch_put_flush",
              "chunk_batch_put_durable", "chunk_put_group_commit", "chunk_batch_put_batched",
              "chunk_batch_put_bulk_import", "chunk_prefix_scan", "chunk_random_get",
              "post_restart_row_count"}
DurablePhases == {"chunk_batch_put_flush", "chunk_batch_put_durable", "chunk_put_group_commit",
                  "chunk_batch_put_batched", "chunk_batch_put_bulk_import"}
Metrics == {"duration_ms", "ops_per_s", "row_count", "expected_row_count", "integrity_ok"}

-----------------------------------------------------------------------------
(* Calls.  err says what the program does with an error: "exit" is fatal,  *)
(* "close" closes the engine first, "panic" runs the deferred calls, and   *)
(* "ignore" goes on.                                                       *)

Call(op, at, err) == [op |-> op, at |-> at, err |-> err]
Open(at, opts) == [op |-> "open", at |-> at, err |-> "exit", lazy |-> opts.lazy,
                   limit |-> IF opts.max = 0 THEN engineMaxBatchDefault ELSE opts.max]
OpenDB(at, lazy) == [op |-> "open", at |-> at, err |-> "exit", lazy |-> lazy, limit |-> 0]

\* Writes of the keys of a kind up to number upto, n of them in this call.
Write(op, at, key, n, upto) ==
    [op |-> op, at |-> at, err |-> "exit", key |-> key, n |-> n, upto |-> upto]
Read(op, at, key, n) == [op |-> op, at |-> at, err |-> "exit", key |-> key, n |-> n]
Defer(call) == [op |-> "defer", at |-> call.at, err |-> "exit", call |-> call]
Close(at) == Call("close", at, "ignore")
FlushWAL(at) == Call("flush_wal", at, "exit")
SetBulkImport(at) == Call("set_bulk_import", at, "exit")
RemoveAll(at) == Call("remove_all", at, "ignore")

\* The deferred calls of a function run when it returns.
Return(n) == [i \in 1 .. n |-> Call("return", <<>>, "ignore")]

\* The same calls with another treatment of errors.
OnError(err, calls) ==
    [i \in DOMAIN calls |-> IF calls[i].err = "exit" THEN [calls[i] EXCEPT !.err = err] ELSE calls[i]]

When(condition, calls) == IF condition THEN calls ELSE <<>>

result(phase, profile, at) ==
    [op |-> "row", at |-> at, err |-> "exit", phase |-> phase, profile |-> profile, metric |-> ""]
metricResult(phase, profile, at, metric) ==
    [result(phase, profile, at) EXCEPT !.metric = metric]

-----------------------------------------------------------------------------
(* Profiles.                                                               *)

\* Options: does a write return before it is durable, and MaxBatchSize.  The
\* segment, frame and indexed WAL are not told apart.
Nil == [lazy |-> FALSE, max |-> 0]
GroupCommit == [lazy |-> TRUE, max |-> 0]

knownProfiles ==
    <<"f4kvs_wal_segment", "f4kvs_wal_frame", "f4kvs_wal_indexed", "f4kvs_group_commit_1ms",
      "f4kvs_group_commit_10ms", "f4kvs_group_commit_idle", "sqlite_wal_full", "sqlite_wal_normal">>
productProfiles == {"f4kvs_wal_segment", "sqlite_wal_full"}
durableCompareProfiles == productProfiles \cup {"f4kvs_group_commit_1ms", "sqlite_wal_normal"}

Known == {knownProfiles[i] : i \in DOMAIN knownProfiles}
Named(name) == CASE name = "product" -> productProfiles
                 [] name = "durable_compare" -> durableCompareProfiles
                 [] name = "" -> {}
                 [] OTHER -> {name}

\* The flag is a list of names; {} stands for an error.
parseProfiles(names) ==
    LET stops == {i \in DOMAIN names : names[i] = "all" \/ ~(Named(names[i]) \subseteq Known)}
        first == CHOOSE i \in stops : \A j \in stops : i <= j
    IN  IF names = <<"">> THEN {"all"}
        ELSE IF stops = {} THEN UNION {Named(names[i]) : i \in DOMAIN names}
        ELSE IF names[first] = "all" THEN {"all"} ELSE {}

\* "all" expanded, without sqlite_wal_normal unless -include-relaxed.
Wanted(f) ==
    LET want == parseProfiles(f.profiles)
    IN  IF want # {"all"} THEN want
        ELSE IF f.relaxed THEN Known ELSE Known \ {"sqlite_wal_normal"}

OptionsOf(profile) ==
    IF profile \in {"f4kvs_wal_segment", "f4kvs_wal_frame", "f4kvs_wal_indexed"} THEN Nil
    ELSE GroupCommit

usesGroupCommit(opts) == opts.lazy

-----------------------------------------------------------------------------
(* Sizes.  f is the record of the flags.                                   *)

BatchPutSize(f) == IF f.fair THEN 0 ELSE f.batch
skipPerCommitChunks(f) == f.maxPerCommit > 0 /\ f.chunks > f.maxPerCommit

\* Mutant: zero is taken for a size.
resolveBatchPutSize_zero(n, size) == IF size >= n THEN n ELSE IF size = 0 THEN 1 ELSE size

resolveBatchPutSize(n, size) == IF size <= 0 \/ size >= n THEN n ELSE size

\* Mutant: a batch just above the default is let through.
openOptsForProfile_late(base, n, f) ==
    LET need == resolveBatchPutSize(n, BatchPutSize(f))
    IN  IF need <= engineMaxBatchDefault + 1 /\ base.max = 0 THEN base
        ELSE [base EXCEPT !.max = IF @ < need THEN need ELSE @]

openOptsForProfile(base, n, f) ==
    LET need == resolveBatchPutSize(n, BatchPutSize(f))
    IN  IF need <= engineMaxBatchDefault /\ base.max = 0 THEN base
        ELSE [base EXCEPT !.max = IF @ < need THEN need ELSE @]

-----------------------------------------------------------------------------
(* Loops.                                                                  *)

Puts(op, at, key, n) == [i \in 1 .. n |-> Write(op, at, key, 1, i)]

\* keys[i % len(keys)]: a division by zero if there are no keys.
Gets(at, key, keys, gets) ==
    IF gets > 0 /\ keys = 0 THEN <<Call("divide_by_zero", at, "panic")>>
    ELSE [i \in 1 .. gets |-> Read("get", at, key, (i - 1) % keys)]

batchPutBytesChunked(at, n, f) ==
    LET step == resolveBatchPutSize(n, BatchPutSize(f))
        Size(i) == IF (i + 1) * step <= n THEN step ELSE n - i * step
    IN  IF n = 0 THEN <<>>
        ELSE [i \in 1 .. (n + step - 1) \div step |->
                 Write("batch", at, "chunk", Size(i - 1), (i - 1) * step + Size(i - 1))]

sqliteBatchPut(at, perCommit, key, n) ==
    IF perCommit THEN Puts("put", at, key, n)
    ELSE <<Call("begin", at, "exit"), Call("prepare", at, "exit")>>
         \o [i \in 1 .. n |-> Call("insert", at, "exit")] \o <<Write("commit", at, key, n, n)>>

-----------------------------------------------------------------------------
(* The phases of an f4kvs profile.                                         *)

\* Mutant: what has been put is not flushed.
benchF4KVSChunkDurable_unflushed(at, profile, opts, f) ==
    LET dir == Append(at, "chunk_durable")
    IN  <<RemoveAll(dir), Open(dir, opts), Defer(Close(dir))>> \o Puts("put", dir, "chunk", f.chunks)
        \o <<result("chunk_batch_put_durable", profile, dir)>> \o Return(1)

benchF4KVSChunkDurable(at, profile, opts, f) ==
    LET dir == Append(at, "chunk_durable")
    IN  <<RemoveAll(dir), Open(dir, opts), Defer(Close(dir))>> \o Puts("put", dir, "chunk", f.chunks)
        \o <<FlushWAL(dir), result("chunk_batch_put_durable", profile, dir)>> \o Return(1)

benchF4KVSChunkBatchPut(dir, profile, f, bulkImport, phase) ==
    <<Open(dir, openOptsForProfile(Nil, f.chunks, f)), Defer(Close(dir))>>
    \o When(bulkImport, <<SetBulkImport(dir)>>)
    \o batchPutBytesChunked(dir, f.chunks, f)
    \o When(BatchPutSize(f) <= 0, <<FlushWAL(dir)>>)
    \o <<result(phase, profile, dir)>> \o Return(1)

benchF4KVSChunkBatched(at, profile, f) ==
    benchF4KVSChunkBatchPut(Append(at, "chunk_batched"), profile, f, FALSE, "chunk_batch_put_batched")

benchF4KVSChunkBulkImport(at, profile, f) ==
    benchF4KVSChunkBatchPut(Append(at, "chunk_bulk_import"), profile, f, TRUE,
                            "chunk_batch_put_bulk_import")

PerCommitChunks(at, profile, opts, f) ==
    Puts("put", at, "chunk", f.chunks) \o <<result("chunk_batch_put", profile, at)>>
    \o When(usesGroupCommit(opts),
            <<FlushWAL(at), result("chunk_batch_put_flush", profile, at)>>
            \o benchF4KVSChunkDurable(at, profile, opts, f))

StreamedChunks(at, profile, f) ==
    <<SetBulkImport(at)>> \o Puts("put", at, "chunk", f.chunks)
    \o <<FlushWAL(at), SetBulkImport(at), result("chunk_put_group_commit", profile, at)>>
    \o benchF4KVSChunkBatched(at, profile, f)

BatchedChunks(at, profile, f) ==
    <<SetBulkImport(at)>> \o batchPutBytesChunked(at, f.chunks, f) \o <<SetBulkImport(at)>>
    \o When(BatchPutSize(f) <= 0, <<FlushWAL(at)>>)
    \o <<result("chunk_batch_put_batched", profile, at)>>
    \o When(BatchPutSize(f) > 0, benchF4KVSChunkBulkImport(at, profile, f))

\* Mutant: the side measurements are made on the scale path too.
SideMeasurements_always(at, profile, f) ==
    benchF4KVSChunkBatched(at, profile, f) \o benchF4KVSChunkBulkImport(at, profile, f)

SideMeasurements(at, profile, f) ==
    When(~skipPerCommitChunks(f),
         benchF4KVSChunkBatched(at, profile, f) \o benchF4KVSChunkBulkImport(at, profile, f))

benchF4KVS(at, profile, base, f) ==
    LET opts == openOptsForProfile(base, f.chunks, f)
    IN  <<Open(at, opts), Defer(Close(at))>>
        \o Puts("put", at, "memoir", f.memoirs) \o <<result("memoir_batch_put", profile, at)>>
        \o Gets(at, "memoir", f.memoirs, f.gets) \o <<result("memoir_random_get", profile, at)>>
        \o (IF ~skipPerCommitChunks(f) THEN PerCommitChunks(at, profile, opts, f)
            ELSE IF usesGroupCommit(opts) THEN StreamedChunks(at, profile, f)
            ELSE BatchedChunks(at, profile, f))
        \o SideMeasurements(at, profile, f)
        \o <<Read("scan", at, "chunk", 0), result("chunk_prefix_scan", profile, at)>>
        \o Gets(at, "chunk", f.chunks, f.gets) \o <<result("chunk_random_get", profile, at)>>
        \o Return(1)

\* The four rows of an integrity check.
GateRows(profile, at) ==
    LET row(metric) == metricResult("post_restart_row_count", profile, at, metric)
    IN  <<row("duration_ms"), row("row_count"), row("expected_row_count"), row("integrity_ok")>>

benchF4KVSPostRestart(at, profile, base, f) ==
    LET opts == openOptsForProfile(base, f.chunks + f.memoirs, f)
        bulk == f.chunks > BulkFrom
    IN  <<RemoveAll(at), Open(at, opts)>>
        \o OnError("close",
             When(f.memoirs > 0, <<Write("batch", at, "memoir", f.memoirs, f.memoirs)>>)
             \o When(bulk, <<SetBulkImport(at)>>)
             \o batchPutBytesChunked(at, f.chunks, f))
        \o OnError("ignore", When(BatchPutSize(f) <= 0, <<FlushWAL(at)>>)
                             \o When(bulk, <<SetBulkImport(at)>>))
        \o OnError("close", When(usesGroupCommit(opts), <<FlushWAL(at)>>))
        \o <<Close(at), Open(at, opts), Read("scan", at, "memoir", 0), Read("scan_more", at, "chunk", 0),
             Close(at)>>
        \o GateRows(profile, at)

-----------------------------------------------------------------------------
(* The phases of an SQLite profile.  synchronous=NORMAL may delay a sync.  *)

Relaxed(profile) == profile = "sqlite_wal_normal"

benchSQLiteChunkBatched(at, profile, f) ==
    <<OpenDB(at, Relaxed(profile)), Defer(Close(at)), Call("create_table", at, "exit")>>
    \o sqliteBatchPut(at, FALSE, "chunk", f.chunks)
    \o <<result("chunk_batch_put_batched", profile, at)>> \o Return(1)

benchSQLite(at, profile, f) ==
    LET perCommit == profile = "sqlite_wal_full" /\ ~skipPerCommitChunks(f)
    IN  <<OpenDB(at, Relaxed(profile)), Defer(Close(at)), Call("create_table", at, "exit")>>
        \o sqliteBatchPut(at, perCommit, "memoir", f.memoirs)
        \o <<result("memoir_batch_put", profile, at)>>
        \o Gets(at, "memoir", f.memoirs, f.gets) \o <<result("memoir_random_get", profile, at)>>
        \o sqliteBatchPut(at, perCommit, "chunk", f.chunks) \o <<result("chunk_batch_put", profile, at)>>
        \o benchSQLiteChunkBatched(<<"tmp", "chunk_batched", profile>>, profile, f)
        \o <<Call("query", at, "exit"), Read("scan", at, "chunk", 0),
             result("chunk_prefix_scan", profile, at)>>
        \o Gets(at, "chunk", f.chunks, f.gets) \o <<result("chunk_random_get", profile, at)>>
        \o Return(1)

benchSQLitePostRestart(at, profile, f) ==
    <<RemoveAll(at), OpenDB(at, Relaxed(profile))>>
    \o OnError("close", <<Call("create_table", at, "exit")>>
         \o sqliteBatchPut(at, FALSE, "memoir", f.memoirs)
         \o sqliteBatchPut(at, FALSE, "chunk", f.chunks))
    \o <<[Close(at) EXCEPT !.err = "exit"], OpenDB(at, Relaxed(profile)),
         [Read("count", at, "all", 0) EXCEPT !.err = "close"], Close(at)>>
    \o GateRows(profile, at)

-----------------------------------------------------------------------------
(* The programs.                                                           *)

Tmp == <<"tmp">>
Dir(profile) == <<"tmp", profile>>
RestartDir(profile) == <<"tmp", "restart", profile>>
SQLite == {"sqlite_wal_full", "sqlite_wal_normal"}

Bench(profile, f) ==
    IF profile \in SQLite THEN benchSQLite(Dir(profile), profile, f)
    ELSE benchF4KVS(Dir(profile), profile, OptionsOf(profile), f)

Gate(profile, f) ==
    IF profile \in SQLite THEN benchSQLitePostRestart(RestartDir(profile), profile, f)
    ELSE When(profile \in {"f4kvs_wal_segment", "f4kvs_group_commit_1ms", "f4kvs_group_commit_10ms"},
              benchF4KVSPostRestart(RestartDir(profile), profile, OptionsOf(profile), f))

\* The calls that are made for a profile, for each that is wanted, in order.
selectedProfileNames(want, calls) ==
    LET run(i) == When(knownProfiles[i] \in want, calls[knownProfiles[i]])
    IN  run(1) \o run(2) \o run(3) \o run(4) \o run(5) \o run(6) \o run(7) \o run(8)

\* Mutant: the integrity check is made before the run is published.
EmbedVsSQLite_checks_first(f) ==
    LET want == Wanted(f)
    IN  IF want = {} THEN <<Call("fatal", <<>>, "exit")>>
        ELSE <<Call("mkdir", Tmp, "exit"), Defer(RemoveAll(Tmp))>>
             \o When(f.root, <<Call("new_run_writer", <<>>, "exit")>>)
             \o selectedProfileNames(want, [p \in want |-> Bench(p, f)])
             \o selectedProfileNames(want, [p \in want |-> Gate(p, f)])
             \o <<Call("print_table", <<>>, "ignore")>>
             \o When(f.out, <<Call("write_json", <<>>, "exit")>>)
             \o When(f.root, <<Call("append", <<>>, "exit")>>)
             \o <<Call("gate", <<>>, "exit")>>
             \o When(f.root, <<Call("finalize", <<>>, "exit")>>) \o Return(1)

\* main of bench/embed_vs_sqlite.
EmbedVsSQLite(f) ==
    LET want == Wanted(f)
    IN  IF want = {} THEN <<Call("fatal", <<>>, "exit")>>
        ELSE <<Call("mkdir", Tmp, "exit"), Defer(RemoveAll(Tmp))>>
             \o When(f.root, <<Call("new_run_writer", <<>>, "exit")>>)
             \o selectedProfileNames(want, [p \in want |-> Bench(p, f)])
             \o selectedProfileNames(want, [p \in want |-> Gate(p, f)])
             \o <<Call("print_table", <<>>, "ignore")>>
             \o When(f.out, <<Call("write_json", <<>>, "exit")>>)
             \o When(f.root, <<Call("append", <<>>, "exit"), Call("finalize", <<>>, "exit")>>)
             \o <<Call("gate", <<>>, "exit")>> \o Return(1)

\* main of bench/ffi_read_tax.  With -dir the store outlives the program.
FfiReadTax(f) ==
    LET dir == IF f.dir THEN <<"dir">> ELSE Tmp
    IN  <<Call("mkdir", dir, "exit")>>
        \o When(~f.readOnly,
                <<Open(dir, Nil)>> \o When(f.bulkImport, <<SetBulkImport(dir)>>)
                \o <<Write("batch", dir, "chunk", f.chunks, f.chunks), Close(dir)>>)
        \o When(~f.prepareOnly,
                <<Open(dir, Nil), Defer(Close(dir))>> \o Gets(dir, "chunk", f.chunks, f.gets)
                \o When(f.out, <<Call("write_json", <<>>, "exit")>>) \o Return(1))

\* Mutant: the removal of the directory is deferred after the Close.
F4kvsBatchProbe_removes_first(f) ==
    LET batch == <<"tmp-batch">>
    IN  OnError("panic",
            <<Call("mkdir", Tmp, "exit"), Open(Tmp, Nil), Defer(Close(Tmp)), Defer(RemoveAll(Tmp))>>
            \o Puts("put", Tmp, "chunk", f.chunks)
            \o <<Open(batch, Nil), Defer(Close(batch)),
                 Write("batch", batch, "chunk", f.chunks, f.chunks)>>)
        \o Return(3)

\* main of f4kvs_batch_probe.go.  The second directory is not below the first.
F4kvsBatchProbe(f) ==
    LET batch == <<"tmp-batch">>
    IN  OnError("panic",
            <<Call("mkdir", Tmp, "exit"), Defer(RemoveAll(Tmp)), Open(Tmp, Nil), Defer(Close(Tmp))>>
            \o Puts("put", Tmp, "chunk", f.chunks)
            \o <<Open(batch, Nil), Defer(Close(batch)),
                 Write("batch", batch, "chunk", f.chunks, f.chunks)>>)
        \o Return(3)

\* main of sqlite_fsync_probe.go: its profiles one after the other.
SqliteFsyncProbe(f) ==
    LET probe(profile) ==
            LET at == Dir(profile)
            IN  <<Call("mkdir", at, "exit"), Defer(RemoveAll(at)),
                  OpenDB(at, profile = "wal_normal"), Call("create_table", at, "exit")>>
                \o Puts("put", at, "chunk", f.chunks) \o <<Close(at)>>
    IN  OnError("panic", probe("wal_full") \o probe("wal_normal") \o probe("delete_full"))
        \o Return(3)

Script(f) ==
    CASE f.program = "embed_vs_sqlite" -> EmbedVsSQLite(f)
      [] f.program = "ffi_read_tax" -> FfiReadTax(f)
      [] f.program = "f4kvs_batch_probe" -> F4kvsBatchProbe(f)
      [] f.program = "sqlite_fsync_probe" -> SqliteFsyncProbe(f)
=============================================================================
