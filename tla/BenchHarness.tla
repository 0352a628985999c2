----------------------------- MODULE BenchHarness -----------------------------
(* The benchmark programs at work: what each call of a script does to the  *)
(* stores on disk, what happens when one fails or the process dies, how    *)
(* rows are recorded, compared and published, and how the process ends.    *)
(* The engines (the LSM engine behind the Go binding, SQLite) are modelled *)
(* by what the programs expect of them: a write is durable when it         *)
(* returns, except in lazy stores, where that takes until a flush.         *)
EXTENDS BenchPrograms, BenchRunWriter

CONSTANTS
    Flags,      \* the flags programs are started with
    Timings,    \* bound: durations of a phase, profile by profile: [Known -> Nat]
    Baselines,  \* bound: the same, of the phase it is compared with
    MaxRuns,    \* bound: processes that are started
    MaxFaults,  \* bound: calls that fail in a process for no fault of its own
    None

ASSUME HarnessAssumption ==
    /\ Flags \subseteq EmbedFlags(RunIds) \cup ReadTaxFlags \cup ProbeFlags /\ None \notin Flags
    /\ Timings \subseteq [Known -> Nat] /\ Baselines \subseteq [Known -> Nat]
    /\ Known \cup RowPhases \cup Metrics \subseteq Names
    /\ MaxRuns \in Nat /\ MaxFaults \in Nat

Scripts == [f \in Flags |-> Script(f)]

VARIABLES
    runs,      \* processes started so far
    flags,     \* the flags of the present one
    status,    \* "running", "panicking", or how the last one ended
    pc,        \* its next call
    defers,    \* its deferred calls, the next one to run first
    stores,    \* path -> store, for the stores on disk
    rows,      \* rep.Results
    counted,   \* how many keys the last scans found
    printed,   \* the comparisons of one phase, while they are printed, or None
    faults,    \* calls that have failed in this process
    lost,      \* history: stores that have lost rows they had acknowledged
    prepared   \* history: chunks that a read_tax run left in its directory

hvars == <<runs, flags, status, pc, defers, stores, rows, counted, printed, faults, lost, prepared>>
vars == <<hvars, wvars>>

Zero == [memoir |-> 0, chunk |-> 0]
NewStore == [open |-> FALSE, lazy |-> FALSE, limit |-> 0, acked |-> Zero, safe |-> Zero, units |-> 0]
Working == {"running", "panicking"}
Ends == {"none", "ok", "fatal", "panic", "integrity", "crashed"}

TypeOK ==
    /\ WTypeOK
    /\ runs \in 0 .. MaxRuns /\ status \in Working \cup Ends
    /\ faults \in 0 .. MaxFaults /\ counted \in Nat /\ prepared \in Nat
    /\ status = "running" => pc \in 1 .. Len(Scripts[flags]) + 1
    /\ \A p \in DOMAIN stores : \A k \in DOMAIN Zero :
          stores[p].safe[k] \in 0 .. stores[p].acked[k]
    /\ wpc # "none" => status \in Working

Init ==
    /\ WInit
    /\ runs = 0 /\ flags = None /\ status = "none" /\ pc = 0 /\ defers = <<>> /\ stores = <<>>
    /\ rows = <<>> /\ counted = 0 /\ printed = None /\ faults = 0 /\ lost = {} /\ prepared = 0

\* A process of any program starts.
Launch(f) ==
    /\ status \in Ends /\ runs < MaxRuns
    /\ runs' = runs + 1 /\ flags' = f /\ status' = "running" /\ pc' = 1
    /\ defers' = <<>> /\ rows' = <<>> /\ counted' = 0 /\ printed' = None /\ faults' = 0 /\ lost' = {}
    /\ UNCHANGED <<stores, prepared, wvars>>

-----------------------------------------------------------------------------
(* Stores.                                                                 *)

Under(path) == {p \in DOMAIN stores : Len(path) <= Len(p) /\ SubSeq(p, 1, Len(path)) = path}
Keep(paths) == [p \in paths |-> stores[p]]
Store(path) == IF path \in DOMAIN stores THEN stores[path] ELSE NewStore
With(path, store) == [p \in DOMAIN stores \cup {path} |-> IF p = path THEN store ELSE stores[p]]

Synced(s) == [s EXCEPT !.safe = s.acked]

\* A write of the keys up to a number, in one durable unit; in a lazy store
\* it is only queued.
Written(s, c) ==
    LET t == [s EXCEPT !.acked[c.key] = IF @ < c.upto THEN c.upto ELSE @]
    IN  IF s.lazy THEN t ELSE [t EXCEPT !.safe = t.acked, !.units = @ + 1]

\* What a call leaves when it succeeds.
After(c) ==
    LET s == Store(c.at)
    IN  CASE c.op = "open" -> With(c.at, [s EXCEPT !.open = TRUE, !.lazy = c.lazy,
                                                  !.limit = c.limit, !.units = 0])
          [] c.op \in {"put", "batch", "commit"} -> With(c.at, Written(s, c))
          [] c.op = "flush_wal" -> With(c.at, Synced(s))
          [] c.op = "close" -> With(c.at, [Synced(s) EXCEPT !.open = FALSE])
          [] c.op = "remove_all" -> Keep(DOMAIN stores \ Under(c.at))
          [] OTHER -> stores

\* A Close that fails: what was not durable may be gone.
Reduced(s) ==
    {[s EXCEPT !.open = FALSE, !.acked = left, !.safe = left] :
        left \in [memoir : s.safe.memoir .. s.acked.memoir, chunk : s.safe.chunk .. s.acked.chunk]}

\* Calls that something outside the program can make fail.
Fallible == {"mkdir", "open", "close", "put", "batch", "get", "flush_wal", "set_bulk_import",
             "remove_all", "scan", "scan_more", "create_table", "begin", "prepare", "insert",
             "commit", "query", "count", "write_json", "new_run_writer", "finalize"}

\* Calls that cannot succeed in this state: reject_batch_count of the C
\* interface, a key that is not there, and the errors of the program itself.
Refuses(c) ==
    \/ c.op = "batch" /\ c.n > Store(c.at).limit
    \/ c.op = "get" /\ Store(c.at).acked[c.key] <= c.n
    \/ c.op = "finalize" /\ wpc = "rename" /\ final[wid] # Absent
    \/ c.op \in {"fatal", "divide_by_zero"}

\* A group commit, or a checkpoint of SQLite, at any time.
Background(p) ==
    /\ status \in Working /\ stores[p].open /\ stores[p].lazy /\ stores[p].safe # stores[p].acked
    /\ stores' = With(p, Synced(stores[p]))
    /\ UNCHANGED <<runs, flags, status, pc, defers, rows, counted, printed, faults, lost, prepared,
                   wvars>>

-----------------------------------------------------------------------------
(* Ending a process.  Temporary directories that stay are never used       *)
(* again; a store given with -dir is.                                      *)

End(how) ==
    /\ status' = how
    /\ stores' = [p \in DOMAIN stores \cap {<<"dir">>} |-> [stores[p] EXCEPT !.open = FALSE]]
    /\ rows' = IF how \in {"ok", "integrity"} THEN rows ELSE <<>>
    /\ prepared' = IF <<"dir">> \in lost THEN 0
                   ELSE IF how = "ok" /\ flags.program = "ffi_read_tax" /\ flags.dir /\ ~flags.readOnly
                   THEN flags.chunks ELSE prepared
    /\ pc' = 0 /\ defers' = <<>> /\ counted' = 0 /\ printed' = None
    /\ IF wpc = "none" THEN UNCHANGED wvars ELSE Stop
    /\ UNCHANGED <<runs, flags>>

Crash == status \in Working /\ End("crashed") /\ UNCHANGED <<faults, lost>>

-----------------------------------------------------------------------------
(* Calls.                                                                  *)

Running == status = "running" /\ pc <= Len(Scripts[flags])

\* The call to make now: one of the script, or a deferred one.
Deferred == /\ defers # <<>>
            /\ status = "panicking" \/ (Running /\ Scripts[flags][pc].op = "return")
Current == IF Deferred THEN Head(defers) ELSE Scripts[flags][pc]

Pushed(call) == <<call>> \o defers

Advance ==
    /\ pc' = IF status = "running" THEN pc + 1 ELSE pc
    /\ defers' = IF Deferred THEN Tail(defers)
                 ELSE IF Current.op = "defer" THEN Pushed(Current.call) ELSE defers
    /\ printed' = None
    /\ UNCHANGED <<runs, flags, status, prepared>>

Handled == {"row", "print_table", "new_run_writer", "append", "finalize", "gate"}

\* A call succeeds.
Do ==
    /\ Running \/ Deferred
    /\ Current.op \notin Handled /\ ~Refuses(Current)
    /\ stores' = After(Current)
    /\ counted' = LET found == Store(Current.at).acked
                  IN  CASE Current.op = "scan" -> found[Current.key]
                        [] Current.op = "scan_more" -> counted + found[Current.key]
                        [] Current.op = "count" -> found.memoir + found.chunk
                        [] OTHER -> counted
    /\ Advance /\ UNCHANGED <<rows, faults, lost, wvars>>

Abort(err) ==
    IF err = "panic"
    THEN /\ status' = "panicking"
         /\ UNCHANGED <<runs, flags, pc, defers, stores, rows, counted, printed, prepared, wvars>>
    ELSE End("fatal")

\* A call fails, and the program does not go on.
Fail ==
    /\ Running /\ Current.err # "ignore" /\ Current.op \notin {"scan", "scan_more"}
    /\ \/ Refuses(Current) /\ UNCHANGED faults
       \/ /\ Current.op \in Fallible /\ faults < MaxFaults
          /\ faults' = faults + 1
    /\ Abort(Current.err) /\ UNCHANGED lost

\* A call fails, and nobody looks: ScanPrefixKeys returns no keys then.
FailUnseen ==
    /\ Running \/ Deferred
    /\ Current.err = "ignore" \/ Current.op \in {"scan", "scan_more"}
    /\ Current.op \in Fallible \ {"close"} /\ faults < MaxFaults
    /\ faults' = faults + 1
    /\ counted' = IF Current.op = "scan" THEN 0 ELSE counted
    /\ Advance /\ UNCHANGED <<stores, rows, lost, wvars>>

\* Rows are lost: by a Close that fails, which F4KVS.Close does not report,
\* or by an engine that does not recover all of them when it is reopened.
LoseRows ==
    /\ Running \/ Deferred
    /\ faults < MaxFaults /\ faults' = faults + 1
    /\ \/ /\ Current.op = "close" /\ Current.err = "ignore"
          /\ \E s \in Reduced(Store(Current.at)) : stores' = With(Current.at, s)
       \/ /\ Current.op = "open" /\ Store(Current.at).acked # Zero
          /\ \E kind \in DOMAIN Zero :
                /\ Store(Current.at).acked[kind] > 0
                /\ stores' = With(Current.at,
                      [After(Current)[Current.at] EXCEPT !.acked[kind] = 0, !.safe[kind] = 0])
    /\ lost' = IF stores'[Current.at].acked # Store(Current.at).acked
               THEN lost \cup {Current.at} ELSE lost
    /\ Advance /\ UNCHANGED <<rows, counted, wvars>>

\* The last deferred call of a panic.
Panicked == status = "panicking" /\ defers = <<>> /\ End("panic") /\ UNCHANGED <<faults, lost>>

Finish ==
    /\ status = "running" /\ pc = Len(Scripts[flags]) + 1
    /\ End("ok") /\ UNCHANGED <<faults, lost>>

-----------------------------------------------------------------------------
(* Rows.                                                                   *)

Expected == flags.memoirs + flags.chunks

Value(metric) ==
    CASE metric = "row_count" -> counted
      [] metric = "expected_row_count" -> Expected
      [] metric = "integrity_ok" -> (IF counted = Expected THEN 1 ELSE 0)
      [] OTHER -> 0

\* units and durable are history: in how many units the writes since the
\* last row have become durable, and whether all have that should.
Row ==
    /\ Running /\ Current.op = "row"
    /\ LET s == Store(Current.at)
       IN  /\ rows' = Append(rows, [phase |-> Current.phase, profile |-> Current.profile,
                                    metric |-> Current.metric, value |-> Value(Current.metric),
                                    units |-> s.units,
                                    durable |-> Current.phase \in DurablePhases =>
                                                    s.safe = s.acked])
           /\ stores' = With(Current.at, [s EXCEPT !.units = 0])
    /\ Advance /\ UNCHANGED <<counted, faults, lost, wvars>>

Fails(rs) == \E i \in DOMAIN rs : rs[i].phase = "post_restart_row_count"
                                /\ rs[i].metric = "integrity_ok" /\ rs[i].value = 0

hasIntegrityFail == Fails(rows)

\* Mutant: the wrong metric is looked at.
HasIntegrityFailure_rows ==
    \E i \in DOMAIN wlines : wlines[i].metric = "row_count" /\ wlines[i].value = 0

HasIntegrityFailure == Fails(wlines)

\* The end of main: after a run has been published, whatever it shows.
CheckGate ==
    /\ Running /\ Current.op = "gate"
    /\ IF (IF flags.root THEN HasIntegrityFailure ELSE hasIntegrityFail)
       THEN End("integrity") /\ UNCHANGED <<faults, lost>>
       ELSE Advance /\ UNCHANGED <<stores, rows, counted, faults, lost, wvars>>

-----------------------------------------------------------------------------
(* The table.                                                              *)

Phases == {rows[i].phase : i \in DOMAIN rows}
Present(phase) == {rows[i].profile : i \in {j \in DOMAIN rows : rows[j].phase = phase}}

\* Mutant: the longer time wins.
speedRatioLine_swapped(a, x, b, y) ==
    IF x = 0 \/ y = 0 THEN {} ELSE IF x > y THEN {[faster |-> a, slower |-> b]}
    ELSE {[faster |-> b, slower |-> a]}

\* "a is faster than b", or the other way round; nothing without durations.
speedRatioLine(a, x, b, y) ==
    IF x = 0 \/ y = 0 THEN {} ELSE IF x > y THEN {[faster |-> b, slower |-> a]}
    ELSE {[faster |-> a, slower |-> b]}

\* The duration of the first row of a profile.
phaseMs(phase, ms, p) == IF p \in Present(phase) THEN ms[p] ELSE 0

\* That of its last row: the rows of post_restart_row_count are sorted by
\* metric, and the last one, row_count, has none.
ratioLine(phase, ms, a, b) ==
    LET last(p) == IF phase = "post_restart_row_count" THEN 0 ELSE phaseMs(phase, ms, p)
    IN  speedRatioLine(<<phase, a>>, last(a), <<phase, b>>, last(b))

phaseCompares(phase, ms, base) ==
    LET ratio(a, b) == ratioLine(phase, ms, a, b)
        batched == "chunk_batch_put_batched"
    IN  ratio("f4kvs_wal_segment", "sqlite_wal_full") \cup ratio("f4kvs_wal_indexed", "sqlite_wal_full")
        \cup (IF phase # "chunk_batch_put" THEN {}
              ELSE speedRatioLine(<<phase, "f4kvs_wal_indexed">>, phaseMs(phase, ms, "f4kvs_wal_indexed"),
                                  <<phase, "f4kvs_wal_segment">>, phaseMs(phase, ms, "f4kvs_wal_segment")))
        \cup ratio("f4kvs_wal_frame", "sqlite_wal_full") \cup ratio("f4kvs_wal_segment", "f4kvs_wal_frame")
        \cup (IF phase # "chunk_batch_put_bulk_import" THEN {}
              ELSE UNION {speedRatioLine(<<batched, p>>, phaseMs(batched, base, p),
                                         <<phase, p>>, phaseMs(phase, ms, p)) :
                    p \in {"f4kvs_wal_segment", "f4kvs_wal_frame", "f4kvs_group_commit_10ms"}})
        \cup ratio("f4kvs_group_commit_10ms", "sqlite_wal_full")

\* Durations are chosen when they are printed, one phase at a time.
printTable ==
    /\ Running /\ Current.op = "print_table"
    /\ \E phase \in Phases, ms \in Timings :
          \E base \in IF phase = "chunk_batch_put_bulk_import" THEN Baselines ELSE {ms} :
             printed' = [phase |-> phase, ms |-> [p \in Present(phase) |-> ms[p]],
                         base |-> [p \in Present(phase) |-> base[p]],
                         lines |-> phaseCompares(phase, ms, base)]
    /\ pc' = pc + 1
    /\ UNCHANGED <<runs, flags, status, defers, stores, rows, counted, faults, lost, prepared, wvars>>

-----------------------------------------------------------------------------
(* The run writer.                                                         *)

phaseResultToLong(r) ==
    LET line(metric, value) == [engine |-> r.profile, phase |-> r.phase, metric |-> metric,
                                value |-> value]
    IN  IF r.metric # "" THEN <<line(r.metric, r.value)>>
        ELSE <<line("duration_ms", 0), line("ops_per_s", 0)>>

\* The lines of the first n rows.
longLines[n \in 0 .. Len(rows)] ==
    IF n = 0 THEN <<>> ELSE longLines[n - 1] \o phaseResultToLong(rows[n])

AppendResults ==
    /\ Running /\ Current.op = "append"
    /\ AppendPhaseResults(longLines[Len(rows)])
    /\ Advance /\ UNCHANGED <<stores, rows, counted, faults, lost>>

\* NewRunWriter and Finalize, one step of theirs at a time.  That RemoveAll
\* fails and goes unnoticed counts as a fault.
Writer ==
    /\ Running
    /\ \/ /\ Current.op = "new_run_writer"
          /\ NewRunWriter(flags.id) \/ (wpc # "none" /\ WriterStep)
       \/ Current.op = "finalize" /\ (Finalize \/ WriterStep)
    /\ IF wpc = "remove" /\ wpc' = "rename" /\ final'[wid] # Absent
       THEN faults < MaxFaults /\ faults' = faults + 1 ELSE UNCHANGED faults
    /\ IF wpc' \in {"append", "done"} THEN Advance
       ELSE UNCHANGED <<runs, flags, status, pc, defers, printed, prepared>>
    /\ UNCHANGED <<stores, rows, counted, lost>>

-----------------------------------------------------------------------------
Works ==
    \/ Do \/ Fail \/ FailUnseen \/ LoseRows \/ Panicked \/ Finish \/ Crash
    \/ Row \/ CheckGate \/ printTable \/ AppendResults \/ Writer
    \/ \E p \in DOMAIN stores : Background(p)

Next == Works \/ \E f \in Flags : Launch(f)

Spec == Init /\ [][Next]_vars

-----------------------------------------------------------------------------
(* Properties.                                                             *)

Harness == flags # None /\ flags.program = "embed_vs_sqlite"

\* What the user of a program has to see to: at most as many memoirs as the
\* engine takes in one batch, some keys to read, a store to read from.
Sensible(f) ==
    CASE f.program = "embed_vs_sqlite" ->
            /\ parseProfiles(f.profiles) # {}
            /\ f.gets > 0 => f.memoirs > 0 /\ f.chunks > 0
            /\ f.memoirs <= engineMaxBatchDefault \/ BatchPutSize(f) = 0
      [] f.program = "ffi_read_tax" ->
            /\ f.chunks <= engineMaxBatchDefault
            /\ f.gets > 0 /\ ~f.prepareOnly =>
                  f.chunks > 0 /\ (f.readOnly => f.dir /\ f.chunks <= prepared)
      [] f.program = "f4kvs_batch_probe" -> f.chunks <= engineMaxBatchDefault
      [] OTHER -> TRUE

\* With sensible flags a program fails only if a call fails that has no
\* reason to: no batch is above the limit of the engine it was opened with
\* (openOptsForProfile), every key that is read is there, in particular those
\* that an earlier -prepare-only run has left, and the integrity check counts
\* what was written.
NoSelfInflictedFailure ==
    status \in {"fatal", "panic", "integrity"} => faults > 0 \/ ~Sensible(flags)

\* "Fail -> non-zero exit": the harness never exits with success when an
\* engine it checks has lost rows between the ingest and the count, be it by
\* a Close whose failure F4KVS.Close swallows.
NoSilentLoss ==
    status = "ok" /\ Harness => \A p \in Known : RestartDir(p) \notin lost

\* A row of a phase that stands for durable ingest is recorded when all that
\* was put is durable, with every WAL: the FlushWAL calls before result.
DurableRows ==
    \A i \in DOMAIN rows : rows[i].profile # "sqlite_wal_normal" => rows[i].durable

\* The README's table of durable units: with -fair or a batch size of 0 the
\* batched ingest is one durable unit on both sides; otherwise that of f4kvs
\* is one per slice, the last of which may be smaller.
FairUnits ==
    \A i \in DOMAIN rows :
        /\ rows[i].phase = "chunk_batch_put_batched" /\ rows[i].profile # "sqlite_wal_normal"
        /\ flags.chunks > 0
        => LET size == BatchPutSize(flags)
           IN  rows[i].units = IF rows[i].profile = "sqlite_wal_full" \/ size = 0 THEN 1
                               ELSE (flags.chunks + size - 1) \div size

\* A comparison under the table names as faster what took no longer, and
\* segment WAL and SQLite are compared in each phase both have a time for,
\* but for one: in post_restart_row_count both have a duration_ms, and nothing
\* is compared, because ratioLine ends with the row_count, which has no time.
ComparesNameFaster ==
    printed # None =>
        LET ms(name) == IF name[1] = printed.phase THEN printed.ms[name[2]] ELSE printed.base[name[2]]
            both == {"f4kvs_wal_segment", "sqlite_wal_full"}
        IN  /\ \A line \in printed.lines : 0 < ms(line.faster) /\ ms(line.faster) <= ms(line.slower)
            /\ IF printed.phase = "post_restart_row_count" THEN printed.lines = {}
               ELSE both \subseteq DOMAIN printed.ms /\ (\A p \in both : printed.ms[p] > 0) =>
                       \E line \in printed.lines : {line.faster[2], line.slower[2]} = both

\* After a successful run with -runs-root the published directory is whole
\* and of this run, has lines for just the profiles that were asked for, and
\* no two lines for the same engine, phase and metric.
PublishedCovers ==
    status = "ok" /\ Harness /\ flags.root =>
        /\ Whole(final[flags.id]) /\ final[flags.id].results.life = life
        /\ LET lines == final[flags.id].results.lines
           IN  /\ {lines[i].engine : i \in DOMAIN lines} = Wanted(flags)
               /\ \A i, j \in DOMAIN lines :
                     /\ lines[i].engine = lines[j].engine /\ lines[i].phase = lines[j].phase
                     /\ lines[i].metric = lines[j].metric
                     => i = j

\* A program that has met no error removes a directory only when the engines
\* in it are closed: the order of the deferred calls.
RemovesClosedStores ==
    [][status = "running" /\ status' = "running" =>
          \A p \in DOMAIN stores \ DOMAIN stores' : ~stores[p].open]_vars

\* "FATAL: post_restart integrity_ok=0 (see results.jsonl)": when that ends a
\* run with -runs-root, its results.jsonl is published, with the line that
\* shows the failure, and the whole directory is of this run.  Finalize comes
\* before the check, and one that fails ends the run without the message.
FailuresArePublished ==
    status = "integrity" /\ Harness /\ flags.root =>
        LET dir == final[flags.id]
        IN  Whole(dir) /\ dir.results.life = life /\ Fails(dir.results.lines)

\* "Integrity gate: reopen + row count for each engine that ran."
GateCoversEveryEngine ==
    status = "ok" /\ Harness =>
        \A i \in DOMAIN rows : \E j \in DOMAIN rows :
            rows[j].profile = rows[i].profile /\ rows[j].metric = "integrity_ok"
=============================================================================
