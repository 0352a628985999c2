----------------------------- MODULE BenchTraces -----------------------------
(* What there is to say about the scripts of the benchmark programs: which *)
(* calls they consist of, what comes before a row, and the traces of what  *)
(* holds before each call.  BenchScriptProofs shows it of every script,    *)
(* and BenchHarnessProofs concludes from it what the programs do.          *)
EXTENDS BenchPrograms, Integers

PathNames == Known \cup {"tmp", "dir", "tmp-batch", "restart", "chunk_durable", "chunk_batched",
                        "chunk_bulk_import", "wal_full", "wal_normal", "delete_full"}
Paths == Seq(PathNames)
Errs == {"exit", "close", "panic", "ignore"}
Keys == {"memoir", "chunk"}
WriterOps == {"new_run_writer", "append", "finalize"}
PlainOps == {"fatal", "mkdir", "print_table", "write_json", "gate", "return", "close", "flush_wal",
             "set_bulk_import", "remove_all", "create_table", "begin", "prepare", "insert", "query",
             "divide_by_zero"}
Put_Off == [op : {"close", "remove_all"}, at : Paths, err : {"ignore"}]

\* The calls of a program, by their fields.
SimpleCalls == [op : PlainOps \cup WriterOps, at : Paths, err : Errs]
OpenCalls == [op : {"open"}, at : Paths, err : Errs, lazy : BOOLEAN, limit : Nat]
WriteCalls == [op : {"put", "batch", "commit"}, at : Paths, err : Errs, key : Keys, n : Int, upto : Int]
ReadCalls == [op : {"get", "scan", "scan_more"}, at : Paths, err : Errs, key : Keys, n : Int]
CountCalls == [op : {"count"}, at : Paths, err : Errs, key : {"all"}, n : Int]
DeferCalls == [op : {"defer"}, at : Paths, err : Errs, call : Put_Off]
RowCalls == [op : {"row"}, at : Paths, err : Errs, phase : RowPhases, profile : Known,
             metric : Metrics \cup {""}]
CallSet == SimpleCalls \cup OpenCalls \cup WriteCalls \cup ReadCalls \cup CountCalls \cup DeferCalls
           \cup RowCalls

\* The stores in which a write may return before it is durable.
Lazy_Dirs(p) == {Dir(p), Append(Dir(p), "chunk_durable"), RestartDir(p)}
LazyPaths ==
    Lazy_Dirs("f4kvs_group_commit_1ms") \cup Lazy_Dirs("f4kvs_group_commit_10ms")
    \cup Lazy_Dirs("f4kvs_group_commit_idle")
    \cup {Dir("sqlite_wal_normal"), RestartDir("sqlite_wal_normal"),
          <<"tmp", "chunk_batched", "sqlite_wal_normal">>, Dir("wal_normal")}

\* A call that is allowed in a script with the flags f: a store is opened in
\* the same way each time, and only embed_vs_sqlite records and publishes.
Allowed(f) ==
    {c \in CallSet :
        /\ c.op = "open" => (c.lazy <=> c.at \in LazyPaths)
        /\ c.op \in {"row"} \cup WriterOps => f.program = "embed_vs_sqlite"}

\* One that no durability depends on.
NoDurableRow(c) ==
    c.op = "row" => \/ c.phase \notin DurablePhases \/ c.profile = "sqlite_wal_normal"
                    \/ c.at \notin LazyPaths

\* A row of batched ingest whose durable units are counted, and how many
\* there have to be: one, or one per slice.
Batched(c) ==
    c.op = "row" /\ c.phase = "chunk_batch_put_batched" /\ c.profile # "sqlite_wal_normal"
UnitsOf(f, profile) ==
    LET size == BatchPutSize(f)
    IN  IF profile = "sqlite_wal_full" \/ size = 0 THEN 1 ELSE (f.chunks + size - 1) \div size

\* The store of the call at place i has been flushed just before.
Flushed(s, i) ==
    \/ i > 1 /\ s[i - 1] = FlushWAL(s[i].at)
    \/ i > 2 /\ s[i - 1] = SetBulkImport(s[i].at) /\ s[i - 2] = FlushWAL(s[i].at)

\* Calls that write to no store, and open none.
QuietOps == {"defer", "set_bulk_import", "flush_wal", "create_table", "begin", "prepare", "insert"}

\* Between call a of a script, which sets the units of a store to zero, and
\* call i there are k writes to that store, just after call b, and nothing
\* else that matters to it.
Window(s, i, a, b, k) ==
    /\ k \in Nat /\ a <= b /\ b + k < i
    /\ s[a].op \in {"open", "row"} /\ s[a].at = s[i].at /\ s[a].err = "exit"
    /\ \A j \in a + 1 .. i - 1 :
          IF j \in b + 1 .. b + k
          THEN s[j].op \in {"put", "batch", "commit"} /\ s[j].at = s[i].at /\ s[j].err = "exit"
          ELSE s[j].op \in QuietOps

\* The writes before call i are as many as they should be.
Counted(f, s, i) ==
    /\ s[i].at \notin LazyPaths
    /\ f.chunks > 0 => \E a, b \in 1 .. Len(s) : Window(s, i, a, b, UnitsOf(f, s[i].profile))

GoodAt(f, s, i) ==
    /\ NoDurableRow(s[i]) \/ Flushed(s, i)
    /\ Batched(s[i]) => Counted(f, s, i)

Good(f) == {s \in Seq(Allowed(f)) : \A i \in 1 .. Len(s) : GoodAt(f, s, i)}

-----------------------------------------------------------------------------
(* Traces: what holds before and after each call of a script.              *)

\* The scripts that lead from a to b: each call is a move of R, a set of
\* triples of what holds before a call, the call, and what holds after it.
Leads(R, a, b) ==
    {s \in Seq(CallSet) : \E g : /\ g[1] = a /\ g[Len(s) + 1] = b
                                 /\ \A i \in 1 .. Len(s) : <<g[i], s[i], g[i + 1]>> \in R}

\* What is written about the path q is removed with path.
Below(q, path) == Len(path) <= Len(q) /\ SubSeq(q, 1, Len(path)) = path

\* What a call, or the deferred call that it runs, does to the deferred calls
\* and to the stores that may be open; only closed stores are removed.
StackMove(u, c, v) ==
    LET e == IF c.op = "return" /\ u[1] # <<>> THEN Head(u[1]) ELSE c
    IN  /\ v[1] = IF c.op = "return" /\ u[1] # <<>> THEN Tail(u[1])
                  ELSE IF c.op = "defer" THEN <<c.call>> \o u[1] ELSE u[1]
        /\ (IF e.op = "open" THEN u[2] \cup {e.at} ELSE IF e.op = "close" THEN u[2] \ {e.at} ELSE u[2])
              \subseteq v[2]
        /\ e.op = "remove_all" => \A x \in u[2] : ~Below(x, e.at)

\* The deferred calls and the stores alone.
Stacks ==
    {m \in (Seq(Put_Off) \X (SUBSET Paths)) \X CallSet \X (Seq(Put_Off) \X (SUBSET Paths)) :
        StackMove(m[1], m[2], m[3])}

InertOps == {"put", "batch", "commit", "get", "scan", "scan_more", "count", "flush_wal", "set_bulk_import",
             "create_table", "begin", "prepare", "insert", "query", "divide_by_zero", "mkdir"}
Inert(at) == {c \in CallSet : c.at = at /\ c.op \in InertOps}

\* Calls that fill a store with no more than the keys of a run.
Limit(f, key) == IF key = "memoir" THEN f.memoirs ELSE f.chunks
Filling(f, at) ==
    {c \in Inert(at) :
        \/ c.op \in {"set_bulk_import", "flush_wal", "create_table", "begin", "prepare", "insert"}
        \/ c.op \in {"put", "batch", "commit"} /\ c.key \in Keys /\ c.upto \in Int /\ c.upto <= Limit(f, c.key)}

\* The stages of the integrity check of a profile.
Stages == {"before", "fill", "shut", "again", "half", "full", "rows", "done", "appended", "passed"}
Ending == {"new_run_writer", "append", "finalize", "gate"}
Away(r, c) == c.at # r /\ (c.op = "defer" => c.call.at # r)

\* From the creation of the store r to its rows, and on to the end of main.
StageMove(f, r, a, c, b) ==
    \/ a = "before" /\ b = a /\ (Away(r, c) \/ c.op = "remove_all")
    \/ <<a, b>> \in {<<"before", "fill">>, <<"shut", "again">>} /\ c.op = "open" /\ c.at = r /\ c.err = "exit"
    \/ a = "fill" /\ b = a /\ c \in Filling(f, r)
    \/ <<a, b>> \in {<<"fill", "shut">>, <<"full", "rows">>} /\ c.op = "close" /\ c.at = r
    \/ <<a, b>> = <<"again", "half">> /\ c.op = "scan" /\ c.at = r /\ c.key = "memoir"
    \/ <<a, b>> = <<"half", "full">> /\ c.op = "scan_more" /\ c.at = r /\ c.key = "chunk"
    \/ <<a, b>> = <<"again", "full">> /\ c.op = "count" /\ c.at = r /\ c.err = "close"
    \/ a = "rows" /\ b = a /\ c.op = "row" /\ c.at = r
    \/ /\ <<a, b>> = <<"rows", "done">> /\ c.op = "row" /\ c.at = r
       /\ c.phase = "post_restart_row_count" /\ c.metric = "integrity_ok"
    \/ a = "done" /\ b = a /\ Away(r, c) /\ c.op \notin Ending
    \/ <<a, b>> = <<"done", "appended">> /\ c.op = "append" /\ f.root
    \/ a = "appended" /\ b = a /\ c.op = "finalize"
    \/ a = (IF f.root THEN "appended" ELSE "done") /\ b = "passed" /\ c.op = "gate"
    \/ a = "passed" /\ b = a /\ c.op = "return"
    \/ c.op = "fatal"
Staging(f, p) == {m \in Stages \X CallSet \X Stages : StageMove(f, RestartDir(p), m[1], m[2], m[3])}

\* The order of the rows of a profile.
Rank(c) ==
    CASE c.phase = "memoir_batch_put" -> 1
      [] c.phase = "memoir_random_get" -> 2
      [] c.phase = "chunk_batch_put" -> 3
      [] c.phase = "chunk_batch_put_flush" -> 4
      [] c.phase \in {"chunk_batch_put_durable", "chunk_put_group_commit"} -> 5
      [] c.phase = "chunk_batch_put_batched" -> 6
      [] c.phase = "chunk_batch_put_bulk_import" -> 7
      [] c.phase = "chunk_prefix_scan" -> 8
      [] c.phase = "chunk_random_get" -> 9
      [] OTHER -> (CASE c.metric = "duration_ms" -> 10
                     [] c.metric = "row_count" -> 11
                     [] c.metric = "expected_row_count" -> 12
                     [] c.metric = "integrity_ok" -> 13
                     [] OTHER -> 0)

\* The rows of one profile alone.
Ranks(p) ==
    {m \in Nat \X CallSet \X Nat :
        IF m[2].op = "row" /\ m[2].profile = p THEN m[1] < Rank(m[2]) /\ Rank(m[2]) <= m[3] ELSE m[3] = m[1]}

\* The profiles whose stores are checked after a restart.
Gated == SQLite \cup {"f4kvs_wal_segment", "f4kvs_group_commit_1ms", "f4kvs_group_commit_10ms"}

\* The rank up to which a profile has rows in the end.
LastRank(p) == IF p \in Gated THEN 13 ELSE 9

\* A run with -runs-root: its writer is made, has the lines, and has published
\* them before the integrity check.
Publications == {"none", "open", "appended", "published"}
PublishMove(f, a, c, b) ==
    \/ <<a, b>> = <<"none", "open">> /\ c.op = "new_run_writer" /\ c.err = "exit"
    \/ <<a, b>> = <<"open", "appended">> /\ c.op = "append"
    \/ <<a, b>> = <<"appended", "published">> /\ c.op = "finalize" /\ c.err = "exit"
    \/ a \in {"none", "open"} /\ b = a /\ c.op \notin WriterOps /\ (c.op = "gate" => ~f.root)
    \/ a = "published" /\ b = a /\ c.op \notin WriterOps \cup {"row"}
    \/ c.op = "fatal"
Publishing(f) == {m \in Publications \X CallSet \X Publications : PublishMove(f, m[1], m[2], m[3])}
=============================================================================
