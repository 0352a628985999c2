--------------------------- MODULE MCBenchHarness ---------------------------
(* A small instance of BenchHarness for TLC: batches of 2 where the engine *)
(* takes 10_000, and bulk-import mode from 2 chunks on.                    *)
EXTENDS BenchHarness

CONSTANT r

MCRunIds == {r}
MCNames == STRING

Embed(profiles, chunks, memoirs, gets, batch, maxPerCommit) ==
    [program |-> "embed_vs_sqlite", profiles |-> profiles, relaxed |-> TRUE, chunks |-> chunks,
     memoirs |-> memoirs, gets |-> gets, batch |-> batch, fair |-> FALSE,
     maxPerCommit |-> maxPerCommit, root |-> FALSE, out |-> FALSE, id |-> r]

\* One profile at a time, with few and with many chunks, on both paths.
OneProfile ==
    {Embed(<<p>>, chunks, 1, 1, batch, maxPerCommit) :
        p \in Known, chunks \in {1, 3}, batch \in {0, 2, 3}, maxPerCommit \in {0, 2}}

\* Memoirs and keys at the limits, and none at all.
Edges ==
    {Embed(<<p>>, chunks, memoirs, gets, batch, 2) :
        p \in {"f4kvs_wal_segment", "f4kvs_group_commit_1ms", "sqlite_wal_full"}, chunks \in {0, 2},
        memoirs \in {0, 2, 3}, gets \in {0, 3}, batch \in {0, 1}}

\* Sets of profiles.
Sets ==
    {[Embed(names, 1, 1, 1, 2, 0) EXCEPT !.relaxed = relaxed, !.fair = fair, !.root = TRUE] :
        names \in {<<"all">>, <<"">>, <<"", "">>, <<"product">>, <<"durable_compare", "other">>,
                   <<"product", "durable_compare">>, <<"other", "all">>,
                   <<"f4kvs_wal_frame", "all", "other">>},
        relaxed \in BOOLEAN, fair \in BOOLEAN}

\* Published runs, one after the other under the same run id.
Published ==
    {[Embed(<<p>>, 1, 1, 0, 2, 0) EXCEPT !.root = TRUE, !.out = TRUE] :
        p \in {"f4kvs_wal_segment", "sqlite_wal_full"}}

\* Published runs of more chunks than are put one by one.
Scaled ==
    {[Embed(<<p>>, 3, 1, 1, 2, 2) EXCEPT !.root = TRUE] :
        p \in {"f4kvs_wal_segment", "f4kvs_group_commit_10ms"}}

ReadTax ==
    {[program |-> "ffi_read_tax", chunks |-> chunks, gets |-> 2, bulkImport |-> (chunks = 2),
      prepareOnly |-> only = "prepare", readOnly |-> only = "read", dir |-> dir, out |-> TRUE] :
        chunks \in 0 .. 3, only \in {"prepare", "read", "both"}, dir \in BOOLEAN}

Probes == {[program |-> p, chunks |-> 2] : p \in {"f4kvs_batch_probe", "sqlite_fsync_probe"}}

Later == Published \cup {f \in ReadTax : f.dir}
MCFlags == OneProfile \cup Edges \cup Sets \cup Published \cup Scaled \cup ReadTax \cup Probes

\* Any two of the profiles that are compared have any durations.
Compared == {"f4kvs_wal_segment", "f4kvs_wal_frame", "f4kvs_wal_indexed",
             "f4kvs_group_commit_10ms", "sqlite_wal_full"}
MCTimings ==
    {[p \in Known |-> IF p = a THEN x ELSE IF p = b THEN y ELSE 1] :
        a \in Compared, b \in Compared, x \in 0 .. 2, y \in 0 .. 2}
MCBaselines == {[p \in Known |-> n] : n \in 0 .. 2}

-----------------------------------------------------------------------------
\* Programs that share nothing with the next one are followed by none, and
\* no call fails in those with many profiles.
MCNext ==
    \/ Works /\ (flags \in Sets => faults' = 0)
    \/ runs = 0 /\ \E f \in Flags : Launch(f)
    \/ runs > 0 /\ flags \in Later
       /\ \E f \in Later : f.program = flags.program /\ Launch(f)

\* MCSpec implies Spec.
MCSpec == Init /\ [][MCNext]_vars
=============================================================================
