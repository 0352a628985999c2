------------------------------ MODULE MCFfiOpen ------------------------------
(* A small instance of FfiOpen for TLC.  Sizes are in units that keep the  *)
(* numbers small.                                                          *)
EXTENDS FfiOpen, TLC

CONSTANTS t1, t2, p1, p2, seg

MCThreads == {t1, t2}
MCPids == {p1, p2}
Symmetry == Permutations(MCThreads) \cup Permutations(MCPids)

\* A path, one cut short by its NUL, one that is not text, and none.
MCPaths == {<<seg>>, <<seg, Nul, seg>>, <<NotUtf8>>, <<>>}

Zeros == [f \in Fields |-> 0]

\* What callers say about group commit, and about the rest.
WalChoices ==
    {[Zeros EXCEPT !.group_commit_enabled = e, !.group_commit_max_wait_ms = w,
                   !.group_commit_max_batch_size = b, !.group_commit_wait_durable = a,
                   !.wal_durability = l, !.group_commit_idle_flush_ms = i] :
        e \in {0, 1}, w \in {0, 7}, b \in {0, 5}, a \in {0, 1}, l \in {0, 1, 2, 3}, i \in {0, 9}}
TreeChoices ==
    {[Zeros EXCEPT !.wal_engine = e, !.max_batch_size = b, !.compaction_background = c,
                   !.max_sstables_per_level = l, !.memtable_max_size = m,
                   !.sstable_target_size = g, !.sstable_max_size = x] :
        e \in {0, 2}, b \in {0, 5}, c \in {0, 1, 2}, l \in {0, 5}, m \in {0, 5},
        g \in {0, 100, 200}, x \in {0, 50, 150}}

\* The legacy layout, headers without the last one or more fields, the
\* present header and a later one.
MCSizes == {0, 20, 32, 44, 48, 56}
MCStructs == {[memory |-> m, size |-> n] : m \in WalChoices \cup TreeChoices, n \in MCSizes}

\* Flags are booleans in Go.
MCGoOptions ==
    {[m EXCEPT !.group_commit_enabled = (@ = 1), !.group_commit_wait_durable = (@ = 1)] :
        m \in WalChoices \cup TreeChoices}

MCDefaults ==
    [group_commit_enabled |-> FALSE, group_commit_max_wait |-> 10,
     group_commit_max_batch_size |-> 1000, group_commit_wait_durable |-> FALSE,
     group_commit_idle_flush |-> None, wal_engine |-> "Segment", max_batch_size |-> 10000,
     background_enabled |-> TRUE, max_sstables_per_level |-> 10, memtable_max_size |-> 64,
     sstable_target_size |-> 64, sstable_max_size |-> 128]

MCPreset ==
    [Strict |-> [group_commit_enabled |-> FALSE],
     Amortized |-> [group_commit_enabled |-> TRUE, group_commit_wait_durable |-> FALSE],
     Buffered |-> [group_commit_enabled |-> FALSE, group_commit_idle_flush |-> 20]]

-----------------------------------------------------------------------------
\* All options for the first engine that is opened, none for later ones: what
\* two threads do with two engines does not depend on their configurations.
First == run = 1 /\ counter = 0 /\ \A t \in Threads : dir[t] = None
Configured == \E t \in Threads : asked[t] # None

MCNext ==
    \/ First /\ \E t \in Threads : Opens(t, Structs, GoOptions)
    \/ ~Configured /\ \E t \in Threads : dir[t] = None /\ Opens(t, {}, {})
    \/ Start \/ Exit \/ \E t \in Threads : Goes(t)

\* MCSpec implies Spec.
MCSpec == Init /\ [][MCNext]_vars
=============================================================================
