---------------------------- MODULE FfiOpenProofs ----------------------------
(* Proofs about FfiOpen, for any threads, process ids, paths and options:  *)
(* an ephemeral engine has its directory to itself, and an engine has the  *)
(* configuration that the header describes.                                *)
EXTENDS FfiOpen, TLAPS

\* The variables as far as the proof needs their types.
AreTyped ==
    /\ run \in Nat /\ counter \in Nat /\ counter <= MaxEngines /\ pid \in Pids \cup {None}
    /\ DOMAIN disk = Dirs
    /\ \A d \in Ephemeral : disk[d] \subseteq 0 .. run
    /\ DOMAIN dir = Threads /\ up \in [Threads -> BOOLEAN]
    /\ DOMAIN found = Threads

\* The directories of the present process: those in use have numbers below
\* the counter, and those above it hold nothing of this run yet.
Numbered ==
    /\ \A t \in Threads : dir[t] \in Ephemeral => dir[t][1] = pid /\ dir[t][2] < counter
    /\ \A n \in 0 .. MaxEngines : pid # None /\ counter <= n => run \notin disk[<<pid, n>>]

\* A directory that is about to be opened holds nothing of this run.
Fresh ==
    \A t \in Threads :
        /\ dir[t] \in Ephemeral /\ ~up[t] => run \notin disk[dir[t]]
        /\ ~up[t] => found[t] = {}
        /\ up[t] => dir[t] # None

OpenInv == AreTyped /\ Numbered /\ Fresh /\ OwnDirectory

-----------------------------------------------------------------------------
\* What is used of the constants.
LEMMA Constants == MaxEngines \in Nat /\ None \notin Pids /\ None \notin Ephemeral
  BY OpenAssumption, Zenon

\* At the start.
LEMMA InitOpenInv == Init => OpenInv
  BY Constants DEF Init, OpenInv, AreTyped, Numbered, Fresh, OwnDirectory, Dirs, Ephemeral

\* A new process: nothing on disk is of its run.
LEMMA StartOpenInv ==
    ASSUME OpenInv, Start PROVE OpenInv'
<1> USE DEF OpenInv, Start
<1>1. AreTyped'
  BY Constants DEF AreTyped
<1>2. \A t \in Threads : dir[t] \notin Ephemeral
  BY Constants, Zenon DEF Numbered, Ephemeral
<1>3. \A d \in Ephemeral : run' \notin disk[d]
  BY DEF AreTyped
<1>4. Numbered'
  BY <1>2, <1>3, Zenon DEF Numbered, Ephemeral, AreTyped
<1>5. Fresh' /\ OwnDirectory'
  BY <1>2, Zenon DEF Fresh, OwnDirectory
<1> QED
  BY <1>1, <1>4, <1>5, Zenon

\* A process ends.
LEMMA ExitOpenInv ==
    ASSUME OpenInv, Exit PROVE OpenInv'
  BY Constants, Zenon DEF OpenInv, Exit, AreTyped, Numbered, Fresh, OwnDirectory

\* An ephemeral engine takes the next number.
LEMMA NewOpenInv ==
    ASSUME OpenInv, NEW t \in Threads, f4kvs_engine_new(t) PROVE OpenInv'
<1> USE DEF OpenInv
<1>1. /\ counter < MaxEngines /\ counter' = counter + 1 /\ pid # None /\ dir[t] = None
      /\ dir' = [dir EXCEPT ![t] = <<pid, counter>>]
      /\ UNCHANGED <<run, pid, disk, up, found>>
  BY Zenon DEF f4kvs_engine_new, Begin, Idle, unique_data_dir
<1>2. <<pid, counter>> \in Ephemeral /\ run \notin disk[<<pid, counter>>]
  <2>1. pid \in Pids /\ counter \in 0 .. MaxEngines
    BY <1>1, Constants DEF AreTyped
  <2> QED
    BY <1>1, <2>1 DEF AreTyped, Numbered, Ephemeral
<1>3. AreTyped'
  <2>1. counter' \in Nat /\ counter' <= MaxEngines
    BY <1>1, Constants DEF AreTyped
  <2>2. DOMAIN dir' = Threads
    BY <1>1, Zenon DEF AreTyped
  <2> QED
    BY <1>1, <2>1, <2>2, Zenon DEF AreTyped
<1>4. \A u \in Threads : dir'[u] = IF u = t THEN <<pid, counter>> ELSE dir[u]
  BY <1>1, Zenon DEF AreTyped
<1>5. Numbered'
  <2>1. \A u \in Threads : dir'[u] \in Ephemeral => dir'[u][1] = pid /\ dir'[u][2] < counter'
    <3> TAKE u \in Threads
    <3>1. CASE u = t
      BY <1>1, <1>4, <3>1 DEF AreTyped
    <3>2. CASE u # t
      BY <1>1, <1>2, <1>4, <3>2 DEF Numbered, AreTyped, Ephemeral
    <3> QED
      BY <3>1, <3>2, Zenon
  <2>2. \A n \in 0 .. MaxEngines : counter' <= n => run \notin disk[<<pid, n>>]
    BY <1>1, Constants DEF Numbered, AreTyped
  <2> QED
    BY <1>1, <2>1, <2>2, Zenon DEF Numbered
<1>6. ~up[t]
  BY <1>1, Zenon DEF Fresh
<1>7. Fresh'
  BY <1>1, <1>2, <1>4, <1>6, Constants DEF Fresh
<1>8. OwnDirectory'
  <2>1. \A u \in Threads : dir[u] # <<pid, counter>>
    BY <1>2 DEF Numbered, AreTyped
  <2>2. found[t] = {}
    BY <1>6, Zenon DEF Fresh
  <2> QED
    BY <1>1, <1>2, <1>4, <2>1, <2>2 DEF OwnDirectory
<1> QED
  BY <1>3, <1>5, <1>7, <1>8, Zenon

\* An engine in a directory that its caller names, or a refused path.
LEMMA PathOpenInv ==
    ASSUME OpenInv, NEW t \in Threads, NEW d, NEW options, NEW o, d \notin Ephemeral,
           (d = None /\ UNCHANGED vars)
           \/ (d # None /\ Begin(t, d, options, o) /\ UNCHANGED counter)
    PROVE  OpenInv'
<1> USE DEF OpenInv
<1>1. CASE UNCHANGED vars
  BY <1>1, Zenon DEF vars, AreTyped, Numbered, Fresh, OwnDirectory
<1>2. CASE d # None /\ Begin(t, d, options, o) /\ UNCHANGED counter
  <2>1. /\ dir' = [dir EXCEPT ![t] = d] /\ UNCHANGED <<counter, run, pid, disk, up, found>>
        /\ dir[t] = None
    BY <1>2, Zenon DEF Begin, Idle
  <2>2. \A u \in Threads : dir'[u] = IF u = t THEN d ELSE dir[u]
    BY <2>1, Zenon DEF AreTyped
  <2>3. AreTyped' /\ Numbered'
    BY <2>1, <2>2, Zenon DEF AreTyped, Numbered
  <2>4. Fresh' /\ OwnDirectory'
    BY <1>2, <2>1, <2>2 DEF Fresh, OwnDirectory
  <2> QED
    BY <2>3, <2>4, Zenon
<1> QED
  BY <1>1, <1>2, Zenon

\* All calls that open an engine.
LEMMA OpensOpenInv ==
    ASSUME OpenInv, NEW t \in Threads, Opens(t, Structs, GoOptions) PROVE OpenInv'
<1>1. \A path \in Paths \cup {None} : validate_data_dir(path) \notin Ephemeral
  BY OpenAssumption, Constants, Zenon DEF validate_data_dir
<1>2. \A path \in Paths : validate_data_dir(CString(path)) \notin Ephemeral
  BY OpenAssumption, Zenon
<1>3. CASE f4kvs_engine_new(t) \/ NewMemoryEngine(t)
  BY <1>3, NewOpenInv, Zenon DEF NewMemoryEngine
<1>4. ASSUME NEW path, validate_data_dir(path) \notin Ephemeral, f4kvs_engine_open(t, path)
      PROVE  OpenInv'
  BY <1>4, PathOpenInv, Zenon DEF f4kvs_engine_open
<1>5. ASSUME NEW path, validate_data_dir(path) \notin Ephemeral, NEW p, NEW options,
             OpenEx(t, path, p, options)
      PROVE  OpenInv'
  BY <1>5, PathOpenInv, Zenon DEF OpenEx
<1>6. ASSUME NEW path \in Paths, NEW o, NewPersistentEngineWithOptions(t, path, o)
      PROVE  OpenInv'
  BY <1>2, <1>4, <1>5, <1>6, Zenon DEF NewPersistentEngineWithOptions
<1> QED
  BY <1>1, <1>3, <1>4, <1>5, <1>6, Zenon DEF Opens, f4kvs_engine_open_ex, NewPersistentEngine

\* An engine comes up, or does not; it writes; it is freed.
LEMMA GoesOpenInv ==
    ASSUME OpenInv, NEW t \in Threads, Goes(t) PROVE OpenInv'
<1> USE DEF OpenInv
<1>1. CASE open_lsm_engine(t)
  <2>1. UNCHANGED <<run, pid, counter, disk>> /\ dir[t] # None /\ ~up[t]
    BY <1>1, Zenon DEF open_lsm_engine
  <2>2. CASE /\ up' = [up EXCEPT ![t] = TRUE] /\ found' = [found EXCEPT ![t] = disk[dir[t]]]
             /\ UNCHANGED dir
    BY <2>1, <2>2, Zenon DEF AreTyped, Numbered, Fresh, OwnDirectory
  <2>3. CASE dir' = [dir EXCEPT ![t] = None] /\ UNCHANGED <<up, found>>
    BY <2>1, <2>3, Constants, Zenon DEF AreTyped, Numbered, Fresh, OwnDirectory
  <2> QED
    BY <1>1, <2>2, <2>3, Zenon DEF open_lsm_engine
<1>2. CASE Write(t)
  <2>1. /\ disk' = [disk EXCEPT ![dir[t]] = @ \cup {run}] /\ up[t]
        /\ UNCHANGED <<run, pid, counter, dir, up, found>>
    BY <1>2, Zenon DEF Write
  <2>2. \A d \in Ephemeral : disk'[d] = IF d = dir[t] THEN disk[d] \cup {run} ELSE disk[d]
    BY <2>1, ZenonT(60) DEF AreTyped, Dirs
  <2>3. AreTyped'
    <3>1. DOMAIN disk' = Dirs
      BY <2>1, Zenon DEF AreTyped
    <3>2. \A d \in Ephemeral : disk'[d] \subseteq 0 .. run
      <4> TAKE d \in Ephemeral
      <4>1. disk'[d] \subseteq disk[d] \cup {run}
        BY <2>2, ZenonT(60)
      <4>2. disk[d] \cup {run} \subseteq 0 .. run
        BY DEF AreTyped
      <4> QED
        BY <4>1, <4>2, Zenon
    <3> QED
      BY <2>1, <3>1, <3>2, Zenon DEF AreTyped
  <2>4. Numbered'
    BY <2>1, <2>2 DEF Numbered, AreTyped, Ephemeral
  <2>5. Fresh' /\ OwnDirectory'
    BY <2>1, <2>2 DEF Fresh, OwnDirectory
  <2> QED
    BY <2>3, <2>4, <2>5, Zenon
<1>3. CASE f4kvs_engine_free(t)
  BY <1>3, Constants, Zenon DEF f4kvs_engine_free, AreTyped, Numbered, Fresh, OwnDirectory
<1> QED
  BY <1>1, <1>2, <1>3, Zenon DEF Goes

\* Every step keeps the invariant.
LEMMA NextOpenInv == OpenInv /\ [Next]_vars => OpenInv'
<1> SUFFICES ASSUME OpenInv, [Next]_vars PROVE OpenInv'
  BY Zenon
<1>1. CASE UNCHANGED vars
  BY <1>1, Zenon DEF vars, OpenInv, AreTyped, Numbered, Fresh, OwnDirectory
<1> QED
  BY <1>1, StartOpenInv, ExitOpenInv, OpensOpenInv, GoesOpenInv, Zenon DEF Next

\* An ephemeral engine never starts with data of another engine of the same
\* process, and has its directory to itself (OwnDirectory): the numbers that
\* unique_data_dir gives only grow while a process lives.
THEOREM EphemeralEnginesAreAlone == Spec => []OwnDirectory
<1>1. OpenInv => OwnDirectory
  BY Zenon DEF OpenInv
<1> QED
  BY <1>1, InitOpenInv, NextOpenInv, PTL DEF Spec

-----------------------------------------------------------------------------
(* Options.                                                                *)

\* Nothing behind the declared size is read, and nothing before it is lost:
\* the layout ends with its last field.
LEMMA ReadIsSaid ==
    ASSUME NEW p, p # None, p.size \in Nat, p.size = 0 \/ p.size >= MinVersioned,
           NEW f \in Fields
    PROVE  read_open_options(p)[f] = Said(p, f)
<1>1. EndOf[f] \in Nat /\ EndOf[f] <= SizeOf
  BY DEF Fields, EndOf, SizeOf
<1>2. CASE p.size = 0
  BY <1>2 DEF read_open_options, Said, MinVersioned
<1>3. CASE p.size >= MinVersioned
  <2>1. EndOf[f] <= AtMost(p.size, SizeOf) <=> EndOf[f] <= p.size
    BY <1>1 DEF AtMost, SizeOf
  <2> QED
    BY <1>3, <2>1 DEF read_open_options, Said, MinVersioned
<1> QED
  BY <1>2, <1>3, Zenon

\* The group commit options.
LEMMA GroupCommitSets ==
    ASSUME NEW c, DOMAIN c = GroupFields \cup TreeFields, NEW o, NEW durability,
           o["group_commit_max_wait_ms"] \in Nat
    PROVE  LET r == GroupCommit(c, o, durability) IN
           /\ DOMAIN r = DOMAIN c
           /\ \A g \in TreeFields : r[g] = c[g]
           /\ r["group_commit_enabled"] = (c["group_commit_enabled"] \/ o["group_commit_enabled"] # 0)
           /\ r["group_commit_wait_durable"] =
                  (c["group_commit_wait_durable"] \/ o["group_commit_wait_durable"] # 0)
           /\ r["group_commit_max_batch_size"] =
                  IF o["group_commit_max_batch_size"] > 0 THEN o["group_commit_max_batch_size"]
                  ELSE c["group_commit_max_batch_size"]
           /\ r["group_commit_idle_flush"] =
                  IF o["group_commit_idle_flush_ms"] > 0 THEN o["group_commit_idle_flush_ms"]
                  ELSE IF durability = "Amortized" /\ c["group_commit_idle_flush"] = None THEN 100
                  ELSE c["group_commit_idle_flush"]
           /\ r["group_commit_max_wait"] =
                  IF o["group_commit_max_wait_ms"] > 0 THEN o["group_commit_max_wait_ms"]
                  ELSE IF durability = "Amortized" THEN 50 ELSE c["group_commit_max_wait"]
<1> DEFINE c1 == [c EXCEPT !.group_commit_enabled = @ \/ o.group_commit_enabled # 0]
<1> DEFINE c2 == Set(c1, "group_commit_max_wait", o.group_commit_max_wait_ms)
<1> DEFINE c3 == Set(c2, "group_commit_max_batch_size", o.group_commit_max_batch_size)
<1> DEFINE c4 == [c3 EXCEPT !.group_commit_wait_durable = @ \/ o.group_commit_wait_durable # 0]
<1> DEFINE c5 == [c4 EXCEPT !.group_commit_idle_flush =
                  IF o.group_commit_idle_flush_ms > 0 THEN o.group_commit_idle_flush_ms
                  ELSE IF durability = "Amortized" /\ @ = None THEN 100 ELSE @]
<1> DEFINE c6 == [c5 EXCEPT !.group_commit_max_wait =
            IF durability = "Amortized" /\ o.group_commit_max_wait_ms = 0 THEN 50 ELSE @]
<1>0. GroupCommit(c, o, durability) = c6
  BY Zenon DEF GroupCommit
<1>1. /\ DOMAIN c1 = DOMAIN c
      /\ c1["group_commit_enabled"] = (c["group_commit_enabled"] \/ o["group_commit_enabled"] # 0)
      /\ \A g \in DOMAIN c \ {"group_commit_enabled"} : c1[g] = c[g]
  BY Zenon DEF GroupFields
<1> HIDE DEF c1
<1>2. /\ DOMAIN c2 = DOMAIN c
      /\ c2["group_commit_max_wait"] = IF o.group_commit_max_wait_ms > 0
                                       THEN o.group_commit_max_wait_ms ELSE c["group_commit_max_wait"]
      /\ \A g \in DOMAIN c \ {"group_commit_max_wait"} : c2[g] = c1[g]
  BY <1>1, Zenon DEF Set, GroupFields
<1> HIDE DEF c2
<1>3. /\ DOMAIN c3 = DOMAIN c
      /\ c3["group_commit_max_batch_size"] =
            IF o.group_commit_max_batch_size > 0 THEN o.group_commit_max_batch_size
            ELSE c2["group_commit_max_batch_size"]
      /\ \A g \in DOMAIN c \ {"group_commit_max_batch_size"} : c3[g] = c2[g]
  BY <1>2, Zenon DEF Set, GroupFields
<1> HIDE DEF c3
<1>4. /\ DOMAIN c4 = DOMAIN c
      /\ c4["group_commit_wait_durable"] =
            (c3["group_commit_wait_durable"] \/ o["group_commit_wait_durable"] # 0)
      /\ \A g \in DOMAIN c \ {"group_commit_wait_durable"} : c4[g] = c3[g]
  BY <1>3, Zenon DEF GroupFields
<1> HIDE DEF c4
<1>5. /\ DOMAIN c5 = DOMAIN c
      /\ c5["group_commit_idle_flush"] =
            IF o.group_commit_idle_flush_ms > 0 THEN o.group_commit_idle_flush_ms
            ELSE IF durability = "Amortized" /\ c4["group_commit_idle_flush"] = None THEN 100
            ELSE c4["group_commit_idle_flush"]
      /\ \A g \in DOMAIN c \ {"group_commit_idle_flush"} : c5[g] = c4[g]
  BY <1>4, Zenon DEF GroupFields
<1> HIDE DEF c5
<1>6. /\ DOMAIN c6 = DOMAIN c
      /\ c6["group_commit_max_wait"] =
            IF durability = "Amortized" /\ o.group_commit_max_wait_ms = 0 THEN 50
            ELSE c5["group_commit_max_wait"]
      /\ \A g \in DOMAIN c \ {"group_commit_max_wait"} : c6[g] = c5[g]
  BY <1>5, Zenon DEF GroupFields
<1> HIDE DEF c6
<1>7. DOMAIN c6 = DOMAIN c /\ \A g \in TreeFields : c6[g] = c[g]
  BY <1>1, <1>2, <1>3, <1>4, <1>5, <1>6 DEF GroupFields, TreeFields
<1>8. c6["group_commit_enabled"] = (c["group_commit_enabled"] \/ o["group_commit_enabled"] # 0)
  BY <1>1, <1>2, <1>3, <1>4, <1>5, <1>6 DEF GroupFields
<1>9. c6["group_commit_wait_durable"] =
          (c["group_commit_wait_durable"] \/ o["group_commit_wait_durable"] # 0)
  BY <1>1, <1>2, <1>3, <1>4, <1>5, <1>6, Zenon DEF GroupFields
<1>10. c6["group_commit_max_batch_size"] =
           IF o["group_commit_max_batch_size"] > 0 THEN o["group_commit_max_batch_size"]
           ELSE c["group_commit_max_batch_size"]
  BY <1>1, <1>2, <1>3, <1>4, <1>5, <1>6 DEF GroupFields
<1>11. c6["group_commit_idle_flush"] =
           IF o["group_commit_idle_flush_ms"] > 0 THEN o["group_commit_idle_flush_ms"]
           ELSE IF durability = "Amortized" /\ c["group_commit_idle_flush"] = None THEN 100
           ELSE c["group_commit_idle_flush"]
  BY <1>1, <1>2, <1>3, <1>4, <1>5, <1>6 DEF GroupFields
<1>12. c6["group_commit_max_wait"] =
           IF o["group_commit_max_wait_ms"] > 0 THEN o["group_commit_max_wait_ms"]
           ELSE IF durability = "Amortized" THEN 50 ELSE c["group_commit_max_wait"]
  BY <1>1, <1>2, <1>3, <1>4, <1>5, <1>6 DEF GroupFields
<1> QED
  BY <1>0, <1>7, <1>8, <1>9, <1>10, <1>11, <1>12, Zenon

\* The sizes, the maximum raised to the target at last.
LEMMA SizingSets ==
    ASSUME NEW c, DOMAIN c = GroupFields \cup TreeFields, NEW o,
           c["sstable_target_size"] \in Nat, c["sstable_max_size"] \in Nat,
           o["sstable_target_size"] \in Nat, o["sstable_max_size"] \in Nat
    PROVE  LET r == Sizing(c, o)
               or(f) == IF o[f] > 0 THEN o[f] ELSE c[f]
           IN
           /\ \A g \in (GroupFields \cup TreeFields)
                     \ {"memtable_max_size", "sstable_target_size", "sstable_max_size"} : r[g] = c[g]
           /\ r["memtable_max_size"] = or("memtable_max_size")
           /\ r["sstable_target_size"] = or("sstable_target_size")
           /\ r["sstable_max_size"] = IF or("sstable_max_size") < or("sstable_target_size")
                                      THEN or("sstable_target_size") ELSE or("sstable_max_size")
<1> DEFINE c1 == Set(c, "memtable_max_size", o.memtable_max_size)
<1> DEFINE c2 == Set(c1, "sstable_target_size", o.sstable_target_size)
<1> DEFINE c3 == Set(c2, "sstable_max_size", o.sstable_max_size)
<1> DEFINE c4 == [c3 EXCEPT !.sstable_max_size =
            IF @ < c3.sstable_target_size THEN c3.sstable_target_size ELSE @]
<1>0. Sizing(c, o) = c4
  BY Zenon DEF Sizing
<1>1. /\ DOMAIN c1 = DOMAIN c
      /\ c1["memtable_max_size"] = IF o.memtable_max_size > 0 THEN o.memtable_max_size
                                   ELSE c["memtable_max_size"]
      /\ \A g \in DOMAIN c \ {"memtable_max_size"} : c1[g] = c[g]
  BY Zenon DEF Set, TreeFields
<1> HIDE DEF c1
<1>2. /\ DOMAIN c2 = DOMAIN c
      /\ c2["sstable_target_size"] = IF o.sstable_target_size > 0 THEN o.sstable_target_size
                                     ELSE c1["sstable_target_size"]
      /\ \A g \in DOMAIN c \ {"sstable_target_size"} : c2[g] = c1[g]
  BY <1>1, Zenon DEF Set, TreeFields
<1> HIDE DEF c2
<1>3. /\ DOMAIN c3 = DOMAIN c
      /\ c3["sstable_max_size"] = IF o.sstable_max_size > 0 THEN o.sstable_max_size
                                  ELSE c2["sstable_max_size"]
      /\ \A g \in DOMAIN c \ {"sstable_max_size"} : c3[g] = c2[g]
  BY <1>2, Zenon DEF Set, TreeFields
<1> HIDE DEF c3
<1>4. /\ c4["sstable_max_size"] = IF c3["sstable_max_size"] < c3["sstable_target_size"]
                                  THEN c3["sstable_target_size"] ELSE c3["sstable_max_size"]
      /\ \A g \in DOMAIN c \ {"sstable_max_size"} : c4[g] = c3[g]
  BY <1>3, Zenon DEF TreeFields
<1> HIDE DEF c4
<1>5. \A g \in (GroupFields \cup TreeFields)
               \ {"memtable_max_size", "sstable_target_size", "sstable_max_size"} : c4[g] = c[g]
  BY <1>1, <1>2, <1>3, <1>4, Zenon
<1>6. c4["memtable_max_size"] = IF o["memtable_max_size"] > 0 THEN o["memtable_max_size"]
                                ELSE c["memtable_max_size"]
  BY <1>1, <1>2, <1>3, <1>4, Zenon DEF TreeFields
<1>7. c4["sstable_target_size"] = IF o["sstable_target_size"] > 0 THEN o["sstable_target_size"]
                                  ELSE c["sstable_target_size"]
  BY <1>1, <1>2, <1>3, <1>4, Zenon DEF TreeFields
<1>8. c3["sstable_max_size"] = (IF o["sstable_max_size"] > 0 THEN o["sstable_max_size"]
                                ELSE c["sstable_max_size"])
      /\ c3["sstable_target_size"] = c4["sstable_target_size"]
  BY <1>1, <1>2, <1>3, <1>4, Zenon DEF TreeFields
<1> QED
  BY <1>0, <1>4, <1>5, <1>6, <1>7, <1>8, Zenon

\* The whole of apply_open_options: what each field becomes.
LEMMA AppliedSets ==
    ASSUME NEW o, \A f \in Fields : o[f] \in Nat
    PROVE  LET r == Applied(Defaults, o)
               d == WalDurability(o["wal_durability"])
               b == apply_to(Defaults, d)
               g == GroupCommit(b, o, d)
               or(f) == IF o[f] > 0 THEN o[f] ELSE Defaults[f]
           IN
           /\ DOMAIN b = DOMAIN Defaults
           /\ \A f \in GroupFields : r[f] = g[f]
           /\ r["wal_engine"] = WalEngine(o["wal_engine"])
           /\ r["background_enabled"] = (o["compaction_background"] # 2)
           /\ \A f \in {"max_batch_size", "max_sstables_per_level", "memtable_max_size",
                        "sstable_target_size"} : r[f] = or(f)
           /\ r["sstable_max_size"] = IF or("sstable_max_size") < or("sstable_target_size")
                                      THEN or("sstable_target_size") ELSE or("sstable_max_size")
<1> DEFINE d == WalDurability(o["wal_durability"])
<1> DEFINE c0 == apply_to(Defaults, d)
<1> DEFINE c1 == GroupCommit(c0, o, d)
<1> DEFINE c2 == [c1 EXCEPT !.wal_engine = WalEngine(o.wal_engine)]
<1> DEFINE c3 == Set(c2, "max_batch_size", o.max_batch_size)
<1> DEFINE c4 == [c3 EXCEPT !.background_enabled = CASE o.compaction_background = 2 -> FALSE
                                                  [] o.compaction_background = 1 -> TRUE
                                                  [] OTHER -> @]
<1> DEFINE c5 == Set(c4, "max_sstables_per_level", o.max_sstables_per_level)
<1> DEFINE c6 == Sizing(c5, o)
<1>0. Applied(Defaults, o) = c6
  BY Zenon DEF Applied
<1>1. d \in DOMAIN Preset
  BY OptionsAssumption, Zenon DEF WalDurability
<1> HIDE DEF d
<1>2. DOMAIN c0 = DOMAIN Defaults /\ \A f \in TreeFields : c0[f] = Defaults[f]
  BY <1>1, OptionsAssumption, Zenon DEF apply_to, GroupFields, TreeFields
<1> HIDE DEF c0
<1>3. DOMAIN c1 = DOMAIN Defaults /\ \A f \in TreeFields : c1[f] = Defaults[f]
  <2>1. o["group_commit_max_wait_ms"] \in Nat
    BY Zenon DEF Fields
  <2>2. DOMAIN c0 = GroupFields \cup TreeFields
    BY <1>2, OptionsAssumption, Zenon
  <2> QED
    BY <1>2, <2>1, <2>2, GroupCommitSets
<1> HIDE DEF c1
<1>4. /\ DOMAIN c2 = DOMAIN Defaults /\ c2["wal_engine"] = WalEngine(o["wal_engine"])
      /\ \A f \in DOMAIN Defaults \ {"wal_engine"} : c2[f] = c1[f]
  BY <1>3, OptionsAssumption, Zenon DEF TreeFields
<1> HIDE DEF c2
<1>5. /\ DOMAIN c3 = DOMAIN Defaults
      /\ c3["max_batch_size"] = IF o["max_batch_size"] > 0 THEN o["max_batch_size"]
                                ELSE c2["max_batch_size"]
      /\ \A f \in DOMAIN Defaults \ {"max_batch_size"} : c3[f] = c2[f]
  BY <1>4, OptionsAssumption, Zenon DEF TreeFields, Set
<1> HIDE DEF c3
<1>6. /\ DOMAIN c4 = DOMAIN Defaults
      /\ c4["background_enabled"] = CASE o.compaction_background = 2 -> FALSE
                                      [] o.compaction_background = 1 -> TRUE
                                      [] OTHER -> c3["background_enabled"]
      /\ \A f \in DOMAIN Defaults \ {"background_enabled"} : c4[f] = c3[f]
  BY <1>5, OptionsAssumption, Zenon DEF TreeFields
<1> HIDE DEF c4
<1>7. /\ DOMAIN c5 = DOMAIN Defaults
      /\ c5["max_sstables_per_level"] = IF o["max_sstables_per_level"] > 0
                                        THEN o["max_sstables_per_level"]
                                        ELSE c4["max_sstables_per_level"]
      /\ \A f \in DOMAIN Defaults \ {"max_sstables_per_level"} : c5[f] = c4[f]
  BY <1>6, OptionsAssumption, Zenon DEF TreeFields, Set
<1> HIDE DEF c5
<1>8. /\ \A f \in GroupFields : c5[f] = c1[f]
      /\ c5["wal_engine"] = WalEngine(o["wal_engine"])
      /\ \A f \in {"memtable_max_size", "sstable_target_size", "sstable_max_size"} : c5[f] = Defaults[f]
  BY <1>3, <1>4, <1>5, <1>6, <1>7, OptionsAssumption DEF TreeFields, GroupFields
<1>9. c5["background_enabled"] = (o["compaction_background"] # 2)
  <2>1. c3["background_enabled"] = TRUE
    BY <1>3, <1>4, <1>5, OptionsAssumption, Zenon DEF TreeFields
  <2>2. c5["background_enabled"] = c4["background_enabled"]
    BY <1>7, OptionsAssumption, Zenon DEF TreeFields
  <2>3. CASE o.compaction_background = 2
    <3>1. c4["background_enabled"] = FALSE
      BY <1>6, <2>3
    <3> QED
      BY <2>2, <2>3, <3>1, ZenonT(60)
  <2>4. CASE o.compaction_background # 2
    <3>1. c4["background_enabled"] = TRUE
      BY <1>6, <2>1, <2>4, Zenon
    <3> QED
      BY <2>2, <2>4, <3>1, ZenonT(60)
  <2> QED
    BY <2>3, <2>4, Zenon
<1>10. \A f \in {"max_batch_size", "max_sstables_per_level"} :
           c5[f] = IF o[f] > 0 THEN o[f] ELSE Defaults[f]
  BY <1>3, <1>4, <1>5, <1>6, <1>7, OptionsAssumption DEF TreeFields
<1>11. /\ c5["sstable_target_size"] \in Nat /\ c5["sstable_max_size"] \in Nat
       /\ o["sstable_target_size"] \in Nat /\ o["sstable_max_size"] \in Nat
  BY <1>8, OptionsAssumption, Zenon DEF Fields
<1>12. /\ \A g \in (GroupFields \cup TreeFields)
                 \ {"memtable_max_size", "sstable_target_size", "sstable_max_size"} : c6[g] = c5[g]
       /\ \A f \in {"memtable_max_size", "sstable_target_size"} :
             c6[f] = IF o[f] > 0 THEN o[f] ELSE c5[f]
       /\ LET or(f) == IF o[f] > 0 THEN o[f] ELSE c5[f]
          IN  c6["sstable_max_size"] = IF or("sstable_max_size") < or("sstable_target_size")
                                       THEN or("sstable_target_size") ELSE or("sstable_max_size")
  BY <1>7, <1>11, SizingSets, OptionsAssumption, SMTT(60)
<1> HIDE DEF c6
<1>13. /\ \A f \in GroupFields : c6[f] = c1[f]
       /\ c6["wal_engine"] = WalEngine(o["wal_engine"])
       /\ c6["background_enabled"] = (o["compaction_background"] # 2)
  BY <1>8, <1>9, <1>12, Zenon DEF GroupFields, TreeFields
<1>14. \A f \in {"max_batch_size", "max_sstables_per_level", "memtable_max_size",
                 "sstable_target_size"} : c6[f] = IF o[f] > 0 THEN o[f] ELSE Defaults[f]
  BY <1>8, <1>10, <1>12, Zenon DEF GroupFields, TreeFields
<1>15. LET or(f) == IF o[f] > 0 THEN o[f] ELSE Defaults[f]
       IN  c6["sstable_max_size"] = IF or("sstable_max_size") < or("sstable_target_size")
                                    THEN or("sstable_target_size") ELSE or("sstable_max_size")
  BY <1>8, <1>12, Zenon
<1> QED
  BY <1>0, <1>2, <1>13, <1>14, <1>15, Zenon DEF d, c0, c1

\* The engine that is configured from the options p has the configuration
\* that the header describes for q, if both say the same.
LEMMA ConfiguredAsSaid ==
    ASSUME NEW p, NEW q,
           \A f \in Fields : read_open_options(p)[f] = Said(q, f) /\ Said(q, f) \in Nat,
           read_open_options(p) # None
    PROVE  LET c == apply_open_options(Defaults, read_open_options(p))
           IN  Documented(c, q) /\ Covers(c, q)
<1> DEFINE o == read_open_options(p)
<1> DEFINE c == apply_open_options(Defaults, o)
<1> DEFINE d == WalDurability(o["wal_durability"])
<1> DEFINE b == apply_to(Defaults, d)
<1> DEFINE or(f) == IF o[f] > 0 THEN o[f] ELSE Defaults[f]
<1>0. c = Applied(Defaults, o) /\ \A f \in Fields : o[f] \in Nat /\ o[f] = Said(q, f)
  BY Zenon DEF apply_open_options
<1> HIDE DEF o
<1>1. /\ DOMAIN b = DOMAIN Defaults
      /\ \A f \in GroupFields : c[f] = GroupCommit(b, o, d)[f]
      /\ c["wal_engine"] = WalEngine(o["wal_engine"])
      /\ c["background_enabled"] = (o["compaction_background"] # 2)
      /\ \A f \in {"max_batch_size", "max_sstables_per_level", "memtable_max_size",
                   "sstable_target_size"} : c[f] = or(f)
      /\ c["sstable_max_size"] = IF or("sstable_max_size") < or("sstable_target_size")
                                 THEN or("sstable_target_size") ELSE or("sstable_max_size")
  BY <1>0, AppliedSets
<1>2. d \in DOMAIN Preset /\ d = WalDurability(Said(q, "wal_durability"))
  BY <1>0, OptionsAssumption, Zenon DEF WalDurability, Fields
<1>3. \A f \in GroupFields : b[f] = IF f \in DOMAIN Preset[d] THEN Preset[d][f] ELSE Defaults[f]
  BY OptionsAssumption, Zenon DEF apply_to
<1> HIDE DEF c, d, b
<1>4. Covers(c, q)
  <2>1. /\ or("sstable_target_size") \in Nat \ {0} /\ or("sstable_max_size") \in Nat
        /\ Said(q, "sstable_max_size") = o["sstable_max_size"]
    BY <1>0, OptionsAssumption DEF Fields
  <2> QED
    BY <1>0, <1>1, <2>1 DEF Covers, Fields
<1>5. /\ c["group_commit_enabled"] = (b["group_commit_enabled"] \/ o["group_commit_enabled"] # 0)
      /\ c["group_commit_wait_durable"] =
             (b["group_commit_wait_durable"] \/ o["group_commit_wait_durable"] # 0)
      /\ c["group_commit_max_batch_size"] =
             IF o["group_commit_max_batch_size"] > 0 THEN o["group_commit_max_batch_size"]
             ELSE b["group_commit_max_batch_size"]
      /\ c["group_commit_idle_flush"] =
             IF o["group_commit_idle_flush_ms"] > 0 THEN o["group_commit_idle_flush_ms"]
             ELSE IF d = "Amortized" /\ b["group_commit_idle_flush"] = None THEN 100
             ELSE b["group_commit_idle_flush"]
      /\ c["group_commit_max_wait"] =
             IF o["group_commit_max_wait_ms"] > 0 THEN o["group_commit_max_wait_ms"]
             ELSE IF d = "Amortized" THEN 50 ELSE b["group_commit_max_wait"]
  <2>1. DOMAIN b = GroupFields \cup TreeFields /\ o["group_commit_max_wait_ms"] \in Nat
    BY <1>0, <1>1, OptionsAssumption, Zenon DEF Fields
  <2> DEFINE r == GroupCommit(b, o, d)
  <2>2. /\ r["group_commit_enabled"] = (b["group_commit_enabled"] \/ o["group_commit_enabled"] # 0)
        /\ r["group_commit_wait_durable"] =
               (b["group_commit_wait_durable"] \/ o["group_commit_wait_durable"] # 0)
        /\ r["group_commit_max_batch_size"] =
               IF o["group_commit_max_batch_size"] > 0 THEN o["group_commit_max_batch_size"]
               ELSE b["group_commit_max_batch_size"]
        /\ r["group_commit_idle_flush"] =
               IF o["group_commit_idle_flush_ms"] > 0 THEN o["group_commit_idle_flush_ms"]
               ELSE IF d = "Amortized" /\ b["group_commit_idle_flush"] = None THEN 100
               ELSE b["group_commit_idle_flush"]
        /\ r["group_commit_max_wait"] =
               IF o["group_commit_max_wait_ms"] > 0 THEN o["group_commit_max_wait_ms"]
               ELSE IF d = "Amortized" THEN 50 ELSE b["group_commit_max_wait"]
    BY <2>1, GroupCommitSets, SMTT(30)
  <2>3. \A f \in {"group_commit_enabled", "group_commit_wait_durable", "group_commit_idle_flush",
                   "group_commit_max_batch_size", "group_commit_max_wait"} : c[f] = r[f]
    BY <1>1, Zenon DEF GroupFields
  <2> HIDE DEF r
  <2> QED
    BY <2>2, <2>3, Zenon
<1>6. \A f \in Fields : Said(q, f) = o[f] /\ (o[f] > 0 <=> o[f] # 0)
  BY <1>0
<1>7. Documented(c, q)
  <2> DEFINE base(f) == IF f \in DOMAIN Preset[d] THEN Preset[d][f] ELSE Defaults[f]
  <2>1. /\ b["group_commit_enabled"] = base("group_commit_enabled")
        /\ b["group_commit_wait_durable"] = base("group_commit_wait_durable")
        /\ b["group_commit_max_batch_size"] = base("group_commit_max_batch_size")
        /\ b["group_commit_idle_flush"] = base("group_commit_idle_flush")
        /\ b["group_commit_max_wait"] = base("group_commit_max_wait")
    BY <1>3, Zenon DEF GroupFields
  <2>2. c["group_commit_enabled"] = (Said(q, "group_commit_enabled") # 0 \/ base("group_commit_enabled"))
    BY <1>5, <1>6, <2>1, Zenon DEF Fields
  <2>3. c["group_commit_wait_durable"] =
            (Said(q, "group_commit_wait_durable") # 0 \/ base("group_commit_wait_durable"))
    BY <1>5, <1>6, <2>1, Zenon DEF Fields
  <2>4. /\ c["group_commit_max_batch_size"] =
               IF Said(q, "group_commit_max_batch_size") # 0 THEN Said(q, "group_commit_max_batch_size")
               ELSE base("group_commit_max_batch_size")
    BY <1>5, <1>6, <2>1, Zenon DEF Fields
  <2>wait. c["group_commit_max_wait"] =
               IF Said(q, "group_commit_max_wait_ms") # 0 THEN Said(q, "group_commit_max_wait_ms")
               ELSE IF d = "Amortized" THEN 50 ELSE base("group_commit_max_wait")
    BY <1>5, <1>6, <2>1 DEF Fields
  <2>5. c["group_commit_idle_flush"] =
            IF Said(q, "group_commit_idle_flush_ms") # 0 THEN Said(q, "group_commit_idle_flush_ms")
            ELSE IF d = "Amortized" /\ base("group_commit_idle_flush") = None THEN 100
            ELSE base("group_commit_idle_flush")
    BY <1>5, <1>6, <2>1 DEF Fields
  <2>6. \A f \in {"max_batch_size", "max_sstables_per_level", "memtable_max_size",
                  "sstable_target_size"} :
            c[f] = IF Said(q, f) # 0 THEN Said(q, f) ELSE Defaults[f]
    BY <1>1, <1>6 DEF Fields
  <2>7. /\ c["background_enabled"] = (Said(q, "compaction_background") # 2)
        /\ c["wal_engine"] = WalEngine(Said(q, "wal_engine"))
    BY <1>1, <1>6, Zenon DEF Fields
  <2> QED
    BY <1>2, <2>2, <2>3, <2>4, <2>wait, <2>5, <2>6, <2>7, Zenon DEF Documented
<1> QED
  BY <1>4, <1>7, Zenon DEF c, o

\* A C caller and a Go caller.
LEMMA StructSays ==
    ASSUME NEW p \in Structs, p # None
    PROVE  /\ \A f \in Fields : read_open_options(p)[f] = Said(p, f) /\ Said(p, f) \in Nat
           /\ read_open_options(p) # None
<1>1. p.size \in Nat /\ (p.size = 0 \/ p.size >= MinVersioned) /\ p.memory \in [Fields -> Nat]
  BY OpenAssumption, Zenon
<1>2. \A f \in Fields : read_open_options(p)[f] = Said(p, f) /\ Said(p, f) \in Nat
  BY <1>1, ReadIsSaid, Zenon DEF Said
<1>3. read_open_options(p) \in [Fields -> Nat]
  BY <1>1, Zenon DEF read_open_options
<1> QED
  BY <1>2, <1>3, OptionsAssumption, Zenon

LEMMA GoOptionsSay ==
    ASSUME NEW o \in GoOptions, o # None
    PROVE  /\ Meant(o) # None
           /\ \A f \in Fields : /\ read_open_options(CopyOptions(o))[f] = Said(Meant(o), f)
                               /\ Said(Meant(o), f) \in Nat
           /\ read_open_options(CopyOptions(o)) # None
<1> DEFINE p == CopyOptions(o)
<1>1. DOMAIN o = Fields /\ \A f \in Fields : o[f] \in IF f \in Flags THEN BOOLEAN ELSE Nat
  BY OpenAssumption, Zenon
<1>2. p.size = SizeOf /\ \A f \in Fields : p.memory[f] = IF f \in Flags THEN Byte(o[f]) ELSE o[f]
  BY <1>1, Zenon DEF CopyOptions, Flags, Fields
<1>3. \A f \in Fields : p.memory[f] \in Nat /\ p.memory[f] = Meant(o).memory[f]
  BY <1>1, <1>2 DEF Byte, Meant
<1>a. p # None /\ Meant(o) # None
  <2>1. p.memory \in [Fields -> Nat]
    BY <1>1, ZenonT(60) DEF CopyOptions, Flags, Fields, Byte
  <2>2. p \in [size : Nat, memory : [Fields -> Nat]]
    BY <2>1, Zenon DEF CopyOptions, SizeOf
  <2>3. Meant(o) \in [size : Nat, memory : [Fields -> Nat]]
    BY <1>1, Zenon DEF Meant, SizeOf
  <2> QED
    BY <2>2, <2>3, OptionsAssumption, Zenon
<1> HIDE DEF p
<1>4. \A f \in Fields : read_open_options(p)[f] = Said(p, f)
  BY <1>2, <1>a, ReadIsSaid DEF SizeOf, MinVersioned
<1>5. \A f \in Fields : Said(p, f) = Said(Meant(o), f) /\ Said(p, f) \in Nat
  BY <1>2, <1>3, Zenon DEF Said, Meant
<1>6. read_open_options(p) \in [Fields -> Nat]
  BY <1>2, <1>3, <1>a DEF read_open_options, SizeOf, MinVersioned
<1> QED
  BY <1>4, <1>5, <1>6, <1>a, OptionsAssumption, Zenon DEF p

-----------------------------------------------------------------------------
ConfigInv ==
    DOMAIN config = Threads /\ DOMAIN asked = Threads /\ AsDocumented /\ MaxCoversTarget

\* A call that configures an engine from what its caller says.
LEMMA BeginConfigInv ==
    ASSUME ConfigInv, NEW t \in Threads, NEW d, NEW options, NEW o, Begin(t, d, options, o),
           LET c == apply_open_options(Defaults, o)
           IN  IF options = None THEN c = Defaults ELSE Documented(c, options) /\ Covers(c, options)
    PROVE  ConfigInv'
<1>1. /\ config' = [config EXCEPT ![t] = apply_open_options(Defaults, o)]
      /\ asked' = [asked EXCEPT ![t] = options]
  BY Zenon DEF Begin
<1>2. \A u \in Threads \ {t} : config'[u] = config[u] /\ asked'[u] = asked[u]
  BY <1>1, Zenon DEF ConfigInv
<1>3. config'[t] = apply_open_options(Defaults, o) /\ asked'[t] = options
  BY <1>1, Zenon DEF ConfigInv
<1>4. DOMAIN config' = Threads /\ DOMAIN asked' = Threads
  BY <1>1, Zenon DEF ConfigInv
<1>5. AsDocumented'
  BY <1>2, <1>3, Zenon DEF ConfigInv, AsDocumented
<1>6. MaxCoversTarget'
  BY <1>2, <1>3, Zenon DEF ConfigInv, MaxCoversTarget
<1> QED
  BY <1>4, <1>5, <1>6, Zenon DEF ConfigInv

\* Without options the defaults stay.
LEMMA PlainConfigInv ==
    ASSUME ConfigInv, NEW t \in Threads, NEW d, Begin(t, d, None, None) PROVE ConfigInv'
  BY BeginConfigInv, Zenon DEF apply_open_options

\* All calls that open an engine.
LEMMA OpensConfigInv ==
    ASSUME ConfigInv, NEW t \in Threads, Opens(t, Structs, GoOptions) PROVE ConfigInv'
<1>1. CASE UNCHANGED vars
  BY <1>1, Zenon DEF vars, ConfigInv, AsDocumented, MaxCoversTarget
<1>2. CASE f4kvs_engine_new(t) \/ NewMemoryEngine(t)
  BY <1>2, PlainConfigInv, Zenon DEF NewMemoryEngine, f4kvs_engine_new
<1>3. ASSUME NEW path, f4kvs_engine_open(t, path) PROVE ConfigInv'
  BY <1>1, <1>3, PlainConfigInv, Zenon DEF f4kvs_engine_open
<1>4. ASSUME NEW path, NEW p \in Structs \cup {None}, f4kvs_engine_open_ex(t, path, p)
      PROVE  ConfigInv'
  <2>1. CASE p = None
    <3>1. UNCHANGED vars \/ Begin(t, validate_data_dir(path), None, None)
      BY <1>4, <2>1, Zenon DEF f4kvs_engine_open_ex, OpenEx, read_open_options
    <3> QED
      BY <1>1, <3>1, PlainConfigInv, Zenon
  <2>2. CASE p # None
    <3>1. UNCHANGED vars \/ Begin(t, validate_data_dir(path), p, read_open_options(p))
      BY <1>4, Zenon DEF f4kvs_engine_open_ex, OpenEx
    <3>2. LET c == apply_open_options(Defaults, read_open_options(p))
          IN  Documented(c, p) /\ Covers(c, p)
      BY <2>2, StructSays, ConfiguredAsSaid, Zenon
    <3> QED
      BY <1>1, <2>2, <3>1, <3>2, BeginConfigInv, Zenon
  <2> QED
    BY <2>1, <2>2, Zenon
<1>5. ASSUME NEW path, NEW o \in GoOptions, NewPersistentEngineWithOptions(t, path, o)
      PROVE  ConfigInv'
  <2>1. CASE o = None
    BY <1>3, <1>5, <2>1, Zenon DEF NewPersistentEngineWithOptions
  <2>2. CASE o # None
    <3>1. \/ UNCHANGED vars
          \/ Begin(t, validate_data_dir(CString(path)), Meant(o), read_open_options(CopyOptions(o)))
      BY <1>5, <2>2, Zenon DEF NewPersistentEngineWithOptions, OpenEx
    <3>2. LET c == apply_open_options(Defaults, read_open_options(CopyOptions(o)))
          IN  Documented(c, Meant(o)) /\ Covers(c, Meant(o))
      BY <2>2, GoOptionsSay, ConfiguredAsSaid, Zenon
    <3> QED
      BY <1>1, <2>2, <3>1, <3>2, GoOptionsSay, BeginConfigInv, Zenon
  <2> QED
    BY <2>1, <2>2, Zenon
<1>6. ASSUME NEW path, NewPersistentEngine(t, path) PROVE ConfigInv'
  BY <1>3, <1>6, Zenon DEF NewPersistentEngine, NewPersistentEngineWithOptions
<1> QED
  BY <1>2, <1>3, <1>4, <1>5, <1>6, Zenon DEF Opens

\* Every step keeps the configurations as they should be.
LEMMA NextConfigInv == ConfigInv /\ [Next]_vars => ConfigInv'
<1> SUFFICES ASSUME ConfigInv, [Next]_vars PROVE ConfigInv'
  BY Zenon
<1>1. CASE UNCHANGED <<config, asked>>
  BY <1>1, Zenon DEF ConfigInv, AsDocumented, MaxCoversTarget
<1>2. CASE UNCHANGED vars \/ Start
  BY <1>1, <1>2, Zenon DEF vars, Start
<1>3. CASE Exit
  BY <1>3, Zenon DEF Exit, ConfigInv, AsDocumented, MaxCoversTarget
<1>4. ASSUME NEW t \in Threads, Goes(t) PROVE ConfigInv'
  <2>1. \/ UNCHANGED <<config, asked>>
        \/ config' = [config EXCEPT ![t] = None] /\ asked' = [asked EXCEPT ![t] = None]
    BY <1>4, Zenon DEF Goes, open_lsm_engine, Write, f4kvs_engine_free
  <2>2. CASE config' = [config EXCEPT ![t] = None] /\ asked' = [asked EXCEPT ![t] = None]
    BY <2>2, Zenon DEF ConfigInv, AsDocumented, MaxCoversTarget
  <2> QED
    BY <1>1, <2>1, <2>2, Zenon
<1> QED
  BY <1>2, <1>3, <1>4, OpensConfigInv, Zenon DEF Next

\* An engine has the configuration that f4kvs.h describes for the options of
\* its caller, whatever header the caller was compiled with (AsDocumented); a
\* wait that the caller leaves at zero is 50 ms with the amortized preset.
THEOREM EnginesAreConfiguredAsDocumented == Spec => []AsDocumented
<1>1. Init => ConfigInv
  BY Zenon DEF Init, ConfigInv, AsDocumented, MaxCoversTarget
<1>2. ConfigInv => AsDocumented
  BY Zenon DEF ConfigInv
<1> QED
  BY <1>1, <1>2, NextConfigInv, PTL DEF Spec

\* The maximum size of a table is what the caller asked for, or else the
\* default, raised to the target if it is below (MaxCoversTarget): the last
\* statement of apply_open_options.
THEOREM MaximumCoversTarget == Spec => []MaxCoversTarget
<1>1. Init => ConfigInv
  BY Zenon DEF Init, ConfigInv, AsDocumented, MaxCoversTarget
<1>2. ConfigInv => MaxCoversTarget
  BY Zenon DEF ConfigInv
<1> QED
  BY <1>1, <1>2, NextConfigInv, PTL DEF Spec
=============================================================================
