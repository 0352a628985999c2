----------------------------- MODULE BenchProofs -----------------------------
(* What is proved of the benchmark programs, for any flags, any number of  *)
(* processes and any number of faults.  BenchScriptProofs has what the     *)
(* scripts are like, BenchHarnessProofs that each step keeps the           *)
(* invariants when the scripts are like that; here the two meet.           *)
EXTENDS BenchScriptProofs, BenchHarnessProofs, WellFoundedInduction

\* Steps that name no prover are for Zenon.
USE ZenonT(60)

-----------------------------------------------------------------------------
(* What BenchHarnessProofs assumes.                                        *)

LEMMA Least ==
  ASSUME NEW T, T \subseteq Nat, T # {}
  PROVE  \E m \in T : \A i \in T : m <= i
<1>1. PICK m \in T : \A i \in T : ~(<<i, m>> \in OpToRel(<, Nat))
  BY NatLessThanWellFounded, WFMin
<1>2. \A i \in T : ~(i < m)
  BY <1>1, ZenonT(60) DEF OpToRel
<1>3. QED
  BY <1>2, SMT

LEMMA InductiveIs == Inductive
<1> SUFFICES ASSUME NEW n \in Nat, NEW T, 0 \in T, \A m \in 1 .. n : m - 1 \in T => m \in T
             PROVE  \A m \in 0 .. n : m \in T
  BY DEF Inductive
<1> DEFINE D == {m \in 0 .. n : m \notin T}
<1> SUFFICES ASSUME D # {} PROVE FALSE
  OBVIOUS
<1>1. D \subseteq Nat
  BY SMT
<1>2. PICK m \in D : \A i \in D : m <= i
  BY <1>1, Least, ZenonT(60)
<1>3. m \in 0 .. n /\ m \notin T /\ m # 0
  OBVIOUS
<1>4. m \in 1 .. n /\ m - 1 \in 0 .. n /\ m - 1 \notin D
  BY <1>2, <1>3, SMT
<1>5. QED
  BY <1>3, <1>4

LEMMA ScriptsAre ==
  GoodScripts /\ StackScripts /\ StageScripts /\ RankScripts /\ PublishScripts
<1>1. ASSUME NEW f \in Flags PROVE Scripts[f] = Script(f) /\ f \in EmbedFlags(RunIds) \cup ReadTaxFlags \cup ProbeFlags
  BY HarnessAssumption DEF Scripts
<1>2. ASSUME NEW f \in Flags \cap EmbedFlags(RunIds) PROVE Scripts[f] = EmbedVsSQLite(f)
  BY <1>1 DEF Script, EmbedFlags
<1>3. GoodScripts
  BY <1>1, ScriptGood DEF GoodScripts
<1>4. StackScripts
  BY <1>1, ScriptStacks DEF StackScripts
<1>5. StageScripts
  BY <1>2, ScriptStages DEF StageScripts
<1>6. RankScripts
  BY <1>2, WantedKnown, ScriptRanks DEF RankScripts
<1>7. PublishScripts
  BY <1>2, ScriptPublishes DEF PublishScripts
<1>8. QED
  BY <1>3, <1>4, <1>5, <1>6, <1>7

-----------------------------------------------------------------------------
(* The run writer.                                                         *)

\* The first publication of a run is atomic (FirstPublishAtomic): whatever
\* dies when, Finalize renames only a directory it has written as a whole.
THEOREM PublishesWhole == WSpec => []FirstPublishAtomic
<1>1. WInv => FirstPublishAtomic
  BY DEF WInv
<1> QED
  BY <1>1, InitWInv, NextWInv, PTL DEF WSpec

\* A whole copy of a run is lost only to a later NewRunWriter of the same run
\* id (OnlyRestartForgets): Finalize removes the published directory only
\* when the staged one is whole.
THEOREM FinalizeKeepsACopy == WSpec => OnlyRestartForgets
<1>1. WInv /\ [WNext]_wvars =>
          [\A id \in RunIds : HasCopy(id) /\ ~HasCopy(id)' => wpc = "clear" /\ wid = id]_wvars
  BY StepKeepsCopy
<1> QED
  BY <1>1, InitWInv, NextWInv, PTL DEF WSpec, OnlyRestartForgets

-----------------------------------------------------------------------------
(* The programs.                                                           *)

\* The invariants of the harness and of its writer.
LEMMA Invariance == Spec => [](HInv /\ WInv) /\ WInit /\ [][WNext]_wvars
<1>1. Init => HInv /\ WInit /\ WInv
  BY ScriptsAre, InitHInv, InitWriter
<1>2. HInv /\ WInv /\ [Next]_vars => HInv' /\ WInv' /\ [WNext]_wvars
  BY InductiveIs, NextHInv, NextWriter
<1> QED
  BY <1>1, <1>2, PTL DEF Spec

\* The state of the harness is well formed (TypeOK): whatever fails, no store
\* has more durable rows than it has acknowledged, and a run writer exists
\* only while its process works.
THEOREM HarnessTypeCorrect == Spec => []TypeOK
<1>1. HInv /\ WInv => TypeOK
  <2> SUFFICES ASSUME HInv, WInv PROVE TypeOK
    OBVIOUS
  <2>1. ASSUME NEW p \in DOMAIN stores, NEW k \in DOMAIN Zero
        PROVE  stores[p].safe[k] \in 0 .. stores[p].acked[k]
    <3>1. k \in Keys
      BY DEF Zero, Keys
    <3>2. /\ stores[p].safe \in Counts /\ stores[p].acked \in Counts
          /\ stores[p].safe[k] <= stores[p].acked[k]
      BY <3>1 DEF HInv, GoodStores, GoodStore, StoreSet
    <3>3. QED
      BY <3>1, <3>2, SMT DEF Counts, Keys
  <2>2. WTypeOK /\ HTypes
    BY DEF HInv, WInv
  <2>3. QED
    BY <2>1, <2>2 DEF TypeOK, HTypes, Working
<1> QED
  BY <1>1, Invariance, PTL

\* Every row of a phase that stands for durable ingest is recorded when all
\* that was put is durable (DurableRows), for any flags and any faults: each
\* such row comes just after a FlushWAL of its store (ScriptGood), or its
\* store makes every write durable.
THEOREM RowsAreDurable == Spec => []DurableRows
<1>1. HInv => DurableRows
  BY DEF HInv
<1> QED
  BY <1>1, Invariance, PTL

\* The durable units recorded for batched ingest are those of the README's
\* table (FairUnits), for any flags, any faults and any batch size: the
\* script makes that many writes (ScriptGood), and each one that is made
\* before the row is one unit of its store.
THEOREM UnitsAreFair == Spec => []FairUnits
<1>1. Init => CountsUnits /\ FairUnits
  BY SMT DEF Init, CountsUnits, FairUnits
<1> QED
  BY <1>1, Invariance, NextUnits, PTL DEF Spec

\* speedRatioLine and its callers never name the slower one as faster, and
\* compare segment WAL with SQLite in every phase that both have a time for but
\* post_restart_row_count, in which they compare nothing (ComparesNameFaster),
\* for any durations.
THEOREM ComparisonsNameFaster == Spec => []ComparesNameFaster
<1>1. HInv => ComparesNameFaster
  BY DEF HInv
<1> QED
  BY <1>1, Invariance, PTL

\* A program that has met no error removes a directory only when the engines
\* in it are closed (RemovesClosedStores), for any flags, any faults and at
\* every point of any program: deferred calls run last in, first out, and
\* those of the scripts are in the right order (ScriptStacks).
THEOREM DirectoriesRemovedClosed == Spec => RemovesClosedStores
<1>1. Init => Stacked
  BY SMT DEF Init, Stacked, OpenStores
<1>2. HInv /\ Stacked /\ [Next]_vars =>
         /\ Stacked'
         /\ [status = "running" /\ status' = "running" =>
                \A p \in DOMAIN stores \ DOMAIN stores' : ~stores[p].open]_vars
  BY ScriptsAre, NextStacked
<1>3. QED
  BY <1>1, <1>2, Invariance, PTL DEF Spec, RemovesClosedStores

\* The harness never exits with success when the store of an integrity check
\* has lost rows (NoSilentLoss), whatever fails unseen: the count after the
\* reopen is short, the row says so, and the gate finds it, be it in the rows
\* or in the lines that were published.
THEOREM LossIsNoticed == Spec => []NoSilentLoss
<1>1. Init => Noticed /\ NoSilentLoss
  <2> SUFFICES ASSUME Init PROVE Noticed /\ NoSilentLoss
    OBVIOUS
  <2>1. status = "none" /\ DOMAIN stores = {}
    BY SMT DEF Init
  <2>2. QED
    BY <2>1 DEF Noticed, NoSilentLoss
<1>2. HInv /\ WInv /\ Noticed /\ NoSilentLoss /\ [Next]_vars => Noticed' /\ NoSilentLoss'
  BY ScriptsAre, InductiveIs, NextLoss
<1>3. QED
  BY <1>1, <1>2, Invariance, PTL DEF Spec

\* After a successful run with -runs-root what is published is whole, of this
\* run, has lines for just the profiles that were asked for, and no two for
\* the same engine, phase and metric (PublishedCovers), for any flags and
\* whatever fails: the rows of a profile are recorded in one order
\* (ScriptRanks), and main makes the writer, appends once, after the last
\* row, and finalizes (ScriptPublishes).
THEOREM RunsArePublished == Spec => []PublishedCovers
<1>1. Init => Ranked /\ Publishes /\ PublishedCovers
  BY DEF Init, Ranked, Publishes, PublishedCovers
<1>2. HInv => HTypes
  BY DEF HInv
<1>3. /\ HInv /\ WInv /\ Ranked /\ Publishes /\ PublishedCovers /\ [Next]_vars
      => Ranked' /\ Publishes' /\ PublishedCovers'
  BY <1>2, ScriptsAre, InductiveIs, NextPublishes, NextPublishedCovers
<1>4. QED
  BY <1>1, <1>3, Invariance, PTL DEF Spec

\* A run with -runs-root that ends because of its integrity check has
\* published the results.jsonl that its last message refers to, with the line
\* that failed, in a directory that is whole and of this run
\* (FailuresArePublished), for any flags and whatever fails: main checks after
\* Finalize (ScriptPublishes), and what it checks is what Finalize has written.
THEOREM FailedRunsArePublished == Spec => []FailuresArePublished
<1>1. Init => Ranked /\ Publishes /\ FailuresArePublished
  BY DEF Init, Ranked, Publishes, FailuresArePublished
<1>2. HInv => HTypes
  BY DEF HInv
<1>3. /\ HInv /\ WInv /\ Ranked /\ Publishes /\ FailuresArePublished /\ [Next]_vars
      => Ranked' /\ Publishes' /\ FailuresArePublished'
  BY <1>2, ScriptsAre, InductiveIs, NextPublishes, NextFailuresArePublished
<1>4. QED
  BY <1>1, <1>3, Invariance, PTL DEF Spec

\* What main and the end of a process do to the run writer are steps of it.
LEMMA HarnessUsesWriter == Spec => WSpec
  BY Invariance, PTL DEF WSpec

\* So what is proved of the writer holds of the programs: the first
\* publication of a run is atomic (FirstPublishAtomic).
THEOREM HarnessPublishesWhole == Spec => []FirstPublishAtomic
  BY HarnessUsesWriter, PublishesWhole, PTL

\* And a whole copy of a run is lost only to a later NewRunWriter of the same
\* run id (OnlyRestartForgets), whichever program fails where.
THEOREM HarnessKeepsACopy == Spec => OnlyRestartForgets
  BY HarnessUsesWriter, FinalizeKeepsACopy, PTL
=============================================================================
