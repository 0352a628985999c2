--------------------------- MODULE BenchRunWriter ---------------------------
(* The run writer of the benchmark (RunWriter in de_out.go).  A process    *)
(* stages the files of a run in <run id>.partial, and publishes them by    *)
(* renaming that directory to <run id>.  A step is one call of the file    *)
(* system; the process may die between any two, and a later process may    *)
(* use the same run id.  Two processes never use one at the same time.     *)
EXTENDS Naturals, Sequences

CONSTANTS
    RunIds,
    Names,      \* what engines, phases and metrics are called
    Absent,     \* no file, no directory
    Torn,       \* a file that has been created and is not complete
    MaxLives    \* bound: processes that make a writer

\* A complete file is known by the process that wrote it and by the lines of
\* the run.  A directory is the content of its files.
Files == {"manifest", "results", "legacy"}
Lines == [engine : Names, phase : Names, metric : Names, value : Nat]
Contents == [life : Nat, lines : Seq(Lines)]
Dirs == [Files -> {Absent, Torn} \cup Contents]

ASSUME WriterAssumption ==
    MaxLives \in Nat /\ Absent \notin Contents /\ Torn \notin Contents /\ Absent \notin Dirs

VARIABLES
    partial, final,  \* run id -> its staging directory, its published one
    life,            \* how many writers have been made
    wid,             \* the run id of the present one
    wpc,             \* what it does next, "none" if there is no writer
    wlines,          \* the lines it has buffered
    replaced         \* history: the run ids of which a published run was removed

wvars == <<partial, final, life, wid, wpc, wlines, replaced>>

Empty == [f \in Files |-> Absent]
Content == [life |-> life, lines |-> wlines]

\* All files are there, and they are of one run.
Whole(dir) == dir # Absent /\ dir["manifest"] \in Contents
              /\ \A f \in Files : dir[f] = dir["manifest"]

NextFile(f) == CASE f = "manifest" -> "results" [] f = "results" -> "legacy" [] OTHER -> "remove"

WTypeOK ==
    /\ life \in 0 .. MaxLives
    /\ wpc \in {"none", "clear", "make", "append", "remove", "rename", "done"} \cup Files
    /\ wpc # "none" => wid \in RunIds
    /\ wlines \in Seq(Lines)
    /\ partial \in [RunIds -> {Absent} \cup Dirs] /\ final \in [RunIds -> {Absent} \cup Dirs]

WInit ==
    /\ partial = [id \in RunIds |-> Absent] /\ final = [id \in RunIds |-> Absent]
    /\ life = 0 /\ wid = Absent /\ wpc = "none" /\ wlines = <<>>
    /\ replaced = {}

-----------------------------------------------------------------------------
Goto(pc) == wpc' = pc /\ UNCHANGED <<life, wid, wlines>>

\* A call fails, the error is returned and the process ends; or it dies.
Stop == wpc # "none" /\ Goto("none") /\ UNCHANGED <<partial, final, replaced>>

\* Mutant: the run id is not kept.
NewRunWriter_unnamed(id) ==
    /\ wpc = "none" /\ life < MaxLives
    /\ life' = life + 1 /\ wid' = Absent /\ wpc' = "clear" /\ wlines' = <<>>
    /\ UNCHANGED <<partial, final, replaced>>

NewRunWriter(id) ==
    /\ wpc = "none" /\ life < MaxLives
    /\ life' = life + 1 /\ wid' = id /\ wpc' = "clear" /\ wlines' = <<>>
    /\ UNCHANGED <<partial, final, replaced>>

\* os.RemoveAll removes one file after the other, then the directory.
RemoveStep(dirs, dirsNext, next) ==
    \/ \E f \in Files :
          /\ dirs[wid] # Absent /\ dirs[wid][f] # Absent
          /\ dirsNext = [dirs EXCEPT ![wid] = [@ EXCEPT ![f] = Absent]]
          /\ Goto(wpc)
    \/ /\ dirs[wid] \in {Absent, Empty}
       /\ dirsNext = [dirs EXCEPT ![wid] = Absent]
       /\ Goto(next)

\* What a process of the same run id has left behind goes.
ClearPartial == wpc = "clear" /\ RemoveStep(partial, partial', "make") /\ UNCHANGED <<final, replaced>>

MakePartial ==
    /\ wpc = "make" /\ Goto("append")
    /\ partial' = [partial EXCEPT ![wid] = Empty] /\ UNCHANGED <<final, replaced>>

AppendPhaseResults(lines) ==
    /\ wpc = "append" /\ wlines' = wlines \o lines
    /\ UNCHANGED <<partial, final, life, wid, wpc, replaced>>

\* Mutant: the previous run is removed before the files are written.
Finalize_removes_first ==
    /\ wpc = "append" /\ Goto("manifest")
    /\ final' = [final EXCEPT ![wid] = Absent] /\ UNCHANGED <<partial, replaced>>

\* Finalize begins, and goes on with the steps below.
Finalize == wpc = "append" /\ Goto("manifest") /\ UNCHANGED <<partial, final, replaced>>

CreateFile(f) ==
    /\ wpc = f /\ partial[wid][f] = Absent /\ Goto(f)
    /\ partial' = [partial EXCEPT ![wid] = [@ EXCEPT ![f] = Torn]] /\ UNCHANGED <<final, replaced>>

\* Mutant: nothing is written through.
FillFile_unflushed(f) ==
    wpc = f /\ partial[wid][f] = Torn /\ Goto(NextFile(f)) /\ UNCHANGED <<partial, final, replaced>>

FillFile(f) ==
    /\ wpc = f /\ partial[wid][f] = Torn /\ Goto(NextFile(f))
    /\ partial' = [partial EXCEPT ![wid] = [@ EXCEPT ![f] = Content]] /\ UNCHANGED <<final, replaced>>

\* An error of this RemoveAll is ignored, wherever it happens.
RemoveFinal ==
    /\ wpc = "remove" /\ UNCHANGED partial
    /\ \/ RemoveStep(final, final', "rename")
       \/ Goto("rename") /\ UNCHANGED final
    /\ replaced' = IF final[wid] = Absent THEN replaced ELSE replaced \cup {wid}

\* os.Rename refuses to replace a directory.
Rename ==
    /\ wpc = "rename" /\ final[wid] = Absent /\ Goto("done")
    /\ final' = [final EXCEPT ![wid] = partial[wid]]
    /\ partial' = [partial EXCEPT ![wid] = Absent]
    /\ UNCHANGED replaced

WriterStep ==
    \/ ClearPartial \/ MakePartial \/ RemoveFinal \/ Rename
    \/ \E f \in Files : CreateFile(f) \/ FillFile(f)

WNext ==
    \/ \E id \in RunIds : NewRunWriter(id)
    \/ wlines' \in Seq(Lines) /\ AppendPhaseResults(SubSeq(wlines', Len(wlines) + 1, Len(wlines')))
    \/ Finalize \/ WriterStep \/ Stop

WSpec == WInit /\ [][WNext]_wvars

-----------------------------------------------------------------------------
(* Properties.                                                             *)

HasCopy(id) == Whole(partial[id]) \/ Whole(final[id])

\* Whatever dies when, a published directory is whole, unless a later
\* Finalize for the same run id has begun to remove it: the first publication
\* of a run is atomic, whatever happened to earlier processes that staged it.
FirstPublishAtomic ==
    \A id \in RunIds \ replaced : final[id] = Absent \/ Whole(final[id])

\* A whole copy of a run, once there is one, is lost only to the RemoveAll of
\* a NewRunWriter for the same run id: Finalize, wherever it stops, leaves
\* the previous copy or the new one.
OnlyRestartForgets ==
    [][\A id \in RunIds : HasCopy(id) /\ ~HasCopy(id)' => wpc = "clear" /\ wid = id]_wvars
=============================================================================
