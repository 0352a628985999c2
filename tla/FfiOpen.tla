------------------------------- MODULE FfiOpen -------------------------------
(* Opening engines, from C and from Go.  f4kvs_engine_new opens one in a   *)
(* directory of the system's temporary directory, named after the process  *)
(* id and a process-wide counter: nobody removes it, and process ids are   *)
(* reused.  The other calls open the directory they are given, with the    *)
(* options they are given.  A call checks and converts its arguments in a  *)
(* first step and creates the engine in a second.                          *)
EXTENDS OpenOptions, Sequences, FiniteSetsExt

CONSTANTS
    Threads, Pids,
    Paths,        \* paths that callers pass: sequences of bytes
    Structs,      \* F4KvsOpenOptions that C callers pass: [memory, size]
    GoOptions,    \* OpenOptions that Go callers pass
    Nul, NotUtf8, \* special bytes
    MaxEngines,   \* bound: ephemeral engines a process makes
    MaxRuns       \* bound: runs of programs that use the library

\* What is left of a path as a C string.
CString(path) ==
    LET nuls == {i \in DOMAIN path : path[i] = Nul}
    IN  IF nuls = {} THEN path ELSE SubSeq(path, 1, Min(nuls) - 1)

\* The path of a data directory, or None where it is refused.
validate_data_dir(path) ==
    IF path = None THEN None
    ELSE LET s == CString(path)
         IN  IF s = <<>> \/ (\E i \in DOMAIN s : s[i] = NotUtf8) THEN None ELSE s

Ephemeral == Pids \X (0 .. MaxEngines)

\* The options that are booleans in Go.
Flags == {"group_commit_enabled", "group_commit_wait_durable"}

\* Sizes are those of structs with 4-byte fields, and no caller passes the
\* path of an ephemeral directory.
ASSUME OpenAssumption ==
    /\ MaxEngines \in Nat /\ MaxRuns \in Nat /\ None \notin Pids /\ None \notin Ephemeral
    /\ \A p \in Structs : /\ p.size \in Nat /\ (p.size = 0 \/ p.size >= MinVersioned)
                          /\ p.size % 4 = 0 /\ p.memory \in [Fields -> Nat]
    /\ \A o \in GoOptions : /\ DOMAIN o = Fields
                            /\ \A f \in Fields : o[f] \in IF f \in Flags THEN BOOLEAN ELSE Nat
    /\ \A p \in Paths : /\ validate_data_dir(p) \notin Ephemeral
                        /\ validate_data_dir(CString(p)) \notin Ephemeral

VARIABLES
    run,      \* which run of a program this is
    pid,      \* the process id, None between two runs
    counter,  \* ENGINE_COUNTER
    disk,     \* directory -> the runs whose data is in it
    dir,      \* thread -> the directory of its engine, or None
    up,       \* thread -> its engine is open
    config,   \* thread -> the configuration of its engine, or None
    found,    \* history: thread -> what its engine held when it was opened
    asked     \* history: thread -> the options the caller gave, or None

vars == <<run, pid, counter, disk, dir, up, config, found, asked>>

Dirs == Ephemeral \cup ({validate_data_dir(p) : p \in Paths} \ {None})

Init ==
    /\ run = 0 /\ pid = None /\ counter = 0
    /\ disk = [d \in Dirs |-> {}]
    /\ dir = [t \in Threads |-> None] /\ up = [t \in Threads |-> FALSE]
    /\ config = [t \in Threads |-> None]
    /\ found = [t \in Threads |-> {}] /\ asked = [t \in Threads |-> None]

\* The system gives a new process any id that is free.
Start ==
    /\ pid = None /\ run < MaxRuns
    /\ run' = run + 1 /\ pid' \in Pids /\ counter' = 0
    /\ UNCHANGED <<disk, dir, up, config, found, asked>>

\* The process exits or is killed.
Exit ==
    /\ pid # None /\ pid' = None
    /\ dir' = [t \in Threads |-> None] /\ up' = [t \in Threads |-> FALSE]
    /\ config' = [t \in Threads |-> None]
    /\ found' = [t \in Threads |-> {}] /\ asked' = [t \in Threads |-> None]
    /\ UNCHANGED <<run, counter, disk>>

-----------------------------------------------------------------------------
(* The first step of a call.                                               *)

Idle(t) == pid # None /\ dir[t] = None

\* options: what the caller gave; o: what open_lsm_engine gets.
Begin(t, d, options, o) ==
    /\ Idle(t)
    /\ dir' = [dir EXCEPT ![t] = d]
    /\ config' = [config EXCEPT ![t] = apply_open_options(Defaults, o)]
    /\ asked' = [asked EXCEPT ![t] = options]
    /\ UNCHANGED <<run, pid, disk, up, found>>

\* Mutant: the counter is read and not advanced.
unique_data_dir_load == counter' = counter

\* fetch_add.
unique_data_dir == counter' = counter + 1

f4kvs_engine_new(t) ==
    /\ counter < MaxEngines
    /\ Begin(t, <<pid, counter>>, None, None)
    /\ unique_data_dir

\* A refused path: the call returns NULL.
f4kvs_engine_open(t, path) ==
    LET d == validate_data_dir(path)
    IN  IF d = None THEN Idle(t) /\ UNCHANGED vars
        ELSE Begin(t, d, None, None) /\ UNCHANGED counter

OpenEx(t, path, p, options) ==
    LET d == validate_data_dir(path)
    IN  IF d = None THEN Idle(t) /\ UNCHANGED vars
        ELSE Begin(t, d, options, read_open_options(p)) /\ UNCHANGED counter

f4kvs_engine_open_ex(t, path, p) == OpenEx(t, path, p, p)

NewMemoryEngine(t) == f4kvs_engine_new(t)

\* What a Go caller says, in the terms of the C struct.
Meant(o) ==
    [size |-> SizeOf,
     memory |-> [f \in Fields |->
        IF f \in Flags THEN (IF o[f] THEN 1 ELSE 0) ELSE o[f]]]

NewPersistentEngineWithOptions(t, path, o) ==
    IF o = None THEN f4kvs_engine_open(t, CString(path))
    ELSE OpenEx(t, CString(path), CopyOptions(o), Meant(o))

NewPersistentEngine(t, path) == NewPersistentEngineWithOptions(t, path, None)

-----------------------------------------------------------------------------
\* The second step: an engine finds whatever its directory holds.  It may
\* fail, and the call then returns NULL.
open_lsm_engine(t) ==
    /\ dir[t] # None /\ ~up[t]
    /\ \/ /\ up' = [up EXCEPT ![t] = TRUE]
          /\ found' = [found EXCEPT ![t] = disk[dir[t]]]
          /\ UNCHANGED <<dir, config, asked>>
       \/ /\ dir' = [dir EXCEPT ![t] = None]
          /\ config' = [config EXCEPT ![t] = None]
          /\ asked' = [asked EXCEPT ![t] = None]
          /\ UNCHANGED <<up, found>>
    /\ UNCHANGED <<run, pid, counter, disk>>

\* Data reaches the directory.
Write(t) ==
    /\ up[t]
    /\ disk' = [disk EXCEPT ![dir[t]] = @ \cup {run}]
    /\ UNCHANGED <<run, pid, counter, dir, up, config, found, asked>>

\* The directory stays.
f4kvs_engine_free(t) ==
    /\ up[t]
    /\ dir' = [dir EXCEPT ![t] = None] /\ up' = [up EXCEPT ![t] = FALSE]
    /\ config' = [config EXCEPT ![t] = None]
    /\ found' = [found EXCEPT ![t] = {}] /\ asked' = [asked EXCEPT ![t] = None]
    /\ UNCHANGED <<run, pid, counter, disk>>

Goes(t) == open_lsm_engine(t) \/ Write(t) \/ f4kvs_engine_free(t)

\* A call with options from the given sets.
Opens(t, structs, options) ==
    \/ f4kvs_engine_new(t) \/ NewMemoryEngine(t)
    \/ \E path \in Paths \cup {None} :
          \/ f4kvs_engine_open(t, path)
          \/ \E p \in structs \cup {None} : f4kvs_engine_open_ex(t, path, p)
    \/ \E path \in Paths :
          \/ NewPersistentEngine(t, path)
          \/ \E o \in options : NewPersistentEngineWithOptions(t, path, o)

Next ==
    \/ Start \/ Exit
    \/ \E t \in Threads : Opens(t, Structs, GoOptions) \/ Goes(t)

Spec == Init /\ [][Next]_vars

-----------------------------------------------------------------------------
(* Properties.                                                             *)

\* However the threads of a process create, use and free ephemeral engines,
\* an engine never starts with data of another engine of the same process,
\* and no two of them work in the same directory at a time: the counter of
\* unique_data_dir.
OwnDirectory ==
    /\ \A t \in Threads : dir[t] \in Ephemeral => run \notin found[t]
    /\ \A t, u \in Threads : t # u /\ dir[t] \in Ephemeral => dir[t] # dir[u]

\* An engine has the configuration that the header describes for the options
\* its caller gave, from C or from Go; nothing behind the declared
\* struct_size has any influence (read_open_options, apply_open_options).  An
\* option left at zero means the preset's or the library's default, where the
\* wait of the amortized preset is 50 ms and not the header's 10 ms.
AsDocumented ==
    \A t \in Threads : config[t] # None =>
        IF asked[t] = None THEN config[t] = Defaults ELSE Documented(config[t], asked[t])

\* Compaction never has to write a table above the maximum to reach its
\* target: the maximum is what the caller asked for, or else the default, but
\* never below the target (the last statement of apply_open_options).
MaxCoversTarget ==
    \A t \in Threads : config[t] # None /\ asked[t] # None => Covers(config[t], asked[t])
=============================================================================
