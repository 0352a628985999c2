------------------------------- MODULE GoHandle -------------------------------
(* The F4KVS value of the Go binding: goroutines call its methods, some of *)
(* which loop over others, while any of them may call Close.               *)
(*                                                                         *)
(* A method takes the read lock, checks the handle (rLockLive), is inside  *)
(* C for a while and unlocks on return.  Close takes the write lock, shuts *)
(* the engine down, frees it and clears the handle.  The lock is Go's      *)
(* sync.RWMutex: a waiting writer holds back new readers, and the readers  *)
(* it held back enter together when it unlocks.                            *)
EXTENDS Naturals, FiniteSets

CONSTANTS
    Procs,     \* goroutines
    None,      \* no goroutine
    MaxItems   \* bound on the keys a looping method is called with

ASSUME HandleAssumption == None \notin Procs /\ MaxItems \in Nat \ {0}

VARIABLES
    readers,   \* goroutines holding the read lock
    held,      \* goroutines waiting in RLock for the writer to finish
    writer,    \* the goroutine between Lock's announcement and Unlock
    handle,    \* F4KVS.handle: "ptr" or "nil"
    closed,    \* F4KVS.closed
    engine,    \* the Rust engine: "open", "shut" (closed) or "freed"
    pc, kind,  \* where a goroutine is, and in which method
    todo,      \* C calls a looping method still has to make
    res,       \* what the goroutine's last method returned
    shutSeen,  \* history: some Close has returned
    late       \* history: shutSeen when the goroutine's method was called

lockVars == <<readers, held, writer>>
engineVars == <<handle, closed, engine>>
vars == <<lockVars, engineVars, pc, kind, todo, res, shutSeen, late>>

Kinds == {"none", "op", "scan", "empty", "close"}
Results == {"none", "ok", "error", "ErrClosed", "nil"}

TypeOK ==
    /\ readers \subseteq Procs /\ held \subseteq Procs
    /\ writer \in Procs \cup {None}
    /\ handle \in {"ptr", "nil"} /\ closed \in BOOLEAN
    /\ engine \in {"open", "shut", "freed"}
    /\ pc \in [Procs -> {"idle", "rlock", "held", "check", "inC",
                         "lock", "wait", "crit", "free", "clear"}]
    /\ kind \in [Procs -> Kinds] /\ res \in [Procs -> Results]
    /\ todo \in [Procs -> 0..MaxItems]
    /\ shutSeen \in BOOLEAN /\ late \in [Procs -> BOOLEAN]

Init ==
    /\ readers = {} /\ held = {} /\ writer = None
    /\ handle = "ptr" /\ closed = FALSE /\ engine = "open"
    /\ pc = [p \in Procs |-> "idle"] /\ kind = [p \in Procs |-> "none"]
    /\ todo = [p \in Procs |-> 0] /\ res = [p \in Procs |-> "none"]
    /\ shutSeen = FALSE /\ late = [p \in Procs |-> FALSE]

-----------------------------------------------------------------------------
(* Method entry.                                                           *)

Call(p, k, n, at) ==
    /\ pc[p] = "idle"
    /\ pc' = [pc EXCEPT ![p] = at]
    /\ kind' = [kind EXCEPT ![p] = k]
    /\ todo' = [todo EXCEPT ![p] = n]
    /\ res' = [res EXCEPT ![p] = "none"]
    /\ late' = [late EXCEPT ![p] = shutSeen]
    /\ UNCHANGED <<lockVars, engineVars, shutSeen>>

\* Without items a method returns nil before it looks at the handle.
CallEmpty(p) ==
    /\ pc[p] = "idle"
    /\ kind' = [kind EXCEPT ![p] = "empty"]
    /\ res' = [res EXCEPT ![p] = "ok"]
    /\ late' = [late EXCEPT ![p] = shutSeen]
    /\ UNCHANGED <<lockVars, engineVars, pc, todo, shutSeen>>

GetBytes(p) == Call(p, "op", 1, "rlock")
PutBytes(p) == Call(p, "op", 1, "rlock")
Delete(p) == Call(p, "op", 1, "rlock")
ScanPrefixKeys(p) == Call(p, "scan", 1, "rlock")
BatchPutBytes(p) == Call(p, "op", 1, "rlock") \/ CallEmpty(p)
BatchDelete(p) == Call(p, "op", 1, "rlock") \/ CallEmpty(p)
SetBulkImport(p) == Call(p, "op", 1, "rlock")
Flush(p) == Call(p, "op", 1, "rlock")
FlushWAL(p) == Call(p, "op", 1, "rlock")
Sync(p) == Call(p, "op", 1, "rlock")

\* These lock, check and call once per item.
BatchPut(p) ==
    \/ \E n \in 1..MaxItems : Call(p, "op", n, "rlock")
    \/ CallEmpty(p)
BatchGetBytes(p) ==
    \/ \E n \in 1..MaxItems : Call(p, "op", n, "rlock")
    \/ CallEmpty(p)

-----------------------------------------------------------------------------
(* The read side.                                                          *)

RLock(p) ==
    /\ pc[p] = "rlock"
    /\ \/ /\ writer = None
          /\ readers' = readers \cup {p}
          /\ pc' = [pc EXCEPT ![p] = "check"]
          /\ UNCHANGED held
       \/ /\ writer # None
          /\ held' = held \cup {p}
          /\ pc' = [pc EXCEPT ![p] = "held"]
          /\ UNCHANGED readers
    /\ UNCHANGED <<writer, engineVars, kind, todo, res, shutSeen, late>>

RUnlock(p) == readers' = readers \ {p} /\ UNCHANGED <<held, writer>>

Return(p, r) ==
    /\ pc' = [pc EXCEPT ![p] = "idle"]
    /\ res' = [res EXCEPT ![p] = r]
    /\ todo' = [todo EXCEPT ![p] = 0]

\* Mutant: the handle is used without a look at closed.
rLockLive_unchecked(p) ==
    /\ pc[p] = "check"
    /\ pc' = [pc EXCEPT ![p] = "inC"]
    /\ UNCHANGED <<lockVars, res, todo, engineVars, kind, shutSeen, late>>

\* Mutant: the read lock is dropped once the handle is checked.
rLockLive_unlocks(p) ==
    /\ pc[p] = "check"
    /\ RUnlock(p)
    /\ \/ closed /\ Return(p, "ErrClosed")
       \/ ~closed /\ pc' = [pc EXCEPT ![p] = "inC"] /\ UNCHANGED <<res, todo>>
    /\ UNCHANGED <<engineVars, kind, shutSeen, late>>

\* A scan reports a closed engine like an empty one.
rLockLive(p) ==
    /\ pc[p] = "check"
    /\ \/ /\ closed \/ handle = "nil"
          /\ RUnlock(p)
          /\ Return(p, IF kind[p] = "scan" THEN "nil" ELSE "ErrClosed")
       \/ /\ ~closed /\ handle = "ptr"
          /\ pc' = [pc EXCEPT ![p] = "inC"]
          /\ UNCHANGED <<lockVars, res, todo>>
    /\ UNCHANGED <<engineVars, kind, shutSeen, late>>

\* What a method makes of the result code of its C call; "error" is any error
\* but ErrClosed (ErrNotFound, InvalidArgument, a storage error).
Outcomes == [op |-> {"ok", "error"}, scan |-> {"ok", "nil"}]

\* The C call returns; a loop goes on to its next item only after success.
CReturn(p) ==
    /\ pc[p] = "inC"
    /\ RUnlock(p)
    /\ \E r \in Outcomes[kind[p]] :
          \/ /\ r = "ok" /\ todo[p] > 1
             /\ pc' = [pc EXCEPT ![p] = "rlock"]
             /\ todo' = [todo EXCEPT ![p] = @ - 1]
             /\ UNCHANGED res
          \/ /\ r = "ok" => todo[p] = 1
             /\ Return(p, r)
    /\ UNCHANGED <<engineVars, kind, shutSeen, late>>

-----------------------------------------------------------------------------
(* The write side.                                                         *)

Close(p) == Call(p, "close", 0, "lock")

\* Lock: one writer at a time announces itself, then waits for the readers.
Announce(p) ==
    /\ pc[p] = "lock" /\ writer = None
    /\ writer' = p
    /\ pc' = [pc EXCEPT ![p] = "wait"]
    /\ UNCHANGED <<readers, held, engineVars, kind, todo, res, shutSeen, late>>

\* Mutant: the writer does not wait for the readers.
Lock_at_once(p) ==
    /\ pc[p] = "wait"
    /\ pc' = [pc EXCEPT ![p] = "crit"]
    /\ UNCHANGED <<lockVars, engineVars, kind, todo, res, shutSeen, late>>

Lock(p) ==
    /\ pc[p] = "wait" /\ readers = {}
    /\ pc' = [pc EXCEPT ![p] = "crit"]
    /\ UNCHANGED <<lockVars, engineVars, kind, todo, res, shutSeen, late>>

\* The readers this writer held back all enter.
Unlock(p) ==
    /\ writer' = None
    /\ readers' = readers \cup held
    /\ held' = {}
    /\ pc' = [q \in Procs |-> IF q = p THEN "idle"
                              ELSE IF q \in held THEN "check" ELSE pc[q]]
    /\ res' = [res EXCEPT ![p] = "ok"]
    /\ shutSeen' = TRUE
    /\ UNCHANGED <<kind, todo, late>>

\* Mutant: the early return of a second Close skips the unlock.
CloseAgain_keeps_lock(p) ==
    /\ pc[p] = "crit" /\ handle = "nil"
    /\ Return(p, "ok")
    /\ UNCHANGED <<lockVars, engineVars, kind, shutSeen, late>>

\* A second Close finds no handle.
CloseAgain(p) ==
    /\ pc[p] = "crit" /\ handle = "nil"
    /\ Unlock(p)
    /\ UNCHANGED engineVars

\* The result of the shutdown is ignored: the engine is freed regardless.
f4kvs_engine_close(p) ==
    /\ pc[p] = "crit" /\ handle # "nil"
    /\ engine' = "shut"
    /\ pc' = [pc EXCEPT ![p] = "free"]
    /\ UNCHANGED <<lockVars, handle, closed, kind, todo, res, shutSeen, late>>

f4kvs_engine_free(p) ==
    /\ pc[p] = "free"
    /\ engine' = "freed"
    /\ pc' = [pc EXCEPT ![p] = "clear"]
    /\ UNCHANGED <<lockVars, handle, closed, kind, todo, res, shutSeen, late>>

\* Mutant: the handle is not cleared.
CloseDone_keeps_handle(p) ==
    /\ pc[p] = "clear"
    /\ closed' = TRUE
    /\ Unlock(p)
    /\ UNCHANGED <<handle, engine>>

CloseDone(p) ==
    /\ pc[p] = "clear"
    /\ handle' = "nil" /\ closed' = TRUE
    /\ Unlock(p)
    /\ UNCHANGED engine

-----------------------------------------------------------------------------
CallMethod(p) ==
    \/ GetBytes(p) \/ PutBytes(p) \/ Delete(p) \/ ScanPrefixKeys(p)
    \/ BatchPutBytes(p) \/ BatchDelete(p) \/ SetBulkImport(p)
    \/ Flush(p) \/ FlushWAL(p) \/ Sync(p)
    \/ BatchPut(p) \/ BatchGetBytes(p) \/ Close(p)

Step(p) ==
    \/ RLock(p) \/ rLockLive(p) \/ CReturn(p)
    \/ Lock(p) \/ CloseAgain(p) \/ f4kvs_engine_close(p)
    \/ f4kvs_engine_free(p) \/ CloseDone(p)

Next == \E p \in Procs : CallMethod(p) \/ Step(p) \/ Announce(p)

Spec == Init /\ [][Next]_vars

\* A goroutine inside a method keeps running and C calls return.  sync.Mutex,
\* which serialises writers, hands itself to a waiter that lost too often.
FairSpec ==
    Spec /\ \A p \in Procs : WF_vars(Step(p)) /\ SF_vars(Announce(p))

-----------------------------------------------------------------------------
(* Properties.                                                             *)

\* No C call is inside the engine once Close has begun to shut it down: the
\* pointer rLockLive checked stays valid until RUnlock.
NoUseAfterClose == \A p \in Procs : pc[p] = "inC" => engine = "open"

\* However many Close calls overlap, the engine is shut down and freed once,
\* in that order: each closer finds it as the previous step left it.
ShutOnce ==
    \A p \in Procs : /\ pc[p] = "crit" /\ handle = "ptr" => engine = "open"
                     /\ pc[p] = "free" => engine = "shut"
                     /\ pc[p] = "clear" => engine = "freed" /\ handle = "ptr"

\* A method called after a Close returned never gets past rLockLive: it
\* reports ErrClosed (nil from a scan), or had no items to work on.
ClosedForGood ==
    \A p \in Procs : late[p] /\ kind[p] \notin {"close", "empty"} =>
        /\ pc[p] # "inC"
        /\ res[p] \in {"none", IF kind[p] = "scan" THEN "nil" ELSE "ErrClosed"}

\* Every method returns, Close included: no stream of readers keeps Close
\* waiting, and no stream of Close calls keeps a reader waiting.
MethodsReturn == \A p \in Procs : pc[p] # "idle" ~> pc[p] = "idle"

\* The lock and the handle check together keep the promise.
Abstract == INSTANCE ClosableEngine
    WITH status <- engine, active <- {p \in Procs : pc[p] = "inC"}
ImplementsClosable == Abstract!ASpec

-----------------------------------------------------------------------------
(* Why it is safe, as an inductive invariant: the read lock is held from   *)
(* the check to the return from C, the write lock from the wait to the     *)
(* unlock, and outside a closing critical section the handle is set        *)
(* exactly while the engine is open.                                       *)

Closing == {"crit", "free", "clear"}

LockInv ==
    /\ readers = {p \in Procs : pc[p] \in {"check", "inC"}}
    /\ held = {p \in Procs : pc[p] = "held"}
    /\ \A p \in Procs : pc[p] \in Closing \cup {"wait"} => writer = p
    /\ \A p \in Procs : pc[p] \in Closing => readers = {}

HandleInv ==
    /\ closed <=> handle = "nil"
    /\ handle = "nil" => engine = "freed"
    /\ shutSeen => handle = "nil"
    /\ (handle = "ptr" /\ \A p \in Procs : pc[p] \notin {"free", "clear"}) =>
          engine = "open"
    /\ \A p \in Procs : pc[p] = "free" => engine = "shut" /\ handle = "ptr"
    /\ \A p \in Procs : pc[p] = "clear" => engine = "freed" /\ handle = "ptr"

CallInv ==
    \A p \in Procs :
        /\ late[p] => shutSeen
        /\ pc[p] \in Closing \cup {"lock", "wait"} => kind[p] = "close"
        /\ pc[p] \in {"rlock", "held", "check", "inC"} =>
              kind[p] \in {"op", "scan"} /\ todo[p] > 0

IInv ==
    /\ TypeOK
    /\ LockInv
    /\ HandleInv
    /\ CallInv
    /\ NoUseAfterClose
    /\ ClosedForGood
=============================================================================
