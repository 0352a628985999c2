------------------------------- MODULE GoProofs -------------------------------
(* The Go binding.  The inductive invariant of GoHandle holds for any      *)
(* number of goroutines, and the binding implements ClosableEngine.  The   *)
(* inductive invariant of GoTxn holds for any number of transactions and   *)
(* keys, provided no two keys are cut to the same name.                    *)
EXTENDS GoHandle, GoTxn, TLAPS

USE HandleAssumption DEF Closing

LEMMA InitIInv == Init => IInv
<1> SUFFICES ASSUME Init PROVE IInv
  BY Zenon
<1> USE DEF Init
<1>1. TypeOK
  <2>1. 0 \in 0..MaxItems
    OBVIOUS
  <2>2. QED
    BY <2>1, ZenonT(60) DEF TypeOK, Kinds, Results
<1>2. LockInv /\ HandleInv
  BY Zenon DEF LockInv, HandleInv
<1>3. CallInv /\ NoUseAfterClose /\ ClosedForGood
  BY Zenon DEF CallInv, NoUseAfterClose, ClosedForGood
<1>4. QED
  BY <1>1, <1>2, <1>3, Zenon DEF IInv

\* Entering a method touches neither the lock nor the engine.
LEMMA CallIInv ==
  ASSUME IInv, NEW p \in Procs, NEW n \in 1..MaxItems,
         NEW k \in {"op", "scan"}, Call(p, k, n, "rlock")
  PROVE  IInv'
<1> USE DEF IInv, Call, lockVars, engineVars
<1>1. TypeOK'
  BY DEF TypeOK, Kinds, Results
<1>2. LockInv'
  BY Zenon DEF LockInv, TypeOK
<1>3. HandleInv'
  BY Zenon DEF HandleInv, TypeOK
<1>4. CallInv' /\ NoUseAfterClose' /\ ClosedForGood'
  BY DEF CallInv, NoUseAfterClose, ClosedForGood, TypeOK
<1>5. QED
  BY <1>1, <1>2, <1>3, <1>4, Zenon

LEMMA CallEmptyIInv ==
  ASSUME IInv, NEW p \in Procs, CallEmpty(p)
  PROVE  IInv'
  BY DEF CallEmpty, lockVars, engineVars, IInv, TypeOK, Kinds, Results, LockInv,
     HandleInv, CallInv, NoUseAfterClose, ClosedForGood

LEMMA CloseIInv ==
  ASSUME IInv, NEW p \in Procs, Close(p)
  PROVE  IInv'
<1> USE DEF IInv, Close, Call, lockVars, engineVars
<1>1. TypeOK'
  BY DEF TypeOK, Kinds, Results
<1>2. LockInv' /\ HandleInv'
  BY DEF LockInv, HandleInv, TypeOK
<1>3. CallInv' /\ NoUseAfterClose' /\ ClosedForGood'
  BY DEF CallInv, NoUseAfterClose, ClosedForGood, TypeOK
<1>4. QED
  BY <1>1, <1>2, <1>3, Zenon

LEMMA CallMethodIInv ==
  ASSUME IInv, NEW p \in Procs, CallMethod(p)
  PROVE  IInv'
<1>1. 1 \in 1..MaxItems
  OBVIOUS
<1>2. QED
  BY <1>1, CallIInv, CallEmptyIInv, CloseIInv, Zenon DEF CallMethod, GetBytes, PutBytes,
     Delete, ScanPrefixKeys, BatchPutBytes, BatchDelete, SetBulkImport, Flush,
     FlushWAL, Sync, BatchPut, BatchGetBytes

\* A reader enters only while no writer has announced itself.
LEMMA RLockIInv ==
  ASSUME IInv, NEW p \in Procs, RLock(p)
  PROVE  IInv'
<1> USE DEF IInv, RLock, engineVars
<1>1. TypeOK'
  BY Zenon DEF TypeOK
<1>2. LockInv'
  BY DEF LockInv, TypeOK
<1>3. HandleInv'
  BY Zenon DEF HandleInv, TypeOK
<1>4. CallInv' /\ NoUseAfterClose' /\ ClosedForGood'
  BY DEF CallInv, NoUseAfterClose, ClosedForGood, TypeOK
<1>5. QED
  BY <1>1, <1>2, <1>3, <1>4, Zenon

\* Past the check the engine is open: no closer is in its critical section
\* while the read lock is held.
LEMMA rLockLiveIInv ==
  ASSUME IInv, NEW p \in Procs, rLockLive(p)
  PROVE  IInv'
<1> USE DEF IInv, rLockLive, RUnlock, Return, lockVars, engineVars
<1>1. TypeOK'
  BY DEF TypeOK, Results
<1>2. LockInv'
  BY DEF LockInv, TypeOK
<1>3. HandleInv'
  BY DEF HandleInv, TypeOK
<1>4. CallInv'
  BY DEF CallInv, TypeOK
<1>5. NoUseAfterClose'
  BY DEF NoUseAfterClose, LockInv, HandleInv, TypeOK
<1>6. ClosedForGood'
  BY DEF ClosedForGood, CallInv, HandleInv, TypeOK
<1>7. QED
  BY <1>1, <1>2, <1>3, <1>4, <1>5, <1>6, Zenon

\* No method called after a Close is inside C.
LEMMA CReturnIInv ==
  ASSUME IInv, NEW p \in Procs, CReturn(p)
  PROVE  IInv'
<1> USE DEF IInv, CReturn, RUnlock, Return, engineVars
<1>1. Outcomes[kind[p]] \subseteq Results
  BY DEF Outcomes, Results, CallInv
<1>2. TypeOK'
  BY <1>1 DEF TypeOK, CallInv
<1>3. LockInv'
  BY DEF LockInv, TypeOK
<1>4. HandleInv'
  BY DEF HandleInv, TypeOK
<1>5. CallInv'
  BY DEF CallInv, TypeOK
<1>6. NoUseAfterClose'
  BY Zenon DEF NoUseAfterClose, TypeOK
<1>7. ClosedForGood'
  BY DEF ClosedForGood, CallInv, TypeOK
<1>8. QED
  BY <1>2, <1>3, <1>4, <1>5, <1>6, <1>7, Zenon

LEMMA AnnounceIInv ==
  ASSUME IInv, NEW p \in Procs, Announce(p)
  PROVE  IInv'
<1> USE DEF IInv, Announce, engineVars
<1>1. TypeOK' /\ LockInv'
  BY DEF TypeOK, LockInv
<1>2. HandleInv'
  BY Zenon DEF HandleInv, TypeOK
<1>3. CallInv' /\ NoUseAfterClose' /\ ClosedForGood'
  BY Zenon DEF CallInv, NoUseAfterClose, ClosedForGood, TypeOK
<1>4. QED
  BY <1>1, <1>2, <1>3, Zenon

LEMMA LockIInv ==
  ASSUME IInv, NEW p \in Procs, Lock(p)
  PROVE  IInv'
<1> USE DEF IInv, Lock, lockVars, engineVars
<1>1. TypeOK' /\ LockInv'
  BY Zenon DEF TypeOK, LockInv
<1>2. HandleInv'
  BY Zenon DEF HandleInv, TypeOK
<1>3. CallInv' /\ NoUseAfterClose' /\ ClosedForGood'
  BY Zenon DEF CallInv, NoUseAfterClose, ClosedForGood, TypeOK
<1>4. QED
  BY <1>1, <1>2, <1>3, Zenon

\* The closer is alone: nobody else is inside C when the engine goes.
LEMMA ShutIInv ==
  ASSUME IInv, NEW p \in Procs, f4kvs_engine_close(p) \/ f4kvs_engine_free(p)
  PROVE  IInv'
<1> USE DEF IInv, f4kvs_engine_close, f4kvs_engine_free, lockVars
<1>1. TypeOK' /\ LockInv'
  BY DEF TypeOK, LockInv
<1>2. HandleInv'
  BY DEF HandleInv, LockInv, TypeOK
<1>3. CallInv'
  BY DEF CallInv, TypeOK
<1>4. NoUseAfterClose'
  BY DEF NoUseAfterClose, LockInv, TypeOK
<1>5. ClosedForGood'
  BY DEF ClosedForGood, TypeOK
<1>6. QED
  BY <1>1, <1>2, <1>3, <1>4, <1>5, Zenon

\* Once the handle is clear the readers that were held back may look at it.
LEMMA UnlockIInv ==
  ASSUME IInv, NEW p \in Procs, CloseAgain(p) \/ CloseDone(p)
  PROVE  IInv'
<1> USE DEF IInv
<1>1. /\ pc[p] \in {"crit", "clear"} /\ Unlock(p) /\ engine' = engine
      /\ handle' = "nil" /\ closed' = TRUE /\ engine = "freed"
  BY Zenon DEF CloseAgain, CloseDone, engineVars, HandleInv, TypeOK
<1>2. /\ kind[p] = "close" /\ writer = p /\ readers = {}
      /\ pc'[p] = "idle"
      /\ \A q \in Procs : q # p => pc'[q] = IF q \in held THEN "check" ELSE pc[q]
      /\ UNCHANGED <<kind, todo, late>>
  BY <1>1, Zenon DEF Unlock, CallInv, LockInv
<1>3. TypeOK'
  BY <1>1, Zenon DEF TypeOK, Unlock, Results
<1>4. \A q \in Procs : q # p => pc[q] \notin Closing \cup {"wait", "check", "inC"}
  BY <1>2, Zenon DEF LockInv
<1>5. LockInv'
  BY <1>1, <1>2, <1>4, Zenon DEF LockInv, TypeOK, Unlock
<1>6. HandleInv'
  BY <1>1, <1>2, <1>4, Zenon DEF HandleInv
<1>7. CallInv'
  BY <1>1, <1>2, <1>4, Zenon DEF CallInv, LockInv, TypeOK, Unlock
<1>8. NoUseAfterClose'
  BY <1>2, <1>4, Zenon DEF NoUseAfterClose
<1>9. ClosedForGood'
  BY <1>1, <1>2, <1>4 DEF ClosedForGood, Unlock, TypeOK
<1>10. QED
  BY <1>3, <1>5, <1>6, <1>7, <1>8, <1>9, Zenon

LEMMA NextIInv == IInv /\ [Next]_vars => IInv'
<1>1. ASSUME IInv, UNCHANGED vars
      PROVE  IInv'
  BY <1>1, Zenon DEF vars, lockVars, engineVars, IInv, TypeOK, LockInv, HandleInv, CallInv,
     NoUseAfterClose, ClosedForGood
<1>2. ASSUME IInv, NEW p \in Procs, CallMethod(p) \/ Step(p) \/ Announce(p)
      PROVE  IInv'
  BY <1>2, CallMethodIInv, RLockIInv, rLockLiveIInv, CReturnIInv, AnnounceIInv,
     LockIInv, ShutIInv, UnlockIInv, Zenon DEF Step
<1>3. QED
  BY <1>1, <1>2, Zenon DEF Next

\* The lock discipline of the binding and what it keeps true of the handle,
\* for any number of goroutines and any length of a looping method.
THEOREM LockDiscipline == Spec => []IInv
  BY InitIInv, NextIInv, PTL DEF Spec

\* The engine is open whenever a C call is inside it.
THEOREM HandleOutlivesCalls == Spec => []NoUseAfterClose
<1>1. IInv => NoUseAfterClose
  BY Zenon DEF IInv
<1>2. QED
  BY <1>1, LockDiscipline, PTL

\* Overlapping Close calls shut the engine down and free it once.
THEOREM ClosedOnce == Spec => []ShutOnce
<1>1. IInv => ShutOnce
  <2> SUFFICES ASSUME IInv, NEW p \in Procs
               PROVE  /\ pc[p] = "crit" /\ handle = "ptr" => engine = "open"
                      /\ pc[p] = "free" => engine = "shut"
                      /\ pc[p] = "clear" => engine = "freed" /\ handle = "ptr"
    BY Zenon DEF ShutOnce
  <2>1. ASSUME pc[p] = "crit", handle = "ptr"
        PROVE  engine = "open"
    <3>1. \A q \in Procs : pc[q] \notin {"free", "clear"}
      BY <2>1, Zenon DEF IInv, LockInv
    <3>2. QED
      BY <2>1, <3>1, Zenon DEF IInv, HandleInv
  <2>2. QED
    BY <2>1, Zenon DEF IInv, HandleInv
<1>2. QED
  BY <1>1, LockDiscipline, PTL

\* A method called after a Close returned never reaches the engine.
THEOREM ClosedStaysClosed == Spec => []ClosedForGood
<1>1. IInv => ClosedForGood
  BY Zenon DEF IInv
<1>2. QED
  BY <1>1, LockDiscipline, PTL

-----------------------------------------------------------------------------
Inside == {p \in Procs : pc[p] = "inC"}

\* Steps of the binding that no C call and no engine state notices.
LEMMA Unnoticed ==
  ASSUME UNCHANGED engine, Inside' = Inside
  PROVE  UNCHANGED Abstract!avars
  BY Zenon DEF Inside, Abstract!avars

\* Every step of the binding is a step of ClosableEngine or invisible to it.
LEMMA StepRefines == IInv /\ [Next]_vars => [Abstract!ANext]_(Abstract!avars)
<1> SUFFICES ASSUME IInv, [Next]_vars
             PROVE  [Abstract!ANext]_(Abstract!avars)
  BY Zenon
<1>1. CASE UNCHANGED vars
  BY <1>1, Unnoticed, Zenon DEF vars, engineVars, Inside
<1>2. ASSUME NEW p \in Procs, CallMethod(p)
      PROVE  UNCHANGED Abstract!avars
  <2>1. /\ UNCHANGED engine /\ pc[p] = "idle"
        /\ pc' = pc \/ pc' = [pc EXCEPT ![p] = "rlock"] \/ pc' = [pc EXCEPT ![p] = "lock"]
    BY <1>2, Zenon DEF CallMethod, Call, CallEmpty, GetBytes, PutBytes, Delete, ScanPrefixKeys,
       BatchPutBytes, BatchDelete, SetBulkImport, Flush, FlushWAL, Sync, BatchPut,
       BatchGetBytes, Close, engineVars
  <2>2. Inside' = Inside
    BY <2>1, Zenon DEF Inside, IInv, TypeOK
  <2>3. QED
    BY <2>1, <2>2, Unnoticed, Zenon
<1>3. ASSUME NEW p \in Procs, RLock(p) \/ Announce(p) \/ Lock(p)
      PROVE  UNCHANGED Abstract!avars
  <2>1. UNCHANGED engine /\ Inside' = Inside
    BY <1>3, Zenon DEF RLock, Announce, Lock, engineVars, Inside, IInv, TypeOK
  <2>2. QED
    BY <2>1, Unnoticed, Zenon
<1>4. ASSUME NEW p \in Procs, rLockLive(p)
      PROVE  [Abstract!ANext]_(Abstract!avars)
  <2>1. UNCHANGED engine /\ pc[p] = "check"
    BY <1>4, Zenon DEF rLockLive, engineVars
  <2>2. CASE pc' = [pc EXCEPT ![p] = "idle"]
    <3>1. Inside' = Inside
      BY <2>1, <2>2, Zenon DEF Inside, IInv, TypeOK
    <3>2. QED
      BY <2>1, <3>1, Unnoticed, Zenon
  <2>3. CASE pc' = [pc EXCEPT ![p] = "inC"]
    <3>1. Inside' = Inside \cup {p} /\ p \notin Inside
      BY <2>1, <2>3 DEF Inside, IInv, TypeOK
    <3>2. engine = "open"
      BY <1>4, <2>1, <2>3, rLockLiveIInv, Zenon DEF IInv, TypeOK, NoUseAfterClose
    <3>3. Abstract!Enter(p)
      BY <2>1, <3>1, <3>2, Zenon DEF Abstract!Enter, Inside
    <3>4. QED
      BY <3>3, Zenon DEF Abstract!ANext
  <2>4. QED
    BY <1>4, <2>2, <2>3, Zenon DEF rLockLive, Return
<1>5. ASSUME NEW p \in Procs, CReturn(p)
      PROVE  Abstract!Leave(p)
  <2>1. Inside' = Inside \ {p} /\ p \in Inside /\ UNCHANGED engine
    BY <1>5 DEF CReturn, Return, engineVars, Inside, IInv, TypeOK
  <2>2. QED
    BY <2>1, Zenon DEF Abstract!Leave, Inside
<1>6. ASSUME NEW p \in Procs, f4kvs_engine_close(p)
      PROVE  Abstract!Shutdown
  <2>1. Inside = {} /\ \A q \in Procs : pc[q] \notin {"free", "clear"}
    BY <1>6, Zenon DEF f4kvs_engine_close, Inside, IInv, LockInv
  <2>2. engine = "open"
    BY <1>6, <2>1, Zenon DEF f4kvs_engine_close, IInv, HandleInv, TypeOK
  <2>3. Inside' = Inside /\ engine' = "shut"
    BY <1>6, Zenon DEF f4kvs_engine_close, Inside, IInv, TypeOK
  <2>4. QED
    BY <2>1, <2>2, <2>3, Zenon DEF Abstract!Shutdown, Inside
<1>7. ASSUME NEW p \in Procs, f4kvs_engine_free(p)
      PROVE  Abstract!Release
  <2>1. engine = "shut" /\ engine' = "freed" /\ Inside' = Inside
    BY <1>7, Zenon DEF f4kvs_engine_free, Inside, IInv, HandleInv, TypeOK
  <2>2. QED
    BY <2>1, Zenon DEF Abstract!Release, Inside
<1>8. ASSUME NEW p \in Procs, CloseAgain(p) \/ CloseDone(p)
      PROVE  UNCHANGED Abstract!avars
  <2>1. UNCHANGED engine /\ Unlock(p) /\ pc[p] \in {"crit", "clear"}
    BY <1>8, Zenon DEF CloseAgain, CloseDone, engineVars
  <2>2. Inside' = Inside
    BY <2>1, Zenon DEF Unlock, Inside, IInv, LockInv
  <2>3. QED
    BY <2>1, <2>2, Unnoticed, Zenon
<1>9. QED
  BY <1>1, <1>2, <1>3, <1>4, <1>5, <1>6, <1>7, <1>8, Zenon DEF Next, Step, Abstract!ANext

\* The read lock, the handle check and Close together keep the promise of
\* ClosableEngine.
THEOREM HandleImplementsClosable == Spec => ImplementsClosable
<1>1. Init => Abstract!AInit
  BY Zenon DEF Init, Abstract!AInit
<1>2. IInv /\ [Next]_vars => [Abstract!ANext]_(Abstract!avars)
  BY StepRefines, Zenon
<1>3. QED
  BY <1>1, <1>2, LockDiscipline, PTL DEF Spec, ImplementsClosable, Abstract!ASpec

\* Type correctness.
THEOREM TypeCorrect == Spec => []TypeOK
<1>1. IInv => TypeOK
  BY Zenon DEF IInv
<1>2. QED
  BY <1>1, LockDiscipline, PTL

-----------------------------------------------------------------------------
(* Transactions.                                                           *)

USE TxnAssumption

LEMMA TxnInitInv == TxnInit => TxnInv
<1> SUFFICES ASSUME TxnInit PROVE TxnInv
  BY Zenon
<1>1. TxnTypeOK
  BY ZenonT(60) DEF TxnInit, TxnTypeOK, NoOps
<1>2. FlagInv /\ ViewInv
  BY Zenon DEF TxnInit, FlagInv, ViewInv
<1>3. DeletesAfterPuts /\ CommitEffect
  BY Zenon DEF TxnInit, DeletesAfterPuts, CommitEffect
<1>4. QED
  BY <1>1, <1>2, <1>3, Zenon DEF TxnInv

\* With distinct names a batch writes the names of its keys and no other.
LEMMA AfterWrites ==
  ASSUME Distinct, NEW x \in Txns, NEW keys, keys \subseteq Keys,
         NEW s \in After(x, keys)
  PROVE  /\ s \in [Names -> Vals \cup {Nothing}]
         /\ \A k \in keys : s[CString[k]] = IF ops[x][k] = Del THEN Nothing ELSE ops[x][k]
         /\ \A k \in Keys \ keys : s[CString[k]] = store[CString[k]]
<1>1. \A n \in Names :
        IF {k \in keys : CString[k] = n} = {} THEN s[n] = store[n]
        ELSE \E k \in {k \in keys : CString[k] = n} :
                s[n] = IF ops[x][k] = Del THEN Nothing ELSE ops[x][k]
  BY Zenon DEF After
<1>2. ASSUME NEW k \in keys
      PROVE  s[CString[k]] = IF ops[x][k] = Del THEN Nothing ELSE ops[x][k]
  <2>1. CString[k] \in Names /\ k \in {j \in keys : CString[j] = CString[k]}
    BY Zenon
  <2>2. PICK j \in keys : /\ CString[j] = CString[k]
                          /\ s[CString[k]] = IF ops[x][j] = Del THEN Nothing ELSE ops[x][j]
    BY <1>1, <2>1, Zenon
  <2>3. j = k
    BY <2>2, Zenon DEF Distinct
  <2>4. QED
    BY <2>2, <2>3, Zenon
<1>3. ASSUME NEW k \in Keys \ keys
      PROVE  s[CString[k]] = store[CString[k]]
  <2>1. CString[k] \in Names /\ {j \in keys : CString[j] = CString[k]} = {}
    BY Zenon DEF Distinct
  <2>2. QED
    BY <1>1, <2>1, Zenon
<1>4. QED
  BY <1>2, <1>3, Zenon DEF After

\* What follows a step that may have disturbed all commits but that of x: the
\* claims about other transactions are void.
LEMMA OthersDisturbed ==
  ASSUME TxnInv, NEW x \in Txns, Disturb(x)
  PROVE  /\ disturbed' \in [Txns -> BOOLEAN]
         /\ \A y \in Txns : y # x => disturbed'[y]
         /\ disturbed'[x] = disturbed[x]
  BY ZenonT(60) DEF Disturb, TxnInv, TxnTypeOK

LEMMA StageIInv ==
  ASSUME TxnInv, NEW x \in Txns, NEW k \in Keys, NEW op \in Vals \cup {Del},
         Stage(x, k, op)
  PROVE  TxnInv'
<1> USE DEF TxnInv, Stage, checkActive
<1>1. TxnTypeOK'
  BY Zenon DEF TxnTypeOK
<1>2. \A y \in Txns : y # x => ops'[y] = ops[y]
  BY Zenon DEF TxnTypeOK
<1>3. FlagInv'
  BY <1>2, Zenon DEF FlagInv
<1>4. ViewInv'
  BY <1>2 DEF ViewInv, TxnGetBytes
<1>5. DeletesAfterPuts' /\ CommitEffect'
  BY <1>2 DEF DeletesAfterPuts, CommitEffect, Puts
<1>6. QED
  BY <1>1, <1>3, <1>4, <1>5, Zenon

\* A direct write disturbs every commit, finished or not.
LEMMA EngineWriteIInv ==
  ASSUME TxnInv, EngineWrite
  PROVE  TxnInv'
<1> USE DEF TxnInv, EngineWrite
<1>1. TxnTypeOK'
  <2>1. store' \in [Names -> Vals \cup {Nothing}]
    BY Zenon DEF TxnTypeOK
  <2>2. QED
    BY <2>1, Zenon DEF TxnTypeOK
<1>2. \A x \in Txns : disturbed'[x]
  BY Zenon
<1>3. QED
  BY <1>1, <1>2, Zenon DEF FlagInv, ViewInv, DeletesAfterPuts, CommitEffect

LEMMA CloseEngineInv ==
  ASSUME TxnInv, CloseEngine
  PROVE  TxnInv'
  BY DEF TxnInv, CloseEngine, TxnTypeOK, FlagInv, ViewInv, TxnGetBytes, DeletesAfterPuts, Puts,
     CommitEffect

LEMMA CommitIInv ==
  ASSUME TxnInv, NEW x \in Txns, Commit(x)
  PROVE  TxnInv'
<1> USE DEF TxnInv, Commit, checkActive
<1>1. \A k \in Keys : TxnGetBytes(x, k) \in Vals \cup {Nothing}
  BY DEF TxnGetBytes, TxnTypeOK
<1>2. TxnTypeOK'
  BY <1>1, Zenon DEF TxnTypeOK
<1>3. \A y \in Txns : y # x => /\ view'[y] = view[y] /\ disturbed'[y] = disturbed[y]
                               /\ phase'[y] = phase[y]
  BY Zenon DEF TxnTypeOK
<1>4. view'[x] = [k \in Keys |-> TxnGetBytes(x, k)] /\ phase'[x] = "puts"
  BY Zenon DEF TxnTypeOK
<1>5. FlagInv' /\ ViewInv'
  BY <1>3, <1>4 DEF FlagInv, ViewInv, TxnGetBytes
<1>6. DeletesAfterPuts' /\ CommitEffect'
  BY <1>3, <1>4 DEF DeletesAfterPuts, CommitEffect, Puts
<1>7. QED
  BY <1>2, <1>5, <1>6, Zenon

\* A failed batch ends the attempt; whatever it wrote is claimed by nobody.
LEMMA BatchFailedIInv ==
  ASSUME TxnInv, Distinct, NEW x \in Txns, NEW keys, keys \subseteq Keys,
         BatchFailed(x, keys), phase[x] # "idle", UNCHANGED <<engineClosed, rolledBack, view>>
  PROVE  TxnInv'
<1> USE DEF TxnInv
<1>1. /\ phase' = [phase EXCEPT ![x] = "idle"] /\ UNCHANGED <<ops, committed>>
      /\ ~committed[x]
  BY Zenon DEF BatchFailed, FlagInv
<1>2. \/ UNCHANGED <<store, disturbed>>
      \/ /\ store' \in [Names -> Vals \cup {Nothing}]
         /\ disturbed' \in [Txns -> BOOLEAN]
         /\ \A y \in Txns : y # x => disturbed'[y]
  BY OthersDisturbed, Zenon DEF BatchFailed, After
<1>3. TxnTypeOK'
  BY <1>1, <1>2, Zenon DEF TxnTypeOK
<1>4. phase'[x] = "idle" /\ \A y \in Txns : y # x => phase'[y] = phase[y]
  BY <1>1, Zenon DEF TxnTypeOK
<1>5. FlagInv' /\ ViewInv'
  BY <1>1, <1>2, <1>4 DEF FlagInv, ViewInv, TxnGetBytes
<1>6. DeletesAfterPuts' /\ CommitEffect'
  BY <1>1, <1>2, <1>4 DEF DeletesAfterPuts, CommitEffect, Puts
<1>7. QED
  BY <1>3, <1>5, <1>6, Zenon

\* After the put batch the engine agrees with the view but for the deletes.
LEMMA CommitPutsIInv ==
  ASSUME TxnInv, Distinct, NEW x \in Txns, CommitPuts(x)
  PROVE  TxnInv'
<1> USE DEF TxnInv
<1>1. CASE BatchFailed(x, Puts(x))
  BY <1>1, BatchFailedIInv, Zenon DEF CommitPuts, Puts
<1>2. CASE /\ IF Puts(x) = {} THEN UNCHANGED <<store, disturbed>>
              ELSE BatchApplied(x, Puts(x))
           /\ phase' = [phase EXCEPT ![x] = "deletes"]
           /\ UNCHANGED <<ops, committed>>
  <2>1. phase[x] = "puts" /\ UNCHANGED <<engineClosed, rolledBack, view, ops, committed>>
    BY <1>2, Zenon DEF CommitPuts
  <2>2. /\ store' \in [Names -> Vals \cup {Nothing}]
        /\ \A k \in Puts(x) : store'[CString[k]] = ops[x][k]
        /\ \A k \in Keys \ Puts(x) : store'[CString[k]] = store[CString[k]]
    <3>1. CASE Puts(x) = {}
      BY <1>2, <3>1, Zenon DEF TxnTypeOK
    <3>2. CASE Puts(x) # {}
      <4>1. store' \in After(x, Puts(x)) /\ Puts(x) \subseteq Keys
        BY <1>2, <3>2, Zenon DEF BatchApplied, Puts
      <4>2. \A k \in Puts(x) : ops[x][k] # Del
        BY Zenon DEF Puts
      <4>3. QED
        BY <4>1, <4>2, AfterWrites
    <3>3. QED
      BY <3>1, <3>2, Zenon
  <2>3. /\ disturbed' \in [Txns -> BOOLEAN] /\ disturbed'[x] = disturbed[x]
        /\ \A y \in Txns : y # x => disturbed'[y] \/ (disturbed' = disturbed /\ store' = store)
    BY <1>2, OthersDisturbed, Zenon DEF BatchApplied, TxnTypeOK
  <2>4. phase'[x] = "deletes" /\ \A y \in Txns : y # x => phase'[y] = phase[y]
    BY <1>2, Zenon DEF TxnTypeOK
  <2>5. TxnTypeOK'
    BY <1>2, <2>1, <2>2, <2>3, ZenonT(60) DEF TxnTypeOK
  <2>6. FlagInv'
    BY <2>1, <2>4, Zenon DEF FlagInv
  <2>7. ASSUME ~disturbed[x], NEW k \in Keys
        PROVE  view[x][k] = IF ops[x][k] = Del THEN Nothing ELSE store'[CString[k]]
    <3>1. view[x][k] = TxnGetBytes(x, k)
      BY <2>1, <2>7, Zenon DEF ViewInv
    <3>2. CASE ops[x][k] \in Vals
      BY <2>2, <3>1, <3>2, Zenon DEF TxnGetBytes, Puts
    <3>3. CASE ops[x][k] \notin Vals
      <4>1. k \notin Puts(x) /\ ops[x][k] \in {Del, Nothing}
        BY <3>3 DEF Puts, TxnTypeOK
      <4>2. QED
        BY <2>2, <3>1, <4>1, Zenon DEF TxnGetBytes
    <3>4. QED
      BY <3>2, <3>3, Zenon
  <2>8. ViewInv'
    BY <2>1, <2>3, <2>4, <2>7 DEF ViewInv, TxnGetBytes
  <2>9. DeletesAfterPuts'
    <3>1. ASSUME NEW y \in Txns, phase'[y] = "deletes", ~disturbed'[y]
          PROVE  /\ \A k \in Puts(y) : store'[CString[k]] = ops[y][k]
                 /\ \A k \in Keys \ Puts(y) : ops[y][k] = Nothing =>
                        store'[CString[k]] = view[y][k]
      <4>1. CASE y = x
        BY <2>2, <2>3, <2>7, <3>1, <4>1, Zenon
      <4>2. CASE y # x
        BY <2>3, <2>4, <3>1, <4>2 DEF DeletesAfterPuts
      <4>3. QED
        BY <4>1, <4>2, Zenon
    <3>2. QED
      BY <2>1, <3>1 DEF DeletesAfterPuts, Puts
  <2>10. CommitEffect'
    <3>1. ~committed[x]
      BY <2>1, Zenon DEF FlagInv
    <3>2. QED
      BY <2>1, <2>3, <3>1 DEF CommitEffect
  <2>11. QED
    BY <2>5, <2>6, <2>8, <2>9, <2>10, Zenon
<1>3. QED
  BY <1>1, <1>2, Zenon DEF CommitPuts

\* After the delete batch the engine agrees with the view.
LEMMA CommitDeletesIInv ==
  ASSUME TxnInv, Distinct, NEW x \in Txns, CommitDeletes(x)
  PROVE  TxnInv'
<1> USE DEF TxnInv
<1>1. CASE BatchFailed(x, Deletes(x))
  BY <1>1, BatchFailedIInv, Zenon DEF CommitDeletes, Deletes
<1>2. CASE /\ IF Deletes(x) = {} THEN UNCHANGED <<store, disturbed>>
              ELSE BatchApplied(x, Deletes(x))
           /\ phase' = [phase EXCEPT ![x] = "idle"]
           /\ committed' = [committed EXCEPT ![x] = TRUE]
           /\ ops' = [ops EXCEPT ![x] = NoOps]
  <2>1. phase[x] = "deletes" /\ UNCHANGED <<engineClosed, rolledBack, view>>
    BY Zenon DEF CommitDeletes
  <2>2. /\ store' \in [Names -> Vals \cup {Nothing}]
        /\ \A k \in Deletes(x) : store'[CString[k]] = Nothing
        /\ \A k \in Keys \ Deletes(x) : store'[CString[k]] = store[CString[k]]
    <3>1. CASE Deletes(x) = {}
      BY <1>2, <3>1, Zenon DEF TxnTypeOK
    <3>2. CASE Deletes(x) # {}
      <4>1. store' \in After(x, Deletes(x)) /\ Deletes(x) \subseteq Keys
        BY <1>2, <3>2, Zenon DEF BatchApplied, Deletes
      <4>2. \A k \in Deletes(x) : ops[x][k] = Del
        BY Zenon DEF Deletes
      <4>3. QED
        BY <4>1, <4>2, AfterWrites
    <3>3. QED
      BY <3>1, <3>2, Zenon
  <2>3. /\ disturbed' \in [Txns -> BOOLEAN] /\ disturbed'[x] = disturbed[x]
        /\ \A y \in Txns : y # x => disturbed'[y] \/ (disturbed' = disturbed /\ store' = store)
    BY <1>2, OthersDisturbed, Zenon DEF BatchApplied, TxnTypeOK
  <2>4. /\ phase'[x] = "idle" /\ committed'[x] /\ ops'[x] = NoOps
        /\ \A y \in Txns : y # x => /\ phase'[y] = phase[y] /\ committed'[y] = committed[y]
                                    /\ ops'[y] = ops[y]
    BY <1>2, Zenon DEF TxnTypeOK
  <2>5. TxnTypeOK'
    BY <1>2, <2>1, <2>2, <2>3, Zenon DEF TxnTypeOK, NoOps
  <2>6. FlagInv'
    <3>1. ~rolledBack[x]
      BY <2>1, Zenon DEF FlagInv
    <3>2. QED
      BY <2>1, <2>4, <3>1, Zenon DEF FlagInv, NoOps
  <2>7. ASSUME ~disturbed[x], NEW k \in Keys
        PROVE  store'[CString[k]] = view[x][k]
    BY <2>1, <2>2, <2>7 DEF ViewInv, Deletes
  <2>8. CommitEffect'
    BY <2>1, <2>3, <2>4, <2>7 DEF CommitEffect
  <2>9. ViewInv' /\ DeletesAfterPuts'
    BY <2>1, <2>3, <2>4 DEF ViewInv, DeletesAfterPuts, TxnGetBytes, Puts
  <2>10. QED
    BY <2>5, <2>6, <2>8, <2>9, Zenon
<1>3. QED
  BY <1>1, <1>2, Zenon DEF CommitDeletes

LEMMA RollbackIInv ==
  ASSUME TxnInv, NEW x \in Txns, Rollback(x)
  PROVE  TxnInv'
<1> USE DEF TxnInv, Rollback, checkActive
<1>1. TxnTypeOK'
  BY Zenon DEF TxnTypeOK, NoOps
<1>2. /\ rolledBack'[x] /\ ops'[x] = NoOps
      /\ \A y \in Txns : y # x => ops'[y] = ops[y] /\ rolledBack'[y] = rolledBack[y]
  BY Zenon DEF TxnTypeOK
<1>3. FlagInv'
  BY <1>2, Zenon DEF FlagInv, NoOps
<1>4. ViewInv' /\ DeletesAfterPuts' /\ CommitEffect'
  BY <1>2 DEF ViewInv, DeletesAfterPuts, CommitEffect, TxnGetBytes, Puts
<1>5. QED
  BY <1>1, <1>3, <1>4, Zenon

LEMMA StutterIInv ==
  ASSUME TxnInv, UNCHANGED txnVars
  PROVE  TxnInv'
  BY DEF TxnInv, txnVars, TxnTypeOK, FlagInv, ViewInv, TxnGetBytes, DeletesAfterPuts, Puts,
     CommitEffect

LEMMA TxnNextInv ==
  ASSUME TxnInv, Distinct, [TxnNext]_txnVars
  PROVE  TxnInv'
<1>1. ASSUME NEW x \in Txns, NEW k \in Keys, TxnPutBytes(x, k) \/ TxnDelete(x, k)
      PROVE  TxnInv'
  BY <1>1, StageIInv, Zenon DEF TxnPutBytes, TxnDelete
<1>2. ASSUME NEW x \in Txns,
             Commit(x) \/ CommitPuts(x) \/ CommitDeletes(x) \/ Rollback(x)
      PROVE  TxnInv'
  BY <1>2, CommitIInv, CommitPutsIInv, CommitDeletesIInv, RollbackIInv, Zenon
<1>3. QED
  BY <1>1, <1>2, EngineWriteIInv, CloseEngineInv, StutterIInv, Zenon DEF TxnNext

\* The inductive invariant of the transactions holds in every reachable
\* state.
THEOREM TxnDiscipline == Distinct /\ TxnSpec => []TxnInv
<1>1. TxnInit => TxnInv
  BY TxnInitInv, Zenon
<1>2. Distinct /\ TxnInv /\ [TxnNext]_txnVars => TxnInv'
  BY TxnNextInv, Zenon
<1>3. Distinct => []Distinct
  <2>1. Distinct => Distinct'
    BY Zenon DEF Distinct
  <2>2. QED
    BY <2>1, PTL
<1>4. QED
  BY <1>1, <1>2, <1>3, PTL DEF TxnSpec

\* A Commit that returned nil, undisturbed, made the engine equal to what
\* the transaction read, whatever failed before: Transaction.Commit.
THEOREM CommitIsFaithful == Distinct /\ TxnSpec => []CommitEffect
<1>1. TxnInv => CommitEffect
  BY Zenon DEF TxnInv
<1>2. QED
  BY <1>1, TxnDiscipline, PTL

\* Commit never begins its deletes before its puts are in the engine.
THEOREM PutsComeFirst == Distinct /\ TxnSpec => []DeletesAfterPuts
<1>1. TxnInv => DeletesAfterPuts
  BY Zenon DEF TxnInv
<1>2. QED
  BY <1>1, TxnDiscipline, PTL

\* A transaction that was committed or rolled back stays so, stages nothing
\* and makes no engine call any more.
THEOREM FinishedIsFinal == Distinct /\ TxnSpec => Finished
<1> DEFINE Final == \A x \in Txns : committed[x] \/ rolledBack[x] =>
                      /\ committed'[x] = committed[x] /\ rolledBack'[x] = rolledBack[x]
                      /\ ops'[x] = NoOps /\ phase'[x] = "idle"
<1>1. TxnInv /\ TxnNext => Final
  <2> SUFFICES ASSUME TxnInv, TxnNext, NEW x \in Txns, committed[x] \/ rolledBack[x]
               PROVE  /\ committed'[x] = committed[x] /\ rolledBack'[x] = rolledBack[x]
                      /\ ops'[x] = NoOps /\ phase'[x] = "idle"
    BY Zenon
  <2>1. phase[x] = "idle" /\ ops[x] = NoOps /\ TxnTypeOK
    BY Zenon DEF TxnInv, FlagInv
  <2>2. ASSUME NEW y \in Txns, NEW k \in Keys, TxnPutBytes(y, k) \/ TxnDelete(y, k)
        PROVE  x # y /\ ops'[x] = ops[x] /\ UNCHANGED <<committed, rolledBack, phase>>
    <3>1. PICK op \in Vals \cup {Del} : Stage(y, k, op)
      BY <2>2, Zenon DEF TxnPutBytes, TxnDelete
    <3>2. QED
      BY <2>1, <3>1, Zenon DEF Stage, checkActive, TxnTypeOK
  <2>3. ASSUME NEW y \in Txns,
               Commit(y) \/ CommitPuts(y) \/ CommitDeletes(y) \/ Rollback(y)
        PROVE  /\ ops'[x] = ops[x] /\ phase'[x] = phase[x]
               /\ committed'[x] = committed[x] /\ rolledBack'[x] = rolledBack[x]
    <3>1. x # y
      BY <2>1, <2>3, Zenon DEF Commit, CommitPuts, CommitDeletes, Rollback, checkActive
    <3>2. QED
      BY <2>1, <2>3, <3>1, Zenon DEF Commit, CommitPuts, CommitDeletes, Rollback,
         BatchFailed, TxnTypeOK
  <2>4. QED
    BY <2>1, <2>2, <2>3, Zenon DEF TxnNext, EngineWrite, CloseEngine
<1>2. TxnInv /\ [TxnNext]_txnVars => [Final]_txnVars
  BY <1>1, Zenon
<1>3. QED
  BY <1>2, TxnDiscipline, PTL DEF TxnSpec, Finished

\* Commit drops the staged operations only when it succeeds, so a failed one
\* can be retried.
THEOREM FailureKeepsOps == Distinct /\ TxnSpec => FailedCommitKeepsOps
<1> DEFINE Kept == \A x \in Txns : phase[x] # "idle" /\ ~committed'[x] => ops'[x] = ops[x]
<1>1. TxnInv /\ TxnNext => Kept
  <2> SUFFICES ASSUME TxnInv, TxnNext, NEW x \in Txns, phase[x] # "idle", ~committed'[x]
               PROVE  ops'[x] = ops[x]
    BY Zenon
  <2>1. TxnTypeOK
    BY Zenon DEF TxnInv
  <2>2. ASSUME NEW y \in Txns, NEW k \in Keys, TxnPutBytes(y, k) \/ TxnDelete(y, k)
        PROVE  ops'[x] = ops[x]
    <3>1. PICK op \in Vals \cup {Del} : Stage(y, k, op)
      BY <2>2, Zenon DEF TxnPutBytes, TxnDelete
    <3>2. QED
      BY <2>1, <3>1, Zenon DEF Stage, TxnTypeOK
  <2>3. ASSUME NEW y \in Txns,
               Commit(y) \/ CommitPuts(y) \/ CommitDeletes(y) \/ Rollback(y)
        PROVE  ops'[x] = ops[x]
    BY <2>1, <2>3, Zenon DEF Commit, CommitPuts, CommitDeletes, Rollback, BatchFailed, TxnTypeOK
  <2>4. QED
    BY <2>2, <2>3, Zenon DEF TxnNext, EngineWrite, CloseEngine
<1>2. TxnInv /\ [TxnNext]_txnVars => [Kept]_txnVars
  BY <1>1, Zenon
<1>3. QED
  BY <1>2, TxnDiscipline, PTL DEF TxnSpec, FailedCommitKeepsOps

\* Type correctness.
THEOREM TxnTypeCorrect == Distinct /\ TxnSpec => []TxnTypeOK
<1>1. TxnInv => TxnTypeOK
  BY Zenon DEF TxnInv
<1>2. QED
  BY <1>1, TxnDiscipline, PTL
=============================================================================
