-------------------------------- MODULE GoTxn --------------------------------
(* Staged transactions of the Go binding, over an engine that other        *)
(* goroutines write to and may close.                                      *)
(*                                                                         *)
(* A transaction belongs to one goroutine.  Commit makes two engine calls, *)
(* each under a read lock of its own: one batch with the puts, one with    *)
(* the deletes.  Between and before them other goroutines write, commit or *)
(* close the engine (see ClosableEngine), and each call may be refused or  *)
(* fail.  A key reaches the engine as a C string, so it is cut at its      *)
(* first NUL.                                                              *)
EXTENDS Naturals, FiniteSets

CONSTANTS
    Txns,      \* transactions
    Keys,      \* keys as Go strings
    Names,     \* keys as the engine sees them
    CString,   \* [Keys -> Names]: what is left of a key up to its first NUL
    NulKeys,   \* keys with an interior NUL
    BadNames,  \* names validate_c_string refuses: too long, or not UTF-8
    Vals,      \* values
    Nothing,   \* no value, no staged operation
    Del,       \* a staged delete
    MaxBatch   \* the engine's max_batch_size

ASSUME TxnAssumption ==
    /\ CString \in [Keys -> Names] /\ NulKeys \subseteq Keys /\ BadNames \subseteq Names
    /\ Nothing \notin Vals /\ Del \notin Vals /\ Nothing # Del
    /\ MaxBatch \in Nat

VARIABLES
    store,      \* the engine: [Names -> Vals \cup {Nothing}]
    engineClosed,   \* the engine has been closed
    ops,        \* Transaction.ops: staged value, Del or Nothing for each key
    committed, rolledBack,   \* the flags of a Transaction
    phase,      \* "idle", or the batch that Commit applies next
    view,       \* history: what GetBytes returned for each key at Commit
    disturbed   \* history: somebody else wrote since Commit was called

txnVars == <<store, engineClosed, ops, committed, rolledBack, phase, view, disturbed>>

TxnTypeOK ==
    /\ store \in [Names -> Vals \cup {Nothing}]
    /\ engineClosed \in BOOLEAN
    /\ ops \in [Txns -> [Keys -> Vals \cup {Del, Nothing}]]
    /\ committed \in [Txns -> BOOLEAN] /\ rolledBack \in [Txns -> BOOLEAN]
    /\ phase \in [Txns -> {"idle", "puts", "deletes"}]
    /\ view \in [Txns -> [Keys -> Vals \cup {Nothing}]]
    /\ disturbed \in [Txns -> BOOLEAN]

NoOps == [k \in Keys |-> Nothing]

TxnInit ==
    /\ store = [n \in Names |-> Nothing]
    /\ engineClosed = FALSE
    /\ ops = [x \in Txns |-> NoOps]
    /\ committed = [x \in Txns |-> FALSE] /\ rolledBack = [x \in Txns |-> FALSE]
    /\ phase = [x \in Txns |-> "idle"]
    /\ view = [x \in Txns |-> NoOps]
    /\ disturbed = [x \in Txns |-> FALSE]

-----------------------------------------------------------------------------
(* Staging.  The methods of Transaction carry the prefix Txn, for F4KVS    *)
(* has methods of the same names (see GoHandle).                           *)

checkActive(x) == ~committed[x] /\ ~rolledBack[x]

Stage(x, k, op) ==
    /\ phase[x] = "idle" /\ checkActive(x)
    /\ ops' = [ops EXCEPT ![x][k] = op]
    /\ UNCHANGED <<store, engineClosed, committed, rolledBack, phase, view, disturbed>>

TxnPutBytes(x, k) == \E v \in Vals : Stage(x, k, v)
TxnDelete(x, k) == Stage(x, k, Del)

\* A staged operation hides what the engine holds.
TxnGetBytes(x, k) ==
    IF ops[x][k] = Del THEN Nothing
    ELSE IF ops[x][k] # Nothing THEN ops[x][k]
    ELSE store[CString[k]]

-----------------------------------------------------------------------------
(* The engine.                                                             *)

\* Somebody wrote: the commits of all others are disturbed.
Disturb(y) == disturbed' = [x \in Txns |-> disturbed[x] \/ x # y]

\* A batch is refused as a whole if it is too long or a name is invalid.
Valid(keys) ==
    /\ Cardinality(keys) <= MaxBatch
    /\ \A k \in keys : CString[k] \notin BadNames

\* The stores that the operations of x on the given keys may leave.  Two
\* keys with the same name are written in either order.
After(x, keys) ==
    {s \in [Names -> Vals \cup {Nothing}] :
        \A n \in Names :
            LET on == {k \in keys : CString[k] = n}
            IN  IF on = {} THEN s[n] = store[n]
                ELSE \E k \in on : s[n] = IF ops[x][k] = Del THEN Nothing
                                           ELSE ops[x][k]}

\* A direct write, by a goroutine without a transaction.
EngineWrite ==
    /\ ~engineClosed
    /\ \E n \in Names \ BadNames, v \in Vals \cup {Nothing} :
          store' = [store EXCEPT ![n] = v]
    /\ disturbed' = [x \in Txns |-> TRUE]
    /\ UNCHANGED <<engineClosed, ops, committed, rolledBack, phase, view>>

CloseEngine ==
    /\ ~engineClosed
    /\ engineClosed' = TRUE
    /\ UNCHANGED <<store, ops, committed, rolledBack, phase, view, disturbed>>

-----------------------------------------------------------------------------
(* Commit and Rollback.                                                    *)

Puts(x) == {k \in Keys : ops[x][k] \in Vals}
Deletes(x) == {k \in Keys : ops[x][k] = Del}

Commit(x) ==
    /\ phase[x] = "idle" /\ checkActive(x)
    /\ phase' = [phase EXCEPT ![x] = "puts"]
    /\ view' = [view EXCEPT ![x] = [k \in Keys |-> TxnGetBytes(x, k)]]
    /\ disturbed' = [disturbed EXCEPT ![x] = FALSE]
    /\ UNCHANGED <<store, engineClosed, ops, committed, rolledBack>>

\* The engine call of a batch succeeds.
BatchApplied(x, keys) ==
    /\ ~engineClosed /\ Valid(keys)
    /\ store' \in After(x, keys)
    /\ Disturb(x)

\* Mutant: an error return clears the staged operations.
BatchFailed_drops_ops(x, keys) ==
    /\ keys # {} /\ (engineClosed \/ ~Valid(keys))
    /\ phase' = [phase EXCEPT ![x] = "idle"]
    /\ ops' = [ops EXCEPT ![x] = NoOps]
    /\ UNCHANGED <<store, disturbed, committed>>

\* It is refused, or it fails and may have been applied in part: Commit
\* returns the error and the transaction stays active.
BatchFailed(x, keys) ==
    /\ keys # {}
    /\ \/ /\ engineClosed \/ ~Valid(keys)
          /\ UNCHANGED <<store, disturbed>>
       \/ /\ ~engineClosed /\ Valid(keys)
          /\ \E part \in SUBSET keys : store' \in After(x, part)
          /\ Disturb(x)
    /\ phase' = [phase EXCEPT ![x] = "idle"]
    /\ UNCHANGED <<ops, committed>>

\* Mutant: the error of the put batch is not looked at.
CommitPuts_ignores_error(x) ==
    /\ phase[x] = "puts"
    /\ \/ IF Puts(x) = {} THEN UNCHANGED <<store, disturbed>>
          ELSE BatchApplied(x, Puts(x))
       \/ (engineClosed \/ ~Valid(Puts(x))) /\ UNCHANGED <<store, disturbed>>
    /\ phase' = [phase EXCEPT ![x] = "deletes"]
    /\ UNCHANGED <<ops, committed, engineClosed, rolledBack, view>>

\* Commit's call of BatchPutBytes.
CommitPuts(x) ==
    /\ phase[x] = "puts"
    /\ \/ /\ IF Puts(x) = {} THEN UNCHANGED <<store, disturbed>>
             ELSE BatchApplied(x, Puts(x))
          /\ phase' = [phase EXCEPT ![x] = "deletes"]
          /\ UNCHANGED <<ops, committed>>
       \/ BatchFailed(x, Puts(x))
    /\ UNCHANGED <<engineClosed, rolledBack, view>>

\* Mutant: the error of the delete batch is not looked at.
CommitDeletes_ignores_error(x) ==
    /\ phase[x] = "deletes"
    /\ \/ IF Deletes(x) = {} THEN UNCHANGED <<store, disturbed>>
          ELSE BatchApplied(x, Deletes(x))
       \/ (engineClosed \/ ~Valid(Deletes(x))) /\ UNCHANGED <<store, disturbed>>
    /\ phase' = [phase EXCEPT ![x] = "idle"]
    /\ committed' = [committed EXCEPT ![x] = TRUE]
    /\ ops' = [ops EXCEPT ![x] = NoOps]
    /\ UNCHANGED <<engineClosed, rolledBack, view>>

\* Commit's call of BatchDelete and its return: nothing stays staged once it
\* succeeds.
CommitDeletes(x) ==
    /\ phase[x] = "deletes"
    /\ \/ /\ IF Deletes(x) = {} THEN UNCHANGED <<store, disturbed>>
             ELSE BatchApplied(x, Deletes(x))
          /\ phase' = [phase EXCEPT ![x] = "idle"]
          /\ committed' = [committed EXCEPT ![x] = TRUE]
          /\ ops' = [ops EXCEPT ![x] = NoOps]
       \/ BatchFailed(x, Deletes(x))
    /\ UNCHANGED <<engineClosed, rolledBack, view>>

\* Mutant: Rollback does not look at committed.
Rollback_unchecked(x) ==
    /\ phase[x] = "idle" /\ ~rolledBack[x]
    /\ rolledBack' = [rolledBack EXCEPT ![x] = TRUE]
    /\ ops' = [ops EXCEPT ![x] = NoOps]
    /\ UNCHANGED <<store, engineClosed, committed, phase, view, disturbed>>

Rollback(x) ==
    /\ phase[x] = "idle" /\ checkActive(x)
    /\ rolledBack' = [rolledBack EXCEPT ![x] = TRUE]
    /\ ops' = [ops EXCEPT ![x] = NoOps]
    /\ UNCHANGED <<store, engineClosed, committed, phase, view, disturbed>>

-----------------------------------------------------------------------------
TxnNext ==
    \/ \E x \in Txns : \/ \E k \in Keys : TxnPutBytes(x, k) \/ TxnDelete(x, k)
                       \/ Commit(x) \/ CommitPuts(x) \/ CommitDeletes(x)
                       \/ Rollback(x)
    \/ EngineWrite
    \/ CloseEngine

TxnSpec == TxnInit /\ [][TxnNext]_txnVars

-----------------------------------------------------------------------------
(* Properties.                                                             *)

\* No two keys are cut to the same name.
Distinct == \A j, k \in Keys : CString[j] = CString[k] => j = k

\* A Commit that returned nil left in the engine, for every key, what the
\* transaction read when Commit was called, unless somebody else wrote
\* meanwhile: no operation is lost or misplaced, earlier failed attempts or
\* later Close included.
CommitEffect ==
    \A x \in Txns : committed[x] /\ ~disturbed[x] =>
        \A k \in Keys : store[CString[k]] = view[x][k]

\* The deletes of a Commit are not begun before its puts are in place, so a
\* failure in between leaves all the puts, and nothing else has changed.
DeletesAfterPuts ==
    \A x \in Txns : phase[x] = "deletes" /\ ~disturbed[x] =>
        /\ \A k \in Puts(x) : store[CString[k]] = ops[x][k]
        /\ \A k \in Keys \ Puts(x) : ops[x][k] = Nothing =>
               store[CString[k]] = view[x][k]

\* Commit and Rollback are final and exclude each other, and a finished
\* transaction never touches the engine or stages anything again.
Finished ==
    [][\A x \in Txns : committed[x] \/ rolledBack[x] =>
          /\ committed'[x] = committed[x] /\ rolledBack'[x] = rolledBack[x]
          /\ ops'[x] = NoOps /\ phase'[x] = "idle"]_txnVars

\* A Commit that fails keeps every staged operation, so it can be retried:
\* the staged operations go away only together with success or Rollback.
FailedCommitKeepsOps ==
    [][\A x \in Txns : phase[x] # "idle" /\ ~committed'[x] => ops'[x] = ops[x]]_txnVars

\* "The legacy C-string APIs still reject NUL": no transaction commits an
\* operation on a key with an interior NUL.
NulKeysRejected ==
    \A x \in Txns : phase[x] = "deletes" => Puts(x) \cap NulKeys = {}

-----------------------------------------------------------------------------
(* The inductive invariant behind them, for keys with distinct names.      *)

\* While Commit is under way and undisturbed, what the transaction read is
\* what the engine holds or what is still to be applied.
ViewInv ==
    \A x \in Txns : ~disturbed[x] =>
        /\ phase[x] = "puts" => \A k \in Keys : view[x][k] = TxnGetBytes(x, k)
        /\ phase[x] = "deletes" =>
              \A k \in Keys : view[x][k] = IF ops[x][k] = Del THEN Nothing
                                           ELSE store[CString[k]]

FlagInv ==
    \A x \in Txns :
        /\ committed[x] \/ rolledBack[x] => phase[x] = "idle" /\ ops[x] = NoOps
        /\ ~(committed[x] /\ rolledBack[x])

TxnInv ==
    /\ TxnTypeOK
    /\ FlagInv
    /\ ViewInv
    /\ DeletesAfterPuts
    /\ CommitEffect
=============================================================================
