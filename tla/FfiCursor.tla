------------------------------ MODULE FfiCursor ------------------------------
(* Prefix cursors: paging through the live keys of a prefix while other    *)
(* threads write, calls fail, and the engine handle may be freed first;    *)
(* and the scan that calls the client back with each pair.                 *)
(*                                                                         *)
(* Keys of the prefix are numbers in key order.  A page is the set of its  *)
(* keys; they are pulled one by one, in order, and other threads may run   *)
(* between two of them.  The engine is external: from its position a scan  *)
(* yields the next key, taking every key that has been live since the scan *)
(* started and perhaps keys that came or went meanwhile.                   *)
EXTENDS Naturals, FiniteSets

CONSTANTS
    Cursors,   \* cursors, each used by one thread
    Visitors,  \* threads that scan with a callback
    Keys,      \* keys of the prefix, as numbers from 1
    NulKeys,   \* keys with an interior NUL, writable through put_kv only
    MaxPage    \* bound on the page size asked for

ASSUME CursorAssumption ==
    /\ Keys \subseteq Nat \ {0} /\ NulKeys \subseteq Keys
    /\ MaxPage \in Nat
    /\ "handle" \notin Cursors

VARIABLES
    live,      \* keys in the engine
    foreign,   \* live keys whose value is neither bytes nor a string: another
               \* writer of the data put them there before the engine was opened
    handle,    \* the F4KvsEngine box is allocated
    holders,   \* who holds a clone of the Arc<LsmTreeEngine>
    dropped,   \* the LsmTreeEngine itself has been dropped
    open,      \* the cursor is allocated
    scan,      \* F4KvsCursor.state is Some
    pos,       \* last key the scan yielded, 0 before the first
    done,      \* F4KvsCursor.done
    pc, form,  \* "idle" or "pull"; the call's result form, "c" or "kv"
    want,      \* keys the page still has room for
    page,      \* keys pulled for the page
    got,       \* history: keys delivered to the client
    snap, stable,  \* keys live when the scan started; live ever since
    failed,    \* history: some call on the cursor returned an error
    vpc,       \* "visit" in f4kvs_engine_scan_prefix_cb, and how it ended
    vpos, vsnap,   \* as pos and snap
    vforeign,  \* keys that were foreign when the scan started
    vstable,   \* keys live ever since with bytes or a string as value
    vgot       \* history: keys the callback has seen

engineVars == <<live, foreign, handle, holders, dropped>>
scanVars == <<scan, pos, done, snap>>
visitVars == <<vpc, vpos, vsnap, vforeign, vstable, vgot>>
vars == <<engineVars, open, scanVars, pc, form, want, page, got, stable, failed, visitVars>>

TypeOK ==
    /\ live \subseteq Keys /\ foreign \subseteq live
    /\ handle \in BOOLEAN /\ dropped \in BOOLEAN
    /\ holders \subseteq Cursors \cup {"handle"}
    /\ open \in [Cursors -> BOOLEAN] /\ scan \in [Cursors -> BOOLEAN]
    /\ done \in [Cursors -> BOOLEAN] /\ failed \in [Cursors -> BOOLEAN]
    /\ pos \in [Cursors -> Keys \cup {0}]
    /\ pc \in [Cursors -> {"idle", "pull"}] /\ form \in [Cursors -> {"c", "kv"}]
    /\ want \in [Cursors -> 0..MaxPage]
    /\ page \in [Cursors -> SUBSET Keys] /\ got \in [Cursors -> SUBSET Keys]
    /\ snap \in [Cursors -> SUBSET Keys] /\ stable \in [Cursors -> SUBSET Keys]
    /\ vpc \in [Visitors -> {"idle", "visit", "complete", "stopped", "failed"}]
    /\ vpos \in [Visitors -> Keys \cup {0}] /\ vgot \in [Visitors -> SUBSET Keys]
    /\ vsnap \in [Visitors -> SUBSET Keys] /\ vstable \in [Visitors -> SUBSET Keys]
    /\ vforeign \in [Visitors -> SUBSET Keys]

Init ==
    /\ live \in SUBSET Keys /\ foreign \in SUBSET live
    /\ handle = TRUE /\ holders = {"handle"} /\ dropped = FALSE
    /\ open = [c \in Cursors |-> FALSE] /\ scan = [c \in Cursors |-> FALSE]
    /\ done = [c \in Cursors |-> FALSE] /\ failed = [c \in Cursors |-> FALSE]
    /\ pos = [c \in Cursors |-> 0]
    /\ pc = [c \in Cursors |-> "idle"] /\ form = [c \in Cursors |-> "c"]
    /\ want = [c \in Cursors |-> 0]
    /\ page = [c \in Cursors |-> {}] /\ got = [c \in Cursors |-> {}]
    /\ snap = [c \in Cursors |-> {}] /\ stable = [c \in Cursors |-> {}]
    /\ vpc = [v \in Visitors |-> "idle"] /\ vpos = [v \in Visitors |-> 0]
    /\ vgot = [v \in Visitors |-> {}]
    /\ vsnap = [v \in Visitors |-> {}] /\ vstable = [v \in Visitors |-> {}]
    /\ vforeign = [v \in Visitors |-> {}]

-----------------------------------------------------------------------------
(* The engine, seen from a scan.                                           *)

\* A writer on another thread, or a callback: put_kv or delete_kv.  What this
\* interface writes is bytes or a string.
Write(k) ==
    /\ handle
    /\ \/ /\ k \notin live
          /\ live' = live \cup {k}
          /\ UNCHANGED <<foreign, stable, vstable>>
       \/ /\ k \in live
          /\ live' = live \ {k} /\ foreign' = foreign \ {k}
          /\ stable' = [c \in Cursors |-> stable[c] \ {k}]
          /\ vstable' = [v \in Visitors |-> vstable[v] \ {k}]
       \/ /\ k \in foreign
          /\ foreign' = foreign \ {k}
          /\ UNCHANGED <<live, stable, vstable>>
    /\ UNCHANGED <<handle, holders, dropped, open, scanVars, pc, form, want, page,
                   got, failed, vpc, vpos, vsnap, vforeign, vgot>>

\* The next key of a scan behind position at, among those it may show.
NextKey(k, at, start) ==
    /\ k \in start \cup live /\ k > at
    /\ \A j \in start \cap live : j > at => k <= j

AtEnd(at, start) == \A j \in start \cap live : j <= at

\* Giving back a clone of the Arc drops the engine with the last one.
DropArc(h) ==
    /\ holders' = holders \ {h}
    /\ dropped' = (dropped \/ holders' = {})

\* The handle must be live during a callback scan, which has no clone.
f4kvs_engine_free ==
    /\ handle /\ \A v \in Visitors : vpc[v] # "visit"
    /\ handle' = FALSE
    /\ DropArc("handle")
    /\ UNCHANGED <<live, foreign, open, scanVars, pc, form, want, page, got, stable, failed,
                   visitVars>>

-----------------------------------------------------------------------------
(* The cursor.                                                             *)

\* Mutant: the cursor borrows the engine without a clone of the Arc.
f4kvs_engine_cursor_open_borrows(c) ==
    /\ handle /\ ~open[c]
    /\ open' = [open EXCEPT ![c] = TRUE]
    /\ scan' = [scan EXCEPT ![c] = FALSE]
    /\ done' = [done EXCEPT ![c] = FALSE]
    /\ UNCHANGED <<engineVars, pos, snap, stable, pc, form, want, page, got, failed,
                   visitVars>>

f4kvs_engine_cursor_open(c) ==
    /\ handle /\ ~open[c]
    /\ holders' = holders \cup {c}
    /\ open' = [open EXCEPT ![c] = TRUE]
    /\ scan' = [scan EXCEPT ![c] = FALSE]
    /\ done' = [done EXCEPT ![c] = FALSE]
    /\ UNCHANGED <<live, foreign, handle, dropped, pos, snap, stable, pc, form, want,
                   page, got, failed, visitVars>>

f4kvs_engine_cursor_free(c) ==
    /\ open[c] /\ pc[c] = "idle"
    /\ open' = [open EXCEPT ![c] = FALSE]
    /\ DropArc(c)
    /\ pos' = [pos EXCEPT ![c] = 0]
    /\ snap' = [snap EXCEPT ![c] = {}] /\ stable' = [stable EXCEPT ![c] = {}]
    /\ got' = [got EXCEPT ![c] = {}] /\ failed' = [failed EXCEPT ![c] = FALSE]
    /\ UNCHANGED <<live, foreign, handle, scan, done, pc, form, want, page, visitVars>>

\* An error return: the page, if any was pulled, is dropped.
Fail(c) ==
    /\ pc' = [pc EXCEPT ![c] = "idle"]
    /\ page' = [page EXCEPT ![c] = {}]
    /\ want' = [want EXCEPT ![c] = 0]
    /\ failed' = [failed EXCEPT ![c] = TRUE]
    /\ UNCHANGED got

\* A scan that has no state yet starts at the beginning of the prefix.
cursor_ensure_state(c) ==
    IF scan[c] THEN UNCHANGED <<scanVars, stable>>
    ELSE /\ scan' = [scan EXCEPT ![c] = TRUE]
         /\ pos' = [pos EXCEPT ![c] = 0]
         /\ snap' = [snap EXCEPT ![c] = live]
         /\ stable' = [stable EXCEPT ![c] = live]
         /\ UNCHANGED done

\* cursor_next_n (f = "c") and cursor_next_n_kv (f = "kv"): after the end, or
\* for no keys, the page is empty; otherwise the scan starts or goes on.
f4kvs_engine_cursor_next_n(c, f, max) ==
    /\ open[c] /\ pc[c] = "idle"
    /\ \/ /\ done[c] \/ max = 0
          /\ UNCHANGED <<scanVars, stable, pc, form, want, page, got, failed>>
       \/ /\ ~done[c] /\ max > 0
          /\ cursor_ensure_state(c)
          /\ pc' = [pc EXCEPT ![c] = "pull"]
          /\ form' = [form EXCEPT ![c] = f]
          /\ want' = [want EXCEPT ![c] = max]
          /\ UNCHANGED <<page, got, failed>>
       \/ /\ ~done[c] /\ max > 0 /\ ~scan[c]
          /\ Fail(c)
          /\ UNCHANGED <<scanVars, stable, form>>
    /\ UNCHANGED <<engineVars, open, visitVars>>

\* Mutant: the page takes one key more than it has room for.
PullKey_one_more(c) ==
    /\ pc[c] = "pull"
    /\ \E k \in Keys :
          /\ NextKey(k, pos[c], snap[c])
          /\ pos' = [pos EXCEPT ![c] = k]
          /\ page' = [page EXCEPT ![c] = @ \cup {k}]
    /\ want' = [want EXCEPT ![c] = @ - 1]
    /\ UNCHANGED <<engineVars, open, scan, done, snap, pc, form, got, stable, failed,
                   visitVars>>

\* One prefix_scan_next that yields a key.
PullKey(c) ==
    /\ pc[c] = "pull" /\ want[c] > 0
    /\ \E k \in Keys :
          /\ NextKey(k, pos[c], snap[c])
          /\ pos' = [pos EXCEPT ![c] = k]
          /\ page' = [page EXCEPT ![c] = @ \cup {k}]
    /\ want' = [want EXCEPT ![c] = @ - 1]
    /\ UNCHANGED <<engineVars, open, scan, done, snap, pc, form, got, stable, failed,
                   visitVars>>

\* Mutant: a failed read is taken for the end of the scan.
PullError_as_eof(c) ==
    /\ pc[c] = "pull" /\ want[c] > 0
    /\ scan' = [scan EXCEPT ![c] = FALSE]
    /\ done' = [done EXCEPT ![c] = TRUE]
    /\ pc' = [pc EXCEPT ![c] = "idle"]
    /\ got' = [got EXCEPT ![c] = @ \cup page[c]]
    /\ page' = [page EXCEPT ![c] = {}]
    /\ want' = [want EXCEPT ![c] = 0]
    /\ UNCHANGED <<engineVars, open, pos, snap, form, stable, failed, visitVars>>

\* One that fails: the position stays where the last key left it.
PullError(c) ==
    /\ pc[c] = "pull" /\ want[c] > 0
    /\ Fail(c)
    /\ UNCHANGED <<engineVars, open, scanVars, form, stable, visitVars>>

\* Mutant: the end of the scan is not remembered.
fill_scan_result_forgets_done(c) ==
    /\ pc[c] = "pull"
    /\ \/ want[c] = 0 /\ UNCHANGED scan
       \/ want[c] > 0 /\ AtEnd(pos[c], snap[c]) /\ scan' = [scan EXCEPT ![c] = FALSE]
    /\ pc' = [pc EXCEPT ![c] = "idle"]
    /\ got' = [got EXCEPT ![c] = @ \cup page[c]]
    /\ page' = [page EXCEPT ![c] = {}]
    /\ want' = [want EXCEPT ![c] = 0]
    /\ UNCHANGED <<engineVars, open, pos, done, snap, form, stable, failed,
                   visitVars>>

\* The page is full or the scan is at its end, which gives up the state; the
\* cursor takes note before the result is filled, which fails in the C-string
\* form if a key has an interior NUL.
fill_scan_result(c) ==
    /\ pc[c] = "pull"
    /\ \/ want[c] = 0 /\ UNCHANGED <<scan, done>>
       \/ /\ want[c] > 0 /\ AtEnd(pos[c], snap[c])
          /\ scan' = [scan EXCEPT ![c] = FALSE]
          /\ done' = [done EXCEPT ![c] = TRUE]
    /\ \/ /\ form[c] = "c" /\ page[c] \cap NulKeys # {}
          /\ Fail(c)
       \/ /\ form[c] = "kv" \/ page[c] \cap NulKeys = {}
          /\ pc' = [pc EXCEPT ![c] = "idle"]
          /\ got' = [got EXCEPT ![c] = @ \cup page[c]]
          /\ page' = [page EXCEPT ![c] = {}]
          /\ want' = [want EXCEPT ![c] = 0]
          /\ UNCHANGED failed
    /\ UNCHANGED <<engineVars, open, pos, snap, form, stable, visitVars>>

-----------------------------------------------------------------------------
(* The scan with a callback, whichever of its two ways the engine offers.  *)

cursorVars == <<open, scanVars, pc, form, want, page, got, stable, failed>>

\* The call starts a scan, or is refused or fails to.
f4kvs_engine_scan_prefix_cb(v) ==
    /\ handle /\ vpc[v] # "visit"
    /\ \/ vpc' = [vpc EXCEPT ![v] = "visit"]
       \/ vpc' = [vpc EXCEPT ![v] = "failed"]
    /\ vpos' = [vpos EXCEPT ![v] = 0] /\ vgot' = [vgot EXCEPT ![v] = {}]
    /\ vsnap' = [vsnap EXCEPT ![v] = live] /\ vforeign' = [vforeign EXCEPT ![v] = foreign]
    /\ vstable' = [vstable EXCEPT ![v] = live \ foreign]
    /\ UNCHANGED <<engineVars, cursorVars>>

\* The callback gets a pair, and returns zero or stops the scan.  An engine
\* that runs the scan by itself may show foreign values too.
Visit(v, stop) ==
    /\ vpc[v] = "visit"
    /\ \E k \in Keys :
          /\ NextKey(k, vpos[v], vsnap[v])
          /\ vpos' = [vpos EXCEPT ![v] = k]
          /\ vgot' = [vgot EXCEPT ![v] = @ \cup {k}]
    /\ vpc' = [vpc EXCEPT ![v] = IF stop THEN "stopped" ELSE @]
    /\ UNCHANGED <<engineVars, cursorVars, vsnap, vforeign, vstable>>

\* Mutant: the arm for strings is missing, so any value may be passed over.
VisitSkip_strings(v) ==
    /\ vpc[v] = "visit"
    /\ \E k \in Keys :
          /\ NextKey(k, vpos[v], vsnap[v])
          /\ vpos' = [vpos EXCEPT ![v] = k]
    /\ UNCHANGED <<engineVars, cursorVars, vpc, vsnap, vforeign, vstable, vgot>>

\* `_ => continue`: a pair whose value is neither bytes nor a string is
\* passed over, without a word to the callback.
VisitSkip(v) ==
    /\ vpc[v] = "visit"
    /\ \E k \in vforeign[v] :
          /\ NextKey(k, vpos[v], vsnap[v])
          /\ vpos' = [vpos EXCEPT ![v] = k]
    /\ UNCHANGED <<engineVars, cursorVars, vpc, vsnap, vforeign, vstable, vgot>>

\* The end of the prefix, or an error of the engine.
VisitEnd(v) ==
    /\ vpc[v] = "visit"
    /\ \/ AtEnd(vpos[v], vsnap[v]) /\ vpc' = [vpc EXCEPT ![v] = "complete"]
       \/ vpc' = [vpc EXCEPT ![v] = "failed"]
    /\ UNCHANGED <<engineVars, cursorVars, vpos, vsnap, vforeign, vstable, vgot>>

-----------------------------------------------------------------------------
Page(c) == PullKey(c) \/ PullError(c) \/ fill_scan_result(c)

Ask(c) == \E f \in {"c", "kv"}, max \in 0..MaxPage : f4kvs_engine_cursor_next_n(c, f, max)

Next ==
    \/ \E k \in Keys : Write(k)
    \/ f4kvs_engine_free
    \/ \E c \in Cursors : \/ f4kvs_engine_cursor_open(c) \/ f4kvs_engine_cursor_free(c)
                          \/ Ask(c) \/ Page(c)
    \/ \E v \in Visitors : \/ f4kvs_engine_scan_prefix_cb(v) \/ VisitEnd(v) \/ VisitSkip(v)
                           \/ \E stop \in BOOLEAN : Visit(v, stop)

Spec == Init /\ [][Next]_vars

\* A call in progress goes on, and the client keeps asking for more keys.
Drain(c) == \E max \in 1..MaxPage : f4kvs_engine_cursor_next_n(c, "kv", max)
Fairness == \A c \in Cursors : WF_vars(Page(c)) /\ WF_vars(Drain(c))
FairSpec == Spec /\ Fairness

-----------------------------------------------------------------------------
(* Properties.                                                             *)

\* Pages never go back: a key being pulled lies beyond every key already
\* delivered, also after failed calls, after the end of the scan and while
\* others write.
NoReplay == \A c \in Cursors : \A k \in page[c], j \in got[c] : j < k

\* On a cursor none of whose calls failed, the end of the scan means that
\* every key that was live from its start to its end has been delivered.
CompleteScan ==
    \A c \in Cursors : open[c] /\ done[c] /\ pc[c] = "idle" /\ ~failed[c] =>
        stable[c] \subseteq got[c]

\* f4kvs_engine_scan_prefix_cb that returns Success has shown the callback
\* every key that was live all the time with bytes or a string as its value,
\* up to the one at which the callback stopped it, if it did.  It promises
\* nothing of keys with other values ("every live prefix pair", lib.rs:1924,
\* promises more): those it may pass over and still return Success.
CompleteVisit ==
    \A v \in Visitors :
        /\ vpc[v] = "complete" => vstable[v] \subseteq vgot[v]
        /\ vpc[v] = "stopped" => \A k \in vstable[v] : k <= vpos[v] => k \in vgot[v]

\* "a later call resumes after the last successfully returned key": the end
\* of the scan means the same when some calls failed on the way.
ResumesAfterError ==
    \A c \in Cursors : open[c] /\ done[c] /\ pc[c] = "idle" => stable[c] \subseteq got[c]

\* A cursor may outlive the engine handle: the engine it scans is dropped
\* only when no cursor is left.
EngineOutlivesCursors ==
    /\ \A c \in Cursors : open[c] => ~dropped
    /\ dropped => ~handle

\* A client that keeps asking reaches the end of the scan, unless a call
\* fails or the cursor is freed: the position only moves forward, and the
\* end is not forgotten.
ScanEnds == \A c \in Cursors : open[c] ~> (done[c] \/ failed[c] \/ ~open[c])

-----------------------------------------------------------------------------
(* The inductive invariant behind them.                                    *)

\* What was pulled lies at or before the position; a scan without state has
\* delivered nothing or is done.
PageInv ==
    \A c \in Cursors :
        /\ pc[c] = "pull" => open[c] /\ scan[c] /\ ~done[c]
        /\ pc[c] = "idle" => page[c] = {}
        /\ scan[c] /\ open[c] => \A k \in page[c] \cup got[c] : k <= pos[c]
        /\ open[c] /\ ~scan[c] /\ ~done[c] => got[c] = {}
        /\ ~open[c] => got[c] = {} /\ ~failed[c]

\* Unless a call failed, no stable key at or before the position is missing.
CoverInv ==
    \A c \in Cursors :
        /\ stable[c] \subseteq snap[c] \cap live
        /\ open[c] /\ scan[c] /\ ~failed[c] =>
              \A k \in stable[c] : k <= pos[c] => k \in got[c] \cup page[c]

ArcInv ==
    /\ \A c \in Cursors : open[c] => c \in holders
    /\ handle => "handle" \in holders
    /\ dropped => holders = {}

VisitInv ==
    \A v \in Visitors :
        /\ vstable[v] \subseteq vsnap[v] \cap live
        /\ vstable[v] \cap vforeign[v] = {}
        /\ vpc[v] = "visit" => \A k \in vstable[v] : k <= vpos[v] => k \in vgot[v]

IInv ==
    /\ TypeOK
    /\ PageInv
    /\ NoReplay
    /\ CoverInv
    /\ CompleteScan
    /\ ArcInv
    /\ VisitInv
    /\ CompleteVisit
=============================================================================
