--------------------------- MODULE FfiCursorProofs ---------------------------
(* The inductive invariant of FfiCursor holds for any number of cursors,   *)
(* any set of keys and any page size.                                      *)
EXTENDS FfiCursor, TLAPS

USE CursorAssumption

LEMMA KeysAreNat == \A k \in Keys \cup {0} : k \in Nat
<1>1. \A k \in Keys : k \in Nat
  BY Zenon
<1>2. QED
  BY <1>1

LEMMA InitIInv == Init => IInv
<1> SUFFICES ASSUME Init PROVE IInv
  BY Zenon
<1> USE DEF Init
<1>1. TypeOK
  <2>1. 0 \in 0..MaxPage
    OBVIOUS
  <2>2. QED
    BY <2>1, ZenonT(60) DEF TypeOK
<1>2. PageInv /\ NoReplay
  BY Zenon DEF PageInv, NoReplay
<1>3. CoverInv /\ CompleteScan
  BY Zenon DEF CoverInv, CompleteScan
<1>4. ArcInv
  BY Zenon DEF ArcInv
<1>5. VisitInv /\ CompleteVisit
  BY Zenon DEF VisitInv, CompleteVisit
<1>6. QED
  BY <1>1, <1>2, <1>3, <1>4, <1>5, Zenon DEF IInv

\* The steps of cursors and of the handle leave callback scans alone.
LEMMA VisitsUntouched ==
  ASSUME IInv, UNCHANGED <<live, visitVars>>
  PROVE  VisitInv' /\ CompleteVisit'
  BY Zenon DEF IInv, VisitInv, CompleteVisit, visitVars

\* The steps of callback scans leave cursors alone.
LEMMA CursorsUntouched ==
  ASSUME IInv, UNCHANGED <<engineVars, cursorVars>>
  PROVE  PageInv' /\ NoReplay' /\ CoverInv' /\ CompleteScan' /\ ArcInv'
<1> USE DEF IInv, engineVars, cursorVars, scanVars
<1>1. PageInv' /\ NoReplay' /\ ArcInv'
  BY Zenon DEF PageInv, NoReplay, ArcInv
<1>2. CoverInv' /\ CompleteScan'
  BY Zenon DEF CoverInv, CompleteScan
<1>3. QED
  BY <1>1, <1>2, Zenon

\* A key that is written or deleted is no longer counted on.
LEMMA WriteIInv ==
  ASSUME IInv, NEW k \in Keys, Write(k)
  PROVE  IInv'
<1> USE DEF IInv
<1>1. UNCHANGED <<handle, holders, dropped, open, scan, pos, done, snap, pc, form, want,
                  page, got, failed, vpc, vpos, vsnap, vforeign, vgot>>
  BY Zenon DEF Write, scanVars
<1>2. /\ live' \subseteq Keys /\ foreign' \subseteq live'
      /\ stable' \in [Cursors -> SUBSET Keys]
      /\ \A c \in Cursors : stable'[c] \subseteq stable[c] /\ stable'[c] \subseteq live'
      /\ vstable' \in [Visitors -> SUBSET Keys]
      /\ \A v \in Visitors : vstable'[v] \subseteq vstable[v] /\ vstable'[v] \subseteq live'
  <2>1. CASE k \notin live /\ live' = live \cup {k} /\ UNCHANGED <<foreign, stable, vstable>>
    BY <2>1 DEF TypeOK, CoverInv, VisitInv
  <2>2. CASE /\ live' = live \ {k} /\ foreign' = foreign \ {k}
             /\ stable' = [c \in Cursors |-> stable[c] \ {k}]
             /\ vstable' = [v \in Visitors |-> vstable[v] \ {k}]
    BY <2>2, Zenon DEF TypeOK, CoverInv, VisitInv
  <2>3. CASE foreign' = foreign \ {k} /\ UNCHANGED <<live, stable, vstable>>
    BY <2>3, Zenon DEF TypeOK, CoverInv, VisitInv
  <2>4. QED
    BY <2>1, <2>2, <2>3, Zenon DEF Write
<1>3. TypeOK' /\ PageInv' /\ NoReplay' /\ ArcInv'
  BY <1>1, <1>2, Zenon DEF TypeOK, PageInv, NoReplay, ArcInv
<1>4. CoverInv' /\ CompleteScan'
  BY <1>1, <1>2, Zenon DEF CoverInv, CompleteScan
<1>5. VisitInv' /\ CompleteVisit'
  BY <1>1, <1>2, Zenon DEF VisitInv, CompleteVisit
<1>6. QED
  BY <1>3, <1>4, <1>5, Zenon

LEMMA EngineFreeIInv ==
  ASSUME IInv, f4kvs_engine_free
  PROVE  IInv'
<1> USE DEF IInv, f4kvs_engine_free, DropArc, scanVars
<1>1. TypeOK' /\ ArcInv'
  BY ZenonT(60) DEF TypeOK, ArcInv, visitVars
<1>2. PageInv' /\ NoReplay' /\ CoverInv' /\ CompleteScan'
  BY Zenon DEF PageInv, NoReplay, CoverInv, CompleteScan
<1>3. QED
  BY <1>1, <1>2, VisitsUntouched, Zenon

LEMMA OpenIInv ==
  ASSUME IInv, NEW c \in Cursors, f4kvs_engine_cursor_open(c)
  PROVE  IInv'
<1> USE DEF IInv, f4kvs_engine_cursor_open
<1>1. TypeOK' /\ ArcInv'
  BY Zenon DEF TypeOK, ArcInv, visitVars
<1>2. PageInv' /\ NoReplay'
  BY DEF PageInv, NoReplay, TypeOK
<1>3. CoverInv' /\ CompleteScan'
  BY DEF CoverInv, CompleteScan, TypeOK
<1>4. QED
  BY <1>1, <1>2, <1>3, VisitsUntouched, Zenon

LEMMA CursorFreeIInv ==
  ASSUME IInv, NEW c \in Cursors, f4kvs_engine_cursor_free(c)
  PROVE  IInv'
<1> USE DEF IInv, f4kvs_engine_cursor_free, DropArc
<1>1. TypeOK' /\ ArcInv'
  BY Zenon DEF TypeOK, ArcInv, visitVars
<1>2. PageInv' /\ NoReplay'
  BY DEF PageInv, NoReplay, TypeOK
<1>3. CoverInv' /\ CompleteScan'
  BY DEF CoverInv, CompleteScan, TypeOK
<1>4. QED
  BY <1>1, <1>2, <1>3, VisitsUntouched, Zenon

\* A scan that starts has delivered nothing, so starting over is no replay.
LEMMA AskIInv ==
  ASSUME IInv, NEW c \in Cursors, Ask(c)
  PROVE  IInv'
<1> USE DEF IInv, scanVars, engineVars
<1>1. PICK f \in {"c", "kv"}, max \in 0..MaxPage : f4kvs_engine_cursor_next_n(c, f, max)
  BY Zenon DEF Ask
<1>2. /\ open[c] /\ pc[c] = "idle" /\ UNCHANGED <<live, foreign, handle, holders, dropped, open>>
      /\ UNCHANGED <<vpc, vpos, vsnap, vforeign, vstable, vgot>>
  BY <1>1, Zenon DEF f4kvs_engine_cursor_next_n, visitVars
<1>visits. VisitInv' /\ CompleteVisit'
  BY <1>2, VisitsUntouched, Zenon DEF visitVars
<1>3. CASE UNCHANGED <<scanVars, stable, pc, form, want, page, got, failed>>
  BY <1>2, <1>3, <1>visits, Zenon DEF TypeOK, PageInv, NoReplay, CoverInv, CompleteScan, ArcInv
<1>4. CASE Fail(c) /\ ~done[c] /\ ~scan[c] /\ UNCHANGED <<scanVars, stable, form>>
  <2>1. TypeOK' /\ ArcInv'
    <3>1. 0 \in 0..MaxPage
      OBVIOUS
    <3>2. QED
      BY <1>2, <1>4, <3>1, Zenon DEF Fail, TypeOK, ArcInv
  <2>2. PageInv' /\ NoReplay'
    BY <1>2, <1>4 DEF Fail, PageInv, NoReplay, TypeOK
  <2>3. CoverInv' /\ CompleteScan'
    BY <1>2, <1>4 DEF Fail, PageInv, CoverInv, CompleteScan, TypeOK
  <2>4. QED
    BY <1>visits, <2>1, <2>2, <2>3, Zenon
<1>5. CASE /\ cursor_ensure_state(c) /\ ~done[c]
           /\ pc' = [pc EXCEPT ![c] = "pull"]
           /\ form' = [form EXCEPT ![c] = f]
           /\ want' = [want EXCEPT ![c] = max]
           /\ UNCHANGED <<page, got, failed>>
  <2>1. TypeOK' /\ ArcInv'
    <3>1. /\ scan' \in [Cursors -> BOOLEAN] /\ done' \in [Cursors -> BOOLEAN]
          /\ pos' \in [Cursors -> Keys \cup {0}]
          /\ snap' \in [Cursors -> SUBSET Keys] /\ stable' \in [Cursors -> SUBSET Keys]
      <4>1. CASE scan[c]
        BY <1>5, <4>1, Zenon DEF cursor_ensure_state, TypeOK
      <4>2. CASE ~scan[c]
        <5>1. /\ scan' = [scan EXCEPT ![c] = TRUE] /\ done' = done
              /\ pos' = [pos EXCEPT ![c] = 0]
              /\ snap' = [snap EXCEPT ![c] = live] /\ stable' = [stable EXCEPT ![c] = live]
          BY <1>5, <4>2, Zenon DEF cursor_ensure_state
        <5>2. scan' \in [Cursors -> BOOLEAN] /\ done' \in [Cursors -> BOOLEAN]
          BY <5>1, Zenon DEF TypeOK
        <5>3. pos' \in [Cursors -> Keys \cup {0}]
          BY <5>1, Zenon DEF TypeOK
        <5>4. snap' \in [Cursors -> SUBSET Keys] /\ stable' \in [Cursors -> SUBSET Keys]
          BY <5>1, Zenon DEF TypeOK
        <5>5. QED
          BY <5>2, <5>3, <5>4, Zenon
      <4>3. QED
        BY <4>1, <4>2, Zenon
    <3>2. QED
      BY <1>2, <1>5, <3>1, ZenonT(60) DEF TypeOK, ArcInv
  <2>2. page[c] = {} /\ (~scan[c] => got[c] = {})
    BY <1>2, <1>5, Zenon DEF PageInv
  <2>3. PageInv' /\ NoReplay'
    BY <1>2, <1>5, <2>2 DEF cursor_ensure_state, PageInv, NoReplay, TypeOK
  <2>4. CoverInv'
    <3>1. CASE scan[c]
      <4>1. UNCHANGED <<scan, pos, snap, stable>>
        BY <1>5, <3>1, Zenon DEF cursor_ensure_state
      <4>2. QED
        BY <1>2, <1>5, <4>1, Zenon DEF CoverInv
    <3>2. CASE ~scan[c]
      <4>1. /\ pos'[c] = 0 /\ stable'[c] = live /\ snap'[c] = live
            /\ \A d \in Cursors : d # c => /\ pos'[d] = pos[d] /\ stable'[d] = stable[d]
                                           /\ snap'[d] = snap[d] /\ scan'[d] = scan[d]
        BY <1>5, <3>2 DEF cursor_ensure_state, TypeOK
      <4>2. \A k \in live : ~(k <= 0)
        BY DEF TypeOK
      <4>3. QED
        BY <1>2, <1>5, <4>1, <4>2, Zenon DEF CoverInv
    <3>3. QED
      BY <3>1, <3>2, Zenon
  <2>5. CompleteScan'
    BY <1>2, <1>5 DEF cursor_ensure_state, CompleteScan, TypeOK
  <2>6. QED
    BY <1>visits, <2>1, <2>3, <2>4, <2>5, Zenon
<1>6. QED
  BY <1>1, <1>3, <1>4, <1>5, Zenon DEF f4kvs_engine_cursor_next_n

\* The next key is no further than the first stable key after the position.
LEMMA PullKeyIInv ==
  ASSUME IInv, NEW c \in Cursors, PullKey(c)
  PROVE  IInv'
<1> USE DEF IInv
<1>1. PICK k \in Keys : /\ NextKey(k, pos[c], snap[c])
                        /\ pos' = [pos EXCEPT ![c] = k]
                        /\ page' = [page EXCEPT ![c] = @ \cup {k}]
  BY ZenonT(60) DEF PullKey
<1>2. /\ pc[c] = "pull" /\ want[c] > 0 /\ want' = [want EXCEPT ![c] = @ - 1]
      /\ UNCHANGED <<live, foreign, handle, holders, dropped, open, scan, done, snap, pc, form,
                     got, stable, failed, vpc, vpos, vsnap, vforeign, vstable, vgot>>
  BY Zenon DEF PullKey, engineVars, visitVars
<1>3. TypeOK' /\ ArcInv'
  BY <1>1, <1>2 DEF TypeOK, ArcInv
<1>4. /\ k > pos[c] /\ pos[c] \in Nat /\ k \in Nat
      /\ \A j \in stable[c] : j > pos[c] => k <= j
  <2>1. k > pos[c] /\ \A j \in snap[c] \cap live : j > pos[c] => k <= j
    BY <1>1, Zenon DEF NextKey
  <2>2. pos[c] \in Nat /\ k \in Nat
    <3>1. pos[c] \in Keys \cup {0}
      BY Zenon DEF TypeOK
    <3>2. QED
      BY <3>1, KeysAreNat, ZenonT(60)
  <2>3. stable[c] \subseteq snap[c] \cap live
    BY Zenon DEF CoverInv
  <2>4. QED
    BY <2>1, <2>2, <2>3, Zenon
<1>5. \A j \in page[c] \cup got[c] : j <= pos[c] /\ j \in Nat
  BY <1>2, Zenon DEF PageInv, TypeOK
<1>6. \A j \in page[c] \cup got[c] : j < k
  BY <1>4, <1>5
<1>7. PageInv' /\ NoReplay'
  BY <1>1, <1>2, <1>4, <1>5, <1>6 DEF PageInv, NoReplay, TypeOK
<1>8. CoverInv'
  <2>1. ASSUME NEW j \in stable[c], j <= k, open[c], scan[c], ~failed[c]
        PROVE  j \in got[c] \cup page[c] \cup {k}
    <3>1. j \in Nat
      BY Zenon DEF TypeOK
    <3>2. CASE j <= pos[c]
      BY <2>1, <3>2, Zenon DEF CoverInv
    <3>3. CASE j > pos[c]
      BY <1>4, <2>1, <3>1, <3>3
    <3>4. QED
      BY <1>4, <3>1, <3>2, <3>3
  <2>2. QED
    BY <1>1, <1>2, <2>1 DEF CoverInv, TypeOK
<1>9. CompleteScan'
  BY <1>2, Zenon DEF CompleteScan
<1>10. VisitInv' /\ CompleteVisit'
  BY <1>2, VisitsUntouched, Zenon DEF visitVars
<1>11. QED
  BY <1>3, <1>7, <1>8, <1>9, <1>10, Zenon

LEMMA PullErrorIInv ==
  ASSUME IInv, NEW c \in Cursors, PullError(c)
  PROVE  IInv'
<1> USE DEF IInv, PullError, Fail, engineVars, scanVars
<1>1. TypeOK' /\ ArcInv'
  <2>1. 0 \in 0..MaxPage
    OBVIOUS
  <2>2. QED
    BY <2>1, Zenon DEF TypeOK, ArcInv, visitVars
<1>2. PageInv' /\ NoReplay'
  BY DEF PageInv, NoReplay, TypeOK
<1>3. CoverInv' /\ CompleteScan'
  BY DEF CoverInv, CompleteScan, TypeOK
<1>4. QED
  BY <1>1, <1>2, <1>3, VisitsUntouched, Zenon

\* At the end of the scan every stable key is at or before the position.
LEMMA FillIInv ==
  ASSUME IInv, NEW c \in Cursors, fill_scan_result(c)
  PROVE  IInv'
<1> USE DEF IInv
<1>1. /\ pc[c] = "pull" /\ open[c] /\ scan[c] /\ ~done[c]
      /\ UNCHANGED <<live, foreign, handle, holders, dropped, open, pos, snap, form, stable>>
      /\ UNCHANGED <<vpc, vpos, vsnap, vforeign, vstable, vgot>>
      /\ pc' = [pc EXCEPT ![c] = "idle"]
      /\ page' = [page EXCEPT ![c] = {}]
      /\ want' = [want EXCEPT ![c] = 0]
  BY Zenon DEF fill_scan_result, Fail, PageInv, engineVars, visitVars
<1>2. \/ UNCHANGED <<scan, done>>
      \/ /\ AtEnd(pos[c], snap[c])
         /\ scan' = [scan EXCEPT ![c] = FALSE]
         /\ done' = [done EXCEPT ![c] = TRUE]
  BY Zenon DEF fill_scan_result
<1>3. \/ failed' = [failed EXCEPT ![c] = TRUE] /\ UNCHANGED got
      \/ got' = [got EXCEPT ![c] = @ \cup page[c]] /\ UNCHANGED failed
  BY Zenon DEF fill_scan_result, Fail
<1>4. TypeOK' /\ ArcInv'
  <2>1. 0 \in 0..MaxPage
    OBVIOUS
  <2>2. /\ scan' \in [Cursors -> BOOLEAN] /\ done' \in [Cursors -> BOOLEAN]
        /\ failed' \in [Cursors -> BOOLEAN] /\ got' \in [Cursors -> SUBSET Keys]
    <3>1. scan' \in [Cursors -> BOOLEAN] /\ done' \in [Cursors -> BOOLEAN]
      BY <1>2, ZenonT(60) DEF TypeOK
    <3>2. page[c] \subseteq Keys
      BY Zenon DEF TypeOK
    <3>3. failed' \in [Cursors -> BOOLEAN] /\ got' \in [Cursors -> SUBSET Keys]
      <4>1. CASE failed' = [failed EXCEPT ![c] = TRUE] /\ UNCHANGED got
        BY <4>1, Zenon DEF TypeOK
      <4>2. CASE got' = [got EXCEPT ![c] = @ \cup page[c]] /\ UNCHANGED failed
        BY <3>2, <4>2, Zenon DEF TypeOK
      <4>3. QED
        BY <1>3, <4>1, <4>2, Zenon
    <3>4. QED
      BY <3>1, <3>3, Zenon
  <2>3. QED
    BY <1>1, <2>1, <2>2, ZenonT(60) DEF TypeOK, ArcInv
<1>5. PageInv' /\ NoReplay'
  <2>1. \A d \in Cursors :
          /\ d # c => /\ pc'[d] = pc[d] /\ page'[d] = page[d] /\ got'[d] = got[d]
                      /\ scan'[d] = scan[d] /\ done'[d] = done[d] /\ failed'[d] = failed[d]
          /\ d = c => pc'[d] = "idle" /\ page'[d] = {}
    BY <1>1, <1>2, <1>3 DEF TypeOK
  <2>2. got'[c] \subseteq got[c] \cup page[c] /\ (scan'[c] \/ done'[c])
    BY <1>1, <1>2, <1>3 DEF TypeOK
  <2>3. QED
    BY <1>1, <2>1, <2>2 DEF PageInv, NoReplay
<1>6. CoverInv'
  BY <1>1, <1>2, <1>3 DEF CoverInv, TypeOK
<1>7. CompleteScan'
  <2>1. AtEnd(pos[c], snap[c]) /\ ~failed[c] => stable[c] \subseteq got[c] \cup page[c]
    BY <1>1, Zenon DEF AtEnd, CoverInv
  <2>2. QED
    BY <1>1, <1>2, <1>3, <2>1 DEF CompleteScan, TypeOK
<1>8. VisitInv' /\ CompleteVisit'
  BY <1>1, VisitsUntouched, Zenon DEF visitVars
<1>9. QED
  BY <1>4, <1>5, <1>6, <1>7, <1>8, Zenon

\* A scan that starts has position 0, which no key is at or before.
LEMMA StartVisitIInv ==
  ASSUME IInv, NEW v \in Visitors, f4kvs_engine_scan_prefix_cb(v)
  PROVE  IInv'
<1> USE DEF IInv, f4kvs_engine_scan_prefix_cb
<1>1. PageInv' /\ NoReplay' /\ CoverInv' /\ CompleteScan' /\ ArcInv'
  BY CursorsUntouched, Zenon
<1>2. TypeOK'
  BY Zenon DEF TypeOK, engineVars, cursorVars, scanVars
<1>3. /\ vpos'[v] = 0 /\ vstable'[v] = live \ foreign /\ vsnap'[v] = live /\ live' = live
      /\ vforeign'[v] = foreign
      /\ vpc'[v] \in {"visit", "failed"}
      /\ \A u \in Visitors : u # v =>
            /\ vpos'[u] = vpos[u] /\ vstable'[u] = vstable[u] /\ vsnap'[u] = vsnap[u]
            /\ vpc'[u] = vpc[u] /\ vgot'[u] = vgot[u] /\ vforeign'[u] = vforeign[u]
  BY DEF TypeOK, engineVars
<1>4. \A k \in live : ~(k <= 0)
  BY DEF TypeOK
<1>5. VisitInv'
  BY <1>3, <1>4 DEF VisitInv
<1>6. CompleteVisit'
  BY <1>3, Zenon DEF CompleteVisit
<1>7. QED
  BY <1>1, <1>2, <1>5, <1>6, Zenon

LEMMA VisitIInv ==
  ASSUME IInv, NEW v \in Visitors, NEW stop \in BOOLEAN, Visit(v, stop)
  PROVE  IInv'
<1> USE DEF IInv
<1>1. PageInv' /\ NoReplay' /\ CoverInv' /\ CompleteScan' /\ ArcInv'
  BY CursorsUntouched, Zenon DEF Visit
<1>2. PICK k \in Keys : /\ NextKey(k, vpos[v], vsnap[v])
                        /\ vpos' = [vpos EXCEPT ![v] = k]
                        /\ vgot' = [vgot EXCEPT ![v] = @ \cup {k}]
  BY ZenonT(60) DEF Visit
<1>3. /\ vpc[v] = "visit" /\ vpc' = [vpc EXCEPT ![v] = IF stop THEN "stopped" ELSE @]
      /\ UNCHANGED <<live, vsnap, vforeign, vstable>>
  BY Zenon DEF Visit, engineVars
<1>4. TypeOK'
  BY <1>2, <1>3 DEF Visit, TypeOK, engineVars, cursorVars, scanVars
<1>5. \A j \in vstable[v] : j <= k => j \in vgot'[v]
  <2>1. k \in Nat /\ vpos[v] \in Nat /\ vgot'[v] = vgot[v] \cup {k}
    <3>1. vpos[v] \in Keys \cup {0}
      BY Zenon DEF TypeOK
    <3>2. QED
      BY <1>2, <3>1, KeysAreNat, ZenonT(60) DEF TypeOK
  <2>2. ASSUME NEW j \in vstable[v], j <= k
        PROVE  j \in vgot'[v]
    <3>1. j \in Nat /\ j \in vsnap[v] \cap live
      BY Zenon DEF TypeOK, VisitInv
    <3>2. CASE j <= vpos[v]
      BY <1>3, <2>1, <3>2, Zenon DEF VisitInv
    <3>3. CASE j > vpos[v]
      <4>1. k <= j
        BY <1>2, <3>1, <3>3, Zenon DEF NextKey
      <4>2. QED
        BY <2>1, <2>2, <3>1, <4>1
    <3>4. QED
      BY <2>1, <3>1, <3>2, <3>3
  <2>3. QED
    BY <2>2, Zenon
<1>6. /\ vpos'[v] = k /\ vpc'[v] \in {"visit", "stopped"}
      /\ \A u \in Visitors : u # v =>
            vpos'[u] = vpos[u] /\ vpc'[u] = vpc[u] /\ vgot'[u] = vgot[u]
  BY <1>2, <1>3 DEF TypeOK
<1>7. VisitInv'
  BY <1>3, <1>5, <1>6, Zenon DEF VisitInv
<1>8. CompleteVisit'
  BY <1>3, <1>5, <1>6, Zenon DEF CompleteVisit
<1>9. QED
  BY <1>1, <1>4, <1>7, <1>8, Zenon

\* A key that is passed over was foreign at the start, so it is not stable.
LEMMA VisitSkipIInv ==
  ASSUME IInv, NEW v \in Visitors, VisitSkip(v)
  PROVE  IInv'
<1> USE DEF IInv
<1>1. PageInv' /\ NoReplay' /\ CoverInv' /\ CompleteScan' /\ ArcInv'
  BY CursorsUntouched, Zenon DEF VisitSkip
<1>2. PICK k \in vforeign[v] : NextKey(k, vpos[v], vsnap[v]) /\ vpos' = [vpos EXCEPT ![v] = k]
  BY Zenon DEF VisitSkip
<1>3. vpc[v] = "visit" /\ UNCHANGED <<live, vpc, vsnap, vforeign, vstable, vgot>>
  BY Zenon DEF VisitSkip, engineVars
<1>4. k \in Keys
  BY <1>2, Zenon DEF TypeOK
<1>5. TypeOK'
  BY <1>2, <1>4, Zenon DEF VisitSkip, TypeOK, engineVars, cursorVars, scanVars
<1>6. ASSUME NEW j \in vstable[v], j <= k
      PROVE  j \in vgot[v]
  <2>1. j \in Keys /\ j \in vsnap[v] \cap live /\ j # k
    <3>1. j \in Keys /\ j \in vsnap[v] \cap live
      BY Zenon DEF TypeOK, VisitInv
    <3>2. vstable[v] \cap vforeign[v] = {}
      BY Zenon DEF VisitInv
    <3>3. QED
      BY <1>2, <3>1, <3>2
  <2>2. j \in Nat /\ k \in Nat /\ vpos[v] \in Nat
    BY <1>4, <2>1, KeysAreNat, Zenon DEF TypeOK
  <2>3. ~(j > vpos[v])
    <3>1. j > vpos[v] => k <= j
      BY <1>2, <2>1, Zenon DEF NextKey
    <3>2. QED
      BY <1>6, <2>1, <2>2, <3>1
  <2>4. j <= vpos[v]
    BY <2>2, <2>3
  <2>5. QED
    BY <1>3, <2>4, Zenon DEF VisitInv
<1>7. vpos'[v] = k /\ \A u \in Visitors : u # v => vpos'[u] = vpos[u]
  BY <1>2, Zenon DEF TypeOK
<1>8. VisitInv'
  BY <1>3, <1>6, <1>7, Zenon DEF VisitInv
<1>9. CompleteVisit'
  BY <1>3, <1>7, Zenon DEF CompleteVisit
<1>10. QED
  BY <1>1, <1>5, <1>8, <1>9, Zenon

LEMMA VisitEndIInv ==
  ASSUME IInv, NEW v \in Visitors, VisitEnd(v)
  PROVE  IInv'
<1> USE DEF IInv, VisitEnd
<1>1. PageInv' /\ NoReplay' /\ CoverInv' /\ CompleteScan' /\ ArcInv'
  BY CursorsUntouched, Zenon
<1>2. TypeOK'
  BY Zenon DEF TypeOK, engineVars, cursorVars, scanVars
<1>3. VisitInv'
  BY DEF VisitInv, TypeOK, engineVars
<1>4. CompleteVisit'
  <2>1. AtEnd(vpos[v], vsnap[v]) => vstable[v] \subseteq vgot[v]
    BY Zenon DEF AtEnd, VisitInv
  <2>2. QED
    BY <2>1 DEF CompleteVisit, TypeOK
<1>5. QED
  BY <1>1, <1>2, <1>3, <1>4, Zenon

LEMMA NextIInv == IInv /\ [Next]_vars => IInv'
<1>1. ASSUME IInv, UNCHANGED vars
      PROVE  IInv'
  BY <1>1, Zenon DEF vars, engineVars, scanVars, visitVars, IInv, TypeOK, PageInv, NoReplay,
     CoverInv, CompleteScan, ArcInv, VisitInv, CompleteVisit
<1>2. QED
  BY <1>1, WriteIInv, EngineFreeIInv, OpenIInv, CursorFreeIInv, AskIInv, PullKeyIInv,
     PullErrorIInv, FillIInv, StartVisitIInv, VisitIInv, VisitSkipIInv, VisitEndIInv,
     Zenon DEF Next, Page

\* The bookkeeping of every cursor stays consistent for any set of keys.
THEOREM CursorDiscipline == Spec => []IInv
  BY InitIInv, NextIInv, PTL DEF Spec

\* No page ever goes back to a key that was delivered, errors included.
THEOREM PagesNeverReplay == Spec => []NoReplay
<1>1. IInv => NoReplay
  BY Zenon DEF IInv
<1>2. QED
  BY <1>1, CursorDiscipline, PTL

\* Without failed calls the end of a scan means nothing stable was skipped.
THEOREM ScansAreComplete == Spec => []CompleteScan
<1>1. IInv => CompleteScan
  BY Zenon DEF IInv
<1>2. QED
  BY <1>1, CursorDiscipline, PTL

\* A callback scan that succeeds has shown every key that was there all the
\* time with bytes or a string as its value, up to the key at which the
\* callback stopped it.
THEOREM VisitsAreComplete == Spec => []CompleteVisit
<1>1. IInv => CompleteVisit
  BY Zenon DEF IInv
<1>2. QED
  BY <1>1, CursorDiscipline, PTL

\* The engine outlives its cursors, whenever the handle is freed.
THEOREM CursorsKeepEngine == Spec => []EngineOutlivesCursors
<1>1. IInv => EngineOutlivesCursors
  BY Zenon DEF IInv, ArcInv, EngineOutlivesCursors, TypeOK
<1>2. QED
  BY <1>1, CursorDiscipline, PTL

\* Type correctness.
THEOREM TypeCorrect == Spec => []TypeOK
<1>1. IInv => TypeOK
  BY Zenon DEF IInv
<1>2. QED
  BY <1>1, CursorDiscipline, PTL
=============================================================================
