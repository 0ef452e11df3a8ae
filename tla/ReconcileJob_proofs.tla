------------------------ MODULE ReconcileJob_proofs ------------------------
(***************************************************************************)
(* The reconciler never closes the row of a live position it could see:    *)
(* proved for every market's keys (KeysCorrelate is all that is assumed of *)
(* them), any number of positions, scans, faults, remaps and restarts.     *)
(***************************************************************************)
EXTENDS ReconcileJob, TLAPS

-----------------------------------------------------------------------------
(* Type correctness *)

\* Compare keeps the suspects and the confirmed sets within rows and positions.
LEMMA CompareTypes ==
    ASSUME TypeOK, NEW rows \in SUBSET RowIds, NEW unresolved, Compare(rows, unresolved)
    PROVE  /\ toClose' \in SUBSET RowIds /\ suspected' \in SUBSET RowIds
           /\ toImport' \in SUBSET Pos
           /\ suspectedManual' \in SUBSET {LiveId(p) : p \in Pos}
<1> DEFINE stale == {r \in rows \ unresolved : is_row_stale(r)}
<1> DEFINE untracked == {l \in live : \A r \in rows : dbKeys(r) \cap keysOf(l) = {}}
<1>1. toClose' \subseteq stale /\ suspected' = stale
  BY DEF Compare, Confirmed
<1>2. \A l \in live : l[1] \in Pos
  BY DEF TypeOK, Fetched
<1>3. /\ \A p \in toImport' : \E l \in live : p = l[1]
      /\ \/ suspectedManual' = suspectedManual
         \/ \A x \in suspectedManual' : \E l \in live : x = LiveId(l[1])
  BY DEF Compare
<1> QED
  BY <1>1, <1>2, <1>3 DEF TypeOK

\* Every step of the broker, the other threads and the scan keeps the state
\* well formed.
THEOREM TypeCorrect == Spec => []TypeOK
<1>1. Init => TypeOK
  BY ReconcileBounds DEF Init, TypeOK, Lives, Statuses, ACTIVE, RowIds
<1>2. TypeOK /\ [Next]_vars => TypeOK'
  <2> SUFFICES ASSUME TypeOK, [Next]_vars PROVE TypeOK'
    OBVIOUS
  <2> USE ReconcileBounds, PositionsAssumption
  <2>1. ASSUME NEW p \in Pos, open_position(p) PROVE TypeOK'
    BY <2>1 DEF TypeOK, open_position, Lives, Statuses, ACTIVE, scanVars, boundVars
  <2>2. ASSUME NEW p \in Pos, open_by_hand(p) \/ AppearsInList(p) PROVE TypeOK'
    BY <2>2 DEF TypeOK, open_by_hand, AppearsInList, Lives, flowVars, scanVars, boundVars
  <2>3. ASSUME NEW p \in Pos, insert_position(p) PROVE TypeOK'
    BY <2>3 DEF TypeOK, insert_position, Statuses, ACTIVE, brokerVars, scanVars, boundVars
  <2>4. ASSUME NEW p \in Pos, insert_position_failed(p) PROVE TypeOK'
    BY <2>4 DEF TypeOK, insert_position_failed, Fault, brokerVars, scanVars
  <2>5. ASSUME NEW p \in Pos, handle_tp1(p) PROVE TypeOK'
    BY <2>5 DEF TypeOK, handle_tp1, Statuses, ACTIVE, flowVars, scanVars, boundVars
  <2>6. ASSUME NEW p \in Pos, NEW by \in {"event", "exit"}, close_position(p, by)
        PROVE  TypeOK'
    BY <2>6 DEF TypeOK, close_position, Lives, Reports, scanVars, boundVars
  <2>7. ASSUME NEW p \in Pos, NEW by \in {"event", "exit"},
               CloseReported(p, by) \/ CloseNotReported(p, by)
        PROVE  TypeOK'
    BY <2>7 DEF TypeOK, CloseReported, CloseNotReported, Statuses, brokerVars,
                scanVars, boundVars
  <2>8. ASSUME NEW m \in SUBSET Strategies, set_strategy_magic_map(m) PROVE TypeOK'
    BY <2>8 DEF TypeOK, set_strategy_magic_map, brokerVars, scanVars
  <2>9. CASE fetch_live_positions \/ fetch_while_offline
    <3>1. live' \in SUBSET Fetched /\ unowned' \in SUBSET Pos /\ unseen' \in SUBSET Pos
      BY <2>9 DEF TypeOK, fetch_live_positions, fetch_while_offline, Fetched, Listed
    <3> QED
      BY <2>9, <3>1 DEF TypeOK, fetch_live_positions, fetch_while_offline, brokerVars,
                        flowVars, boundVars
  <2>10. ASSUME NEW rows \in SUBSET RowIds, NEW unresolved, RowsRead,
                Compare(rows, unresolved), Fault \/ UNCHANGED boundVars
         PROVE  TypeOK'
    <3>1. /\ toClose' \in SUBSET RowIds /\ suspected' \in SUBSET RowIds
          /\ toImport' \in SUBSET Pos
          /\ suspectedManual' \in SUBSET {LiveId(p) : p \in Pos}
      BY <2>10, CompareTypes
    <3>2. /\ aged' \in SUBSET Pos /\ live' = {} /\ phase' = "handling"
          /\ UNCHANGED <<pos, reticketed, row, persisting, reports, mapped, unowned, unseen>>
      BY <2>10 DEF RowsRead, brokerVars, flowVars
    <3>3. /\ faults' \in 0..MaxFaults /\ remaps' \in 0..MaxRemaps
          /\ offline' \in 0..MaxOffline /\ crashes' \in 0..MaxCrashes
      BY <2>10 DEF TypeOK, Fault, boundVars
    <3> QED
      BY <3>1, <3>2, <3>3 DEF TypeOK
  <2>11. CASE \/ get_open_positions_for_flat \/ get_open_positions_failed
              \/ \E unresolved \in SUBSET RowIds : db_keys_failed(unresolved)
    <3>1. OpenRows \in SUBSET RowIds /\ {} \in SUBSET RowIds
      BY DEF OpenRows
    <3> QED
      BY <2>10, <2>11, <3>1 DEF get_open_positions_for_flat, get_open_positions_failed,
                                db_keys_failed
  <2>12. ASSUME NEW r \in toClose, on_missed_close(r) \/ on_missed_close_failed(r)
         PROVE  TypeOK'
    BY <2>12 DEF TypeOK, on_missed_close, on_missed_close_failed, Fault, Statuses,
                 brokerVars, flowVars, boundVars
  <2>13. ASSUME NEW p \in toImport, on_manual_position(p) \/ on_manual_position_failed(p)
         PROVE  TypeOK'
    BY <2>13 DEF TypeOK, on_manual_position, on_manual_position_failed, Fault, Statuses,
                 ACTIVE, brokerVars, flowVars, boundVars
  <2>14. CASE scan_ends
    BY <2>14 DEF TypeOK, scan_ends, brokerVars, flowVars, boundVars
  <2>15. CASE Crash
    BY <2>15 DEF TypeOK, Crash, brokerVars
  <2>16. CASE UNCHANGED vars
    BY <2>16 DEF TypeOK, vars, brokerVars, flowVars, scanVars, boundVars
  <2> QED
    BY <2>1, <2>2, <2>3, <2>4, <2>5, <2>6, <2>7, <2>8, <2>9, <2>11, <2>12, <2>13,
       <2>14, <2>15, <2>16 DEF Next, ScanStep
<1> QED
  BY <1>1, <1>2, PTL DEF Spec

-----------------------------------------------------------------------------
(* The two-scan confirmation *)

hidden(p) == p \in unowned \cup unseen

\* Rows, imports and suspicions are about positions that exist.
RowsHavePositions ==
    /\ \A r \in RowIds : row[r] # "NONE" => pos[r[1]] # "none"
    /\ \A p \in persisting \cup toImport \cup aged \cup unowned \cup unseen : pos[p] # "none"
    /\ \A l \in live : pos[l[1]] # "none"

\* A suspected row was open when the last scan read the table, so its position
\* had been filled by then.
SuspectsAged == \A r \in suspected : r[1] \in aged

\* What was filled before the last read is settled at the next fetch: still
\* listed now means listed then, so the fetch shows it or could not see it.
AgedAreFetched ==
    phase = "fetched" => \A p \in aged :
        /\ pos[p] # "filled"
        /\ pos[p] = "listed" => hidden(p) \/ \E re \in BOOLEAN : <<p, re>> \in live

ConfirmedAreGone == \A r \in toClose : pos[r[1]] = "gone" \/ hidden(r[1])

ScanInv == /\ RowsHavePositions /\ SuspectsAged /\ AgedAreFetched
           /\ ConfirmedAreGone /\ NeverClosesLive

\* A row that is stale and was suspected has lost its position: were the
\* position listed, a key of the row would be among the live keys.
LEMMA ConfirmedIsGone ==
    ASSUME TypeOK, ScanInv, phase = "fetched", NEW r \in RowIds, r \in suspected,
           is_row_stale(r)
    PROVE  pos[r[1]] = "gone" \/ hidden(r[1])
<1>1. r[1] \in Pos /\ r[1] \in aged
  BY DEF ScanInv, SuspectsAged, RowIds
<1>2. pos[r[1]] \in {"listed", "gone"}
  BY <1>1 DEF ScanInv, RowsHavePositions, AgedAreFetched, TypeOK, Lives
<1>3. ASSUME pos[r[1]] = "listed", ~hidden(r[1]) PROVE FALSE
  <2>1. PICK re \in BOOLEAN : <<r[1], re>> \in live
    BY <1>1, <1>3 DEF ScanInv, AgedAreFetched
  <2>2. dbKeys(r) \cap LiveKeys(r[1], re) = {}
    BY <2>1 DEF is_row_stale, keysOf
  <2>3. (StrategyOf(r[1]) \in mapped) \in BOOLEAN
    OBVIOUS
  <2>4. LiveKeys(r[1], re) \cap dbKeys(r) # {}
    BY <1>1, <2>3, KeysCorrelate DEF dbKeys
  <2> QED
    BY <2>2, <2>4
<1> QED
  BY <1>2, <1>3

\* Reading and comparing the rows keeps ScanInv.
LEMMA ReadKeepsScanInv ==
    ASSUME TypeOK, TypeOK', ScanInv, NEW rows, NEW unresolved,
           rows \subseteq OpenRows, RowsRead, Compare(rows, unresolved)
    PROVE  ScanInv'
<1>1. /\ \A r \in suspected' : r \in OpenRows
      /\ \A r \in toClose' : r \in OpenRows /\ r \in suspected /\ is_row_stale(r)
      /\ \A p \in toImport' : \E l \in live : p = l[1]
  BY DEF Compare, Confirmed
<1>2. /\ phase = "fetched" /\ phase' = "handling" /\ live' = {}
      /\ aged' = {p \in Pos : pos[p] # "none"}
      /\ UNCHANGED <<pos, row, persisting, unowned, unseen>>
  BY DEF RowsRead, brokerVars, flowVars
<1>3. RowsHavePositions'
  BY <1>1, <1>2 DEF ScanInv, RowsHavePositions
<1>4. SuspectsAged'
  <2> SUFFICES ASSUME NEW r \in suspected' PROVE r[1] \in aged'
    BY DEF SuspectsAged
  <2>1. r \in RowIds /\ row[r] # "NONE"
    BY <1>1 DEF OpenRows, ACTIVE
  <2>2. r[1] \in Pos
    BY <2>1 DEF RowIds
  <2> QED
    BY <1>2, <2>1, <2>2 DEF ScanInv, RowsHavePositions
<1>5. ConfirmedAreGone'
  BY <1>1, <1>2, ConfirmedIsGone DEF ConfirmedAreGone, OpenRows, hidden
<1>6. AgedAreFetched' /\ NeverClosesLive'
  BY <1>2 DEF ScanInv, AgedAreFetched, NeverClosesLive
<1> QED
  BY <1>3, <1>4, <1>5, <1>6 DEF ScanInv

\* For any keys that correlate, a row the reconciler marked TERMINAL_CLOSED has
\* lost its position or no scan could see that position.
THEOREM ReconcilerIsSafe == Spec => []NeverClosesLive
<1>1. Init => ScanInv
  BY DEF Init, ScanInv, RowsHavePositions, SuspectsAged, AgedAreFetched,
         ConfirmedAreGone, NeverClosesLive
<1>2. TypeOK /\ TypeOK' /\ ScanInv /\ [Next]_vars => ScanInv'
  <2> SUFFICES ASSUME TypeOK, TypeOK', ScanInv, [Next]_vars PROVE ScanInv'
    OBVIOUS
  <2> USE DEF ScanInv, RowsHavePositions, SuspectsAged, AgedAreFetched,
              ConfirmedAreGone, NeverClosesLive, hidden
  <2>1. ASSUME NEW p \in Pos, open_position(p) \/ open_by_hand(p) PROVE ScanInv'
    <3>1. /\ pos[p] = "none" /\ pos' = [pos EXCEPT ![p] = "filled"]
          /\ persisting' \subseteq persisting \cup {p}
          /\ \A r \in RowIds : row'[r] = row[r] \/ (row[r] \in ACTIVE /\ row'[r] = "FORCED_CLOSED")
          /\ UNCHANGED <<aged, phase, live, toClose, toImport, suspected, unowned, unseen>>
      BY <2>1 DEF open_position, open_by_hand, scanVars, flowVars, TypeOK
    <3>2. p \notin aged /\ \A r \in toClose : r[1] # p \/ hidden(p)
      BY <3>1 DEF TypeOK
    <3>3. RowsHavePositions'
      BY <3>1 DEF TypeOK, ACTIVE, RowIds, Fetched
    <3>4. SuspectsAged' /\ AgedAreFetched' /\ ConfirmedAreGone'
      BY <3>1, <3>2 DEF TypeOK, RowIds
    <3>5. NeverClosesLive'
      BY <3>1 DEF TypeOK, ACTIVE, RowIds
    <3> QED
      BY <3>3, <3>4, <3>5
  <2>2. ASSUME NEW p \in Pos, AppearsInList(p) PROVE ScanInv'
    <3>1. /\ pos[p] = "filled" /\ pos' = [pos EXCEPT ![p] = "listed"]
          /\ UNCHANGED <<row, persisting, aged, phase, live, toClose, toImport, suspected,
                         unowned, unseen>>
      BY <2>2 DEF AppearsInList, scanVars, flowVars
    <3> QED
      BY <3>1 DEF TypeOK, RowIds, Fetched
  <2>3. ASSUME NEW p \in Pos, insert_position(p) \/ insert_position_failed(p) \/ handle_tp1(p)
        PROVE  ScanInv'
    <3>1. /\ pos[p] # "none" /\ persisting' \subseteq persisting
          /\ \/ row' = row
             \/ \E s \in ACTIVE : row' = [row EXCEPT ![<<p, "own">>] = s]
          /\ UNCHANGED <<pos, aged, phase, live, toClose, toImport, suspected, unowned, unseen>>
      BY <2>3 DEF insert_position, insert_position_failed, handle_tp1, scanVars,
                  flowVars, brokerVars, ACTIVE
    <3> QED
      BY <3>1 DEF TypeOK, RowIds, ACTIVE
  <2>4. ASSUME NEW p \in Pos, NEW by \in {"event", "exit"}, close_position(p, by)
        PROVE  ScanInv'
    <3>1. /\ pos[p] = "listed" /\ pos' = [pos EXCEPT ![p] = "gone"]
          /\ UNCHANGED <<row, persisting, aged, phase, live, toClose, toImport, suspected,
                         unowned, unseen>>
      BY <2>4 DEF close_position, scanVars
    <3> QED
      BY <3>1 DEF TypeOK, RowIds, Fetched
  <2>5. ASSUME NEW p \in Pos, NEW by \in {"event", "exit"},
               CloseReported(p, by) \/ CloseNotReported(p, by)
        PROVE  ScanInv'
    <3>1. /\ \A r \in RowIds : row'[r] = row[r] \/ (row[r] # "NONE" /\ row'[r] = "SL")
          /\ UNCHANGED <<pos, persisting, aged, phase, live, toClose, toImport, suspected,
                         unowned, unseen>>
      BY <2>5 DEF CloseReported, CloseNotReported, ReportedRows, brokerVars, scanVars, ACTIVE
    <3> QED
      BY <3>1
  <2>6. CASE fetch_live_positions \/ fetch_while_offline
    <3>1. /\ EntriesSettled
          /\ unowned \subseteq unowned' /\ unowned' \subseteq unowned \cup Listed
          /\ unseen \subseteq unseen' /\ unseen' \subseteq unseen \cup Listed
          /\ \A l \in live' : l[1] \in Listed
          /\ UNCHANGED <<pos, row, persisting, aged, toClose, toImport, suspected>>
      BY <2>6 DEF fetch_live_positions, fetch_while_offline, brokerVars, flowVars
    <3>2. ASSUME NEW p \in Listed, p \notin unowned', p \notin unseen'
          PROVE  \E re \in BOOLEAN : <<p, re>> \in live'
      <4>1. fetch_live_positions /\ p \in Pos /\ owned(p)
        BY <2>6, <3>2 DEF fetch_live_positions, fetch_while_offline, Listed
      <4>2. CASE p \in reticketed
        BY <3>2, <4>1, <4>2 DEF fetch_live_positions, Fetched
      <4>3. CASE p \notin reticketed
        BY <3>2, <4>1, <4>3 DEF fetch_live_positions, Fetched
      <4> QED
        BY <4>2, <4>3
    <3>3. RowsHavePositions'
      BY <3>1 DEF Listed, TypeOK
    <3>4. AgedAreFetched'
      BY <3>1, <3>2 DEF EntriesSettled, Listed, TypeOK
    <3> QED
      BY <3>1, <3>3, <3>4
  <2>7. CASE \/ get_open_positions_for_flat \/ get_open_positions_failed
             \/ \E unresolved \in SUBSET RowIds : db_keys_failed(unresolved)
    BY <2>7, ReadKeepsScanInv
    DEF get_open_positions_for_flat, get_open_positions_failed, db_keys_failed
  <2>8. ASSUME NEW r \in toClose, on_missed_close(r) \/ on_missed_close_failed(r)
        PROVE  ScanInv'
    <3>1. /\ toClose' \subseteq toClose /\ r \in RowIds
          /\ pos[r[1]] = "gone" \/ hidden(r[1])
          /\ row' = row \/ row' = [row EXCEPT ![r] = "TERMINAL_CLOSED"]
          /\ UNCHANGED <<pos, persisting, aged, phase, live, toImport, suspected, unowned, unseen>>
      BY <2>8 DEF on_missed_close, on_missed_close_failed, brokerVars, flowVars, TypeOK
    <3>2. pos[r[1]] # "none"
      BY <3>1 DEF TypeOK
    <3> QED
      BY <3>1, <3>2 DEF TypeOK
  <2>9. ASSUME NEW p \in toImport, on_manual_position(p) \/ on_manual_position_failed(p)
        PROVE  ScanInv'
    <3>1. /\ toImport' \subseteq toImport /\ p \in Pos /\ pos[p] # "none"
          /\ row' = row \/ row' = [row EXCEPT ![<<p, "import">>] = "OPENED"]
          /\ UNCHANGED <<pos, persisting, aged, phase, live, toClose, suspected, unowned, unseen>>
      BY <2>9 DEF on_manual_position, on_manual_position_failed, brokerVars, flowVars, TypeOK
    <3> QED
      BY <3>1 DEF TypeOK, RowIds
  <2>10. CASE scan_ends \/ Crash \/ UNCHANGED vars
              \/ \E m \in SUBSET Strategies : set_strategy_magic_map(m)
    <3>1. /\ persisting' \subseteq persisting /\ toImport' \subseteq toImport
          /\ toClose' \subseteq toClose /\ live' \subseteq live
          /\ UNCHANGED <<pos, row, unowned, unseen>>
          /\ \/ aged' = aged /\ suspected' = suspected /\ (phase' = "idle" \/ UNCHANGED <<phase, live>>)
             \/ aged' = {} /\ suspected' = {}
      BY <2>10 DEF scan_ends, Crash, set_strategy_magic_map, vars, brokerVars, flowVars,
                   scanVars
    <3> QED
      BY <3>1
  <2> QED
    BY <2>1, <2>2, <2>3, <2>4, <2>5, <2>6, <2>7, <2>8, <2>9, <2>10 DEF Next, ScanStep
<1> QED
  BY <1>1, <1>2, TypeCorrect, PTL DEF Spec, ScanInv

=============================================================================
