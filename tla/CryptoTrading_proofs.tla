------------------------ MODULE CryptoTrading_proofs ------------------------
(***************************************************************************)
(* Execution of signals on one symbol, for any strategies, any number of   *)
(* entries, signals, broker failures, database errors and crashes.         *)
(***************************************************************************)
EXTENDS CryptoTrading, TLAPS

-----------------------------------------------------------------------------
(* Type correctness *)

\* The counters of TypeOK.
Bounds ==
    /\ signals \in 0..MaxSignals /\ faults \in 0..MaxFaults
    /\ dbErrors \in 0..MaxDbErrors /\ byHand \in 0..MaxByHand
    /\ crashes \in 0..MaxCrashes

\* update_position_status writes a status into the table, wherever it finds the
\* row.
LEMMA UpdateKeepsTable ==
    ASSUME NEW new \in Statuses, update_position_status(new), row \in [Entries -> Statuses]
    PROVE  row' \in [Entries -> Statuses] /\ (UNCHANGED boundVars \/ DbError)
BY DEF update_position_status, Read, Healed, Statuses

\* Every step of the listener, the exchange and the stream thread keeps the
\* state well formed.
THEOREM TypeCorrect == Spec => []TypeOK
<1>1. ASSUME Init PROVE TypeOK
  <2>1. Bounds
    BY <1>1, TradingBounds DEF Init, Bounds
  <2>2. row \in [Entries -> Statuses] /\ strategyOf \in [Entries -> Strategies \cup {Nobody}]
    BY <1>1 DEF Init, Statuses
  <2>3. /\ size \in 0..2 /\ holder = 0 /\ stop \in Stops /\ entries = 0
        /\ events \in Nat /\ tracked = 0
    BY <1>1 DEF Init, Stops
  <2>4. /\ pc \in Steps /\ action \in Actions /\ strategy = Nobody
        /\ dbStale = {} /\ after \in Reasons /\ status \in Statuses /\ alarm = "none"
        /\ matched = {}
    BY <1>1 DEF Init, Steps, Actions, Reasons, Statuses
  <2> QED
    BY <2>1, <2>2, <2>3, <2>4 DEF TypeOK, Bounds
<1>2. TypeOK /\ [Next]_vars => TypeOK'
  <2> SUFFICES ASSUME TypeOK, [Next]_vars PROVE TypeOK'
    OBVIOUS
  <2> USE TradingBounds
  <2> USE DEF TypeOK, Goto, Finish, Report, Failed, Abort, GoFlat, Steps, Actions,
              Reasons, Statuses, ACTIVE, exchangeVars, entryVars, signalVars, streamVars,
              boundVars, Stops, BrokerFault, DbError
  <2>1. ASSUME NEW a \in Actions, NEW s \in Strategies, receive(a, s) PROVE TypeOK'
    BY <2>1 DEF receive
  <2>2. CASE entry_rejection
    BY <2>2 DEF entry_rejection, Read
  <2>3. CASE netting_guard
    BY <2>3 DEF netting_guard, Read
  <2>4. CASE find_stale
    BY <2>4 DEF find_stale, Read, OwnRows, ActiveRows
  <2>5. CASE mark_stale
    BY <2>5 DEF mark_stale
  <2>6. CASE place_entry_order
    <3>1. /\ UNCHANGED <<row, events, matched>>
          /\ UNCHANGED boundVars \/ DbError
          /\ \/ Failed /\ UNCHANGED <<exchangeVars, entryVars>>
             \/ /\ entries < MaxEntries /\ entries' = entries + 1
                /\ strategyOf' = [strategyOf EXCEPT ![entries + 1] = strategy]
                /\ size' = 2 /\ holder' = entries + 1 /\ stop' = "none"
                /\ alarm' = "none" /\ Goto("stop_loss")
                /\ UNCHANGED <<signalVars, tracked, dbStale, after, status>>
      BY <2>6 DEF place_entry_order, Read
    <3>2. entries < MaxEntries => entries + 1 \in Entries
      BY DEF Entries
    <3>3. /\ entries' \in Entries \cup {0} /\ holder' \in Entries \cup {0}
          /\ strategyOf' \in [Entries -> Strategies \cup {Nobody}]
      BY <3>1, <3>2
    <3> QED
      BY <3>1, <3>3
  <2>7. CASE entry_order_fails
    BY <2>7 DEF entry_order_fails, Entries
  <2>8. CASE attach_stop \/ rollback
    BY <2>8 DEF attach_stop, rollback
  <2>9. CASE insert_position
    BY <2>9 DEF insert_position
  <2>10. CASE get_db_position
    BY <2>10 DEF get_db_position, Read, Healed
  <2>11. CASE live_guard
    BY <2>11 DEF live_guard
  <2>12. CASE partial_close
    BY <2>12 DEF partial_close
  <2>13. CASE breakeven_cancel \/ breakeven_stop
    BY <2>13 DEF breakeven_cancel, breakeven_stop
  <2>14. CASE close_cancel
    BY <2>14 DEF close_cancel, CloseFails
  <2>15. CASE close_order
    BY <2>15 DEF close_order, CloseFails, CloseSucceeds
  <2>16. CASE flat_sync
    <3>1. ASSUME update_position_status("FLATTED")
          PROVE  row' \in [Entries -> Statuses] /\ (UNCHANGED boundVars \/ DbError)
      BY <3>1, UpdateKeepsTable
    <3> QED
      BY <2>16, <3>1 DEF flat_sync
  <2>17. CASE persist
    <3>1. ASSUME update_position_status(status)
          PROVE  row' \in [Entries -> Statuses] /\ (UNCHANGED boundVars \/ DbError)
      BY <3>1, UpdateKeepsTable
    <3> QED
      BY <2>17, <3>1 DEF persist
  <2>18. CASE PositionsUnavailable
    BY <2>18 DEF PositionsUnavailable
  <2>19. CASE ExchangeCloses \/ ReducedByHand \/ EventLost
    BY <2>19 DEF ExchangeCloses, ReducedByHand, EventLost
  <2>20. CASE on_exchange_close
    BY <2>20 DEF on_exchange_close, Read, ActiveRows
  <2>21. ASSUME NEW n \in Entries, close_matched(n) PROVE TypeOK'
    BY <2>21 DEF close_matched
  <2>22. CASE Crash
    BY <2>22 DEF Crash
  <2>23. CASE UNCHANGED vars
    BY <2>23 DEF vars
  <2> QED
    BY <2>1, <2>2, <2>3, <2>4, <2>5, <2>6, <2>7, <2>8, <2>9, <2>10, <2>11, <2>12, <2>13,
       <2>14, <2>15, <2>16, <2>17, <2>18, <2>19, <2>20, <2>21, <2>22, <2>23
       DEF Next, Entry, Exit
<1> QED
  BY <1>1, <1>2, PTL DEF Spec

-----------------------------------------------------------------------------
(* No position without a stop in silence, no entry on top of another *)

\* The calls between which an unprotected position is in the listener's hands:
\* each of them ends in a stop, a flat symbol or a report.
InHand == {"stop_loss", "rollback", "breakeven_stop", "close", "close_order", "flat_sync"}

Silence == Naked /\ pc \notin InHand => alarm # "none"

\* Once the cleanup is done the symbol stays flat until the entry order.
ClearForEntry == pc \in {"mark_stale", "entry"} => size = 0

\* Every call the listener makes on an unprotected position leads to a stop, to a
\* flat symbol or to a report; nothing else takes a stop away.
LEMMA SilenceStep ==
    TypeOK /\ Silence /\ ClearForEntry /\ [Next]_vars => Silence' /\ ClearForEntry'
<1> SUFFICES ASSUME TypeOK, Silence, ClearForEntry, [Next]_vars
             PROVE  Silence' /\ ClearForEntry'
  OBVIOUS
<1> USE DEF Silence, ClearForEntry, Naked, InHand, At, Goto, Finish, Report, Failed, Abort,
            GoFlat, exchangeVars
<1>1. ASSUME NEW a \in Actions, NEW s \in Strategies, receive(a, s)
      PROVE  Silence' /\ ClearForEntry'
  BY <1>1 DEF receive
<1>2. CASE entry_rejection \/ netting_guard \/ find_stale
  BY <1>2 DEF entry_rejection, netting_guard, find_stale, TypeOK
<1>3. CASE mark_stale \/ insert_position
  BY <1>3 DEF mark_stale, insert_position
<1>4. CASE place_entry_order \/ entry_order_fails
  BY <1>4 DEF place_entry_order, entry_order_fails
<1>5. CASE attach_stop \/ rollback
  BY <1>5 DEF attach_stop, rollback
<1>6. CASE get_db_position \/ live_guard
  BY <1>6 DEF get_db_position, live_guard
<1>7. CASE partial_close
  BY <1>7 DEF partial_close
<1>8. CASE breakeven_cancel \/ breakeven_stop
  BY <1>8 DEF breakeven_cancel, breakeven_stop
<1>9. CASE close_cancel
  BY <1>9 DEF close_cancel, CloseFails
<1>10. CASE close_order
  BY <1>10 DEF close_order, CloseFails, CloseSucceeds, TypeOK
<1>11. CASE flat_sync \/ persist
  BY <1>11 DEF flat_sync, persist
<1>12. CASE PositionsUnavailable \/ Crash
  BY <1>12 DEF PositionsUnavailable, Crash
<1>13. CASE ExchangeCloses \/ ReducedByHand \/ on_exchange_close \/ EventLost
  BY <1>13 DEF ExchangeCloses, ReducedByHand, on_exchange_close, EventLost, TypeOK
<1>14. ASSUME NEW n \in Entries, close_matched(n) PROVE Silence' /\ ClearForEntry'
  BY <1>14 DEF close_matched
<1>15. CASE UNCHANGED vars
  BY <1>15 DEF vars
<1> QED
  BY <1>1, <1>2, <1>3, <1>4, <1>5, <1>6, <1>7, <1>8, <1>9, <1>10, <1>11, <1>12, <1>13,
     <1>14, <1>15 DEF Next, Entry, Exit

\* Both hold in every reachable state.
LEMMA SilenceInvariant == Spec => [](Silence /\ ClearForEntry)
<1>1. Init => Silence /\ ClearForEntry
  BY DEF Init, Silence, ClearForEntry, Naked
<1> QED
  BY <1>1, SilenceStep, TypeCorrect, PTL DEF Spec

\* No position is left without a stop in silence (handle_tp1's failsafe, the entry
\* rollback and close_all_positions), whatever fails and however often.
THEOREM NoSilentLoss == Spec => []NakedIsReported
<1>1. Silence => NakedIsReported
  BY DEF Silence, NakedIsReported, InHand
<1> QED
  BY <1>1, SilenceInvariant, PTL

\* An entry order is sent only while the symbol is flat (_handle_entry).
THEOREM EntriesNeverStack == Spec => NeverStacks
<1>1. ASSUME TypeOK, ClearForEntry, [Next]_vars PROVE [entries' # entries => size = 0]_vars
  <2>1. CASE At("entry")
    BY <2>1, <1>1 DEF ClearForEntry, At
  <2>2. CASE ~At("entry")
    <3>1. ~place_entry_order /\ ~entry_order_fails
      BY <2>2 DEF place_entry_order, entry_order_fails
    <3>2. CASE Next
      <4>1. entries' = entries
        BY <3>1, <3>2 DEF Next, Entry, Exit, entryVars, receive, entry_rejection, netting_guard,
           find_stale, mark_stale, attach_stop, rollback, insert_position, get_db_position,
           live_guard, partial_close, breakeven_cancel, breakeven_stop, flat_sync, persist,
           close_cancel, close_order, PositionsUnavailable, ExchangeCloses, ReducedByHand,
           on_exchange_close, close_matched, EventLost, Crash, Abort
      <4> QED
        BY <4>1
    <3>3. CASE UNCHANGED vars
      BY <3>3
    <3> QED
      BY <1>1, <3>2, <3>3
  <2> QED
    BY <2>1, <2>2
<1> QED
  BY <1>1, SilenceInvariant, TypeCorrect, PTL DEF Spec, NeverStacks

-----------------------------------------------------------------------------
(* Rows and positions *)

Closing == {"close", "close_order"}

\* What the listener's locals say of the signal it is handling.
Locals ==
    /\ tracked # 0 => pc \in {"live", "partial", "breakeven", "breakeven_stop", "close",
                             "close_order", "flat_sync", "persist"}
    /\ pc \in {"live", "partial", "breakeven", "breakeven_stop"} => tracked # 0
    /\ pc \in Closing =>
         /\ after # "NONE"
         /\ after = "STALE_CLEANUP" => tracked = 0
         /\ after \in {"TP2", "SL_FAILSAFE"} => tracked # 0
    /\ pc \in {"breakeven", "breakeven_stop"} \/ (pc \in Closing /\ after = "SL_FAILSAFE")
         => status = "TP1"
    /\ pc = "persist" => /\ status \in {"TP1", "TP2", "FORCED_CLOSED", "FLATTED"}
                         /\ status # "TP1" => size = 0
                         /\ tracked = 0 => status = "FLATTED"

\* A close of FLAT that failed with the position live has cost a broker fault.
Refusals ==
    /\ pc \in Closing /\ after = "FLAT_RETRY" /\ size > 0 => faults >= 1
    /\ pc = "flat_sync" /\ size > 0 => faults >= 2

\* Nothing is known of an entry before its fill, and a flat symbol has no holder.
Future ==
    /\ size = 0 => holder = 0
    /\ \A n \in Entries : n > entries =>
         row[n] = "NONE" /\ n \notin dbStale \cup matched /\ n # tracked

\* What the reads so far guarantee of the symbol's active rows, as long as at
\* most one of them failed.
Known ==
    dbErrors < 2 =>
      /\ pc = "netting" => ActiveRows = {} \/ dbErrors = 1
      /\ pc = "stale" => ActiveRows = {} \/ (dbErrors = 1 /\ ActiveRows \subseteq OwnRows)
      /\ pc = "mark_stale" \/ (pc \in Closing /\ after = "STALE_CLEANUP")
           => ActiveRows \subseteq dbStale
      /\ pc \in {"entry", "stop_loss", "rollback", "insert"} => ActiveRows = {}
      /\ tracked # 0 => ActiveRows \subseteq {tracked}


-----------------------------------------------------------------------------
(* The listener's locals *)

\* The listener's locals agree with its place in the handler, and a refused close
\* of a FLAT was a broker fault.
LEMMA LocalsStep ==
    TypeOK /\ Locals /\ Refusals /\ [Next]_vars => Locals' /\ Refusals'
<1> SUFFICES ASSUME TypeOK, Locals, Refusals, [Next]_vars PROVE Locals' /\ Refusals'
  OBVIOUS
<1> USE TradingBounds
<1> USE DEF TypeOK, Locals, Refusals, Closing, At, Goto, Finish, Failed, Abort, GoFlat,
            exchangeVars, signalVars, boundVars, BrokerFault, DbError
<1>1. ASSUME NEW a \in Actions, NEW s \in Strategies, receive(a, s)
      PROVE  Locals' /\ Refusals'
  BY <1>1 DEF receive
<1>2. CASE entry_rejection \/ netting_guard
  BY <1>2 DEF entry_rejection, netting_guard
<1>3. CASE find_stale
  BY <1>3 DEF find_stale, Read
<1>4. CASE mark_stale \/ insert_position
  BY <1>4 DEF mark_stale, insert_position
<1>5. CASE place_entry_order
  BY <1>5 DEF place_entry_order
<1>6. CASE entry_order_fails \/ attach_stop \/ rollback
  BY <1>6 DEF entry_order_fails, attach_stop, rollback
<1>7. CASE get_db_position
  BY <1>7 DEF get_db_position, Read, Entries
<1>8. CASE live_guard
  BY <1>8 DEF live_guard
<1>9. CASE partial_close
  BY <1>9 DEF partial_close
<1>10. CASE breakeven_cancel \/ breakeven_stop
  BY <1>10 DEF breakeven_cancel, breakeven_stop
<1>11. CASE close_cancel
  BY <1>11 DEF close_cancel, CloseFails
<1>12. CASE close_order
  BY <1>12 DEF close_order, CloseFails, CloseSucceeds, Reasons
<1>13. CASE flat_sync \/ persist
  BY <1>13 DEF flat_sync, persist
<1>14. CASE PositionsUnavailable \/ Crash
  BY <1>14 DEF PositionsUnavailable, Crash
<1>15. CASE ExchangeCloses \/ ReducedByHand \/ EventLost
  BY <1>15 DEF ExchangeCloses, ReducedByHand, EventLost
<1>16. CASE on_exchange_close
  BY <1>16 DEF on_exchange_close, Read
<1>17. ASSUME NEW n \in Entries, close_matched(n) PROVE Locals' /\ Refusals'
  BY <1>17 DEF close_matched
<1>18. CASE UNCHANGED vars
  BY <1>18 DEF vars
<1> QED
  BY <1>1, <1>2, <1>3, <1>4, <1>5, <1>6, <1>7, <1>8, <1>9, <1>10, <1>11, <1>12, <1>13,
     <1>14, <1>15, <1>16, <1>17, <1>18 DEF Next, Entry, Exit

\* update_position_status touches the row the signal was about: the tracked one,
\* or else active rows of its strategy.
LEMMA UpdateTouches ==
    ASSUME NEW new, update_position_status(new), row \in [Entries -> Statuses]
    PROVE  \A n \in Entries : row'[n] = row[n] \/ n = tracked \/ n \in OwnRows
BY DEF update_position_status, Read, Healed

\* No step knows of an entry before its fill.
LEMMA FutureStep == TypeOK /\ Future /\ [Next]_vars => Future'
<1> SUFFICES ASSUME TypeOK, Future, [Next]_vars PROVE Future'
  OBVIOUS
<1> USE TradingBounds
<1> USE DEF TypeOK, Future, At, Goto, Finish, Failed, Abort, GoFlat, exchangeVars, entryVars,
            streamVars, signalVars, Entries
<1>1. ASSUME NEW a \in Actions, NEW s \in Strategies, receive(a, s) PROVE Future'
  BY <1>1 DEF receive
<1>2. CASE entry_rejection \/ netting_guard
  BY <1>2 DEF entry_rejection, netting_guard
<1>3. CASE find_stale
  BY <1>3 DEF find_stale, Read, OwnRows, ActiveRows, ACTIVE
<1>4. CASE mark_stale \/ insert_position
  BY <1>4 DEF mark_stale, insert_position
<1>5. CASE place_entry_order \/ entry_order_fails
  BY <1>5 DEF place_entry_order, entry_order_fails
<1>6. CASE attach_stop \/ rollback
  BY <1>6 DEF attach_stop, rollback
<1>7. CASE get_db_position
  BY <1>7 DEF get_db_position, Read, Healed, OwnRows, ActiveRows, ACTIVE
<1>8. CASE live_guard \/ partial_close
  BY <1>8 DEF live_guard, partial_close
<1>9. CASE breakeven_cancel \/ breakeven_stop
  BY <1>9 DEF breakeven_cancel, breakeven_stop
<1>10. CASE close_cancel
  BY <1>10 DEF close_cancel, CloseFails
<1>11. CASE close_order
  BY <1>11 DEF close_order, CloseFails, CloseSucceeds
<1>12. CASE flat_sync
  <2>1. /\ UNCHANGED <<size, holder, entries, matched>>
        /\ tracked' = 0 /\ dbStale' = {}
        /\ \A n \in Entries : row'[n] = row[n] \/ n = tracked \/ n \in OwnRows
    BY <1>12, UpdateTouches DEF flat_sync
  <2> QED
    BY <2>1 DEF OwnRows, ActiveRows, ACTIVE
<1>13. CASE persist
  <2>1. /\ UNCHANGED <<size, holder, entries, matched>>
        /\ tracked' = 0 /\ dbStale' = {}
        /\ \A n \in Entries : row'[n] = row[n] \/ n = tracked \/ n \in OwnRows
    BY <1>13, UpdateTouches DEF persist
  <2> QED
    BY <2>1 DEF OwnRows, ActiveRows, ACTIVE
<1>14. CASE PositionsUnavailable \/ Crash
  BY <1>14 DEF PositionsUnavailable, Crash
<1>15. CASE ExchangeCloses \/ ReducedByHand \/ EventLost
  BY <1>15 DEF ExchangeCloses, ReducedByHand, EventLost
<1>16. CASE on_exchange_close
  BY <1>16 DEF on_exchange_close, Read, ActiveRows, ACTIVE
<1>17. ASSUME NEW n \in Entries, close_matched(n) PROVE Future'
  BY <1>17 DEF close_matched
<1>18. CASE UNCHANGED vars
  BY <1>18 DEF vars
<1> QED
  BY <1>1, <1>2, <1>3, <1>4, <1>5, <1>6, <1>7, <1>8, <1>9, <1>10, <1>11, <1>12, <1>13,
     <1>14, <1>15, <1>16, <1>17, <1>18 DEF Next, Entry, Exit

-----------------------------------------------------------------------------
(* The active rows of the symbol *)

\* With one failed read at most, the guard, the netting check and the cleanup
\* together leave no active row on the symbol when the entry is inserted.
LEMMA KnownStep ==
    TypeOK /\ Locals /\ Known /\ OneActiveRow /\ [Next]_vars => Known' /\ OneActiveRow'
<1> SUFFICES ASSUME TypeOK, Locals, Known, OneActiveRow, [Next]_vars
             PROVE  Known' /\ OneActiveRow'
  OBVIOUS
<1> USE TradingBounds
<1> USE DEF TypeOK, Known, OneActiveRow, ActiveRows, OwnRows, Closing, At, Goto, Finish, Failed,
            Abort, GoFlat, exchangeVars, entryVars, signalVars, streamVars, boundVars,
            BrokerFault, DbError
<1>1. ASSUME NEW a \in Actions, NEW s \in Strategies, receive(a, s)
      PROVE  Known' /\ OneActiveRow'
  BY <1>1 DEF receive, Locals
<1>2. CASE entry_rejection
  BY <1>2 DEF entry_rejection, Read, Locals
<1>3. CASE netting_guard
  BY <1>3 DEF netting_guard, Read, Locals
<1>4. CASE find_stale
  BY <1>4 DEF find_stale, Read, Locals
<1>5. CASE mark_stale
  BY <1>5 DEF mark_stale, Locals, ACTIVE
<1>6. CASE place_entry_order
  BY <1>6 DEF place_entry_order, Read, Locals
<1>7. CASE entry_order_fails \/ attach_stop \/ rollback
  BY <1>7 DEF entry_order_fails, attach_stop, rollback, Locals
<1>8. CASE insert_position
  BY <1>8 DEF insert_position, Locals
<1>9. CASE get_db_position
  BY <1>9 DEF get_db_position, Read, Healed, Locals, ACTIVE
<1>10. CASE live_guard \/ partial_close
  BY <1>10 DEF live_guard, partial_close, Locals
<1>11. CASE breakeven_cancel \/ breakeven_stop
  BY <1>11 DEF breakeven_cancel, breakeven_stop, Locals
<1>12. CASE close_cancel
  BY <1>12 DEF close_cancel, CloseFails, Locals
<1>13. CASE close_order
  BY <1>13 DEF close_order, CloseFails, CloseSucceeds, Locals
<1>14. CASE flat_sync
  BY <1>14 DEF flat_sync, update_position_status, Read, Healed, ACTIVE, Locals
<1>15. CASE persist
  BY <1>15 DEF persist, update_position_status, Read, Healed, ACTIVE, Locals
<1>16. CASE PositionsUnavailable \/ Crash
  BY <1>16 DEF PositionsUnavailable, Crash
<1>17. CASE ExchangeCloses \/ ReducedByHand \/ EventLost
  BY <1>17 DEF ExchangeCloses, ReducedByHand, EventLost
<1>18. CASE on_exchange_close
  BY <1>18 DEF on_exchange_close, Read
<1>19. ASSUME NEW n \in Entries, close_matched(n) PROVE Known' /\ OneActiveRow'
  BY <1>19 DEF close_matched, ACTIVE
<1>20. CASE UNCHANGED vars
  BY <1>20 DEF vars
<1> QED
  BY <1>1, <1>2, <1>3, <1>4, <1>5, <1>6, <1>7, <1>8, <1>9, <1>10, <1>11, <1>12, <1>13,
     <1>14, <1>15, <1>16, <1>17, <1>18, <1>19, <1>20 DEF Next, Entry, Exit

-----------------------------------------------------------------------------
(* Closed rows have lost their position *)

\* As long as no two rows are active, nothing is healed: update_position_status
\* writes the one status it was called with.
LEMMA UpdateWrites ==
    ASSUME TypeOK, OneActiveRow, NEW new, update_position_status(new)
    PROVE  /\ faults' = faults /\ dbErrors' \in {dbErrors, dbErrors + 1}
           /\ dbErrors < 2 => \A n \in Entries : row'[n] = row[n] \/ row'[n] = new
BY TradingBounds DEF TypeOK, OneActiveRow, update_position_status, Read, DbError, Healed,
   OwnRows, ActiveRows, boundVars

\* A closed status is written only while the symbol is flat, except by a FLAT
\* that was refused twice; an entry's row is not written before its fill.
LEMMA GoneStep ==
    /\ TypeOK /\ ClearForEntry /\ Locals /\ Refusals /\ Future /\ Known /\ OneActiveRow
    /\ ClosedByListenerIsGone /\ [Next]_vars
    => ClosedByListenerIsGone'
<1> SUFFICES ASSUME TypeOK, ClearForEntry, Locals, Refusals, Future, Known, OneActiveRow,
                    ClosedByListenerIsGone, [Next]_vars
             PROVE  ClosedByListenerIsGone'
  OBVIOUS
<1> USE TradingBounds
<1> USE DEF TypeOK, ClosedByListenerIsGone, At, Goto, Finish, Failed, Abort, GoFlat,
            exchangeVars, entryVars, boundVars, BrokerFault, DbError, Entries
<1>1. ASSUME NEW a \in Actions, NEW s \in Strategies, receive(a, s)
      PROVE  ClosedByListenerIsGone'
  BY <1>1 DEF receive
<1>2. CASE entry_rejection \/ netting_guard \/ find_stale
  BY <1>2 DEF entry_rejection, netting_guard, find_stale, Read
<1>3. CASE mark_stale
  BY <1>3 DEF mark_stale, ClearForEntry, Future
<1>4. CASE place_entry_order \/ entry_order_fails
  BY <1>4 DEF place_entry_order, entry_order_fails, Read, Future
<1>5. CASE attach_stop \/ rollback
  BY <1>5 DEF attach_stop, rollback
<1>6. CASE insert_position
  BY <1>6 DEF insert_position
<1>7. CASE get_db_position
  BY <1>7 DEF get_db_position, Read, Healed, OneActiveRow, OwnRows, ActiveRows
<1>8. CASE live_guard \/ partial_close
  BY <1>8 DEF live_guard, partial_close
<1>9. CASE breakeven_cancel \/ breakeven_stop
  BY <1>9 DEF breakeven_cancel, breakeven_stop
<1>10. CASE close_cancel \/ close_order
  BY <1>10 DEF close_cancel, close_order
<1>11. CASE flat_sync
  <2>1. CASE DbError /\ Abort
    BY <2>1
  <2>2. CASE update_position_status("FLATTED") /\ holder' = holder
    <3>1. /\ faults' = faults /\ dbErrors' \in {dbErrors, dbErrors + 1}
          /\ dbErrors < 2 => \A n \in Entries : row'[n] = row[n] \/ row'[n] = "FLATTED"
      BY <2>2, UpdateWrites
    <3>2. holder = 0 \/ faults >= 2
      BY <1>11 DEF flat_sync, Refusals, Future
    <3> QED
      BY <2>2, <3>1, <3>2
  <2> QED
    BY <1>11, <2>1, <2>2 DEF flat_sync
<1>12. CASE persist
  <2>1. CASE DbError /\ Abort
    BY <2>1
  <2>2. CASE update_position_status(status) /\ holder' = holder
    <3>1. /\ faults' = faults /\ dbErrors' \in {dbErrors, dbErrors + 1}
          /\ dbErrors < 2 => \A n \in Entries : row'[n] = row[n] \/ row'[n] = status
      BY <2>2, UpdateWrites
    <3>2. holder = 0 \/ status = "TP1"
      BY <1>12 DEF persist, Locals, Future
    <3> QED
      BY <2>2, <3>1, <3>2
  <2> QED
    BY <1>12, <2>1, <2>2 DEF persist
<1>13. CASE PositionsUnavailable \/ Crash
  BY <1>13 DEF PositionsUnavailable, Crash
<1>14. CASE ExchangeCloses \/ ReducedByHand \/ EventLost \/ on_exchange_close
  <2>1. /\ row' = row /\ holder' \in {holder, 0} /\ faults' = faults
        /\ dbErrors' \in {dbErrors, dbErrors + 1}
    BY <1>14 DEF ExchangeCloses, ReducedByHand, EventLost, on_exchange_close, Read
  <2> QED
    BY <2>1
<1>15. ASSUME NEW n \in Entries, close_matched(n) PROVE ClosedByListenerIsGone'
  BY <1>15 DEF close_matched
<1>16. CASE UNCHANGED vars
  BY <1>16 DEF vars
<1> QED
  BY <1>1, <1>2, <1>3, <1>4, <1>5, <1>6, <1>7, <1>8, <1>9, <1>10, <1>11, <1>12, <1>13,
     <1>14, <1>15, <1>16 DEF Next, Entry, Exit

\* The inductive invariant: the layers above with the two properties themselves.
IInv == Locals /\ Refusals /\ Future /\ Known /\ OneActiveRow /\ ClosedByListenerIsGone

\* It holds in every reachable state.
LEMMA IInvInvariant == Spec => []IInv
<1>1. Init => IInv
  BY DEF Init, IInv, Locals, Refusals, Future, Known, OneActiveRow, ClosedByListenerIsGone,
         Closing, ActiveRows, ACTIVE
<1>2. TypeOK /\ ClearForEntry /\ IInv /\ [Next]_vars => IInv'
  BY LocalsStep, FutureStep, KnownStep, GoneStep DEF IInv
<1> QED
  BY <1>1, <1>2, TypeCorrect, SilenceInvariant, PTL DEF Spec

\* One failing read is not enough for two active rows on one symbol
\* (symbol_open_rejection, other_holders and db_stale in _handle_entry).
THEOREM AtMostOneActive == Spec => []OneActiveRow
<1>1. IInv => OneActiveRow
  BY DEF IInv
<1> QED
  BY <1>1, IInvInvariant, PTL

\* What the listener wrote as closed is gone from the exchange (the cleanup of
\* _handle_entry, handle_tp1's failsafe, _handle_full_close and _handle_flat).
THEOREM ListenerClosesWhatIsGone == Spec => []ClosedByListenerIsGone
<1>1. IInv => ClosedByListenerIsGone
  BY DEF IInv
<1> QED
  BY <1>1, IInvInvariant, PTL

=============================================================================
