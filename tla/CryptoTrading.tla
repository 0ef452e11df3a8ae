---------------------------- MODULE CryptoTrading ----------------------------
(***************************************************************************)
(* How a CRYPTO worker executes signals on one symbol: the listener thread *)
(* (BaseSignalProcessor._process_signal, SignalHandler,                    *)
(* ExecutorBackedMarket, CryptoExecutor), one broker or database call per  *)
(* step, while the exchange closes positions on its own and the user data  *)
(* stream thread (CryptoSignalProcessor._on_exchange_close) writes what it *)
(* hears of into the same table.                                           *)
(*                                                                         *)
(* The exchange nets everything on a symbol into one position (one-way     *)
(* mode); its stop is a closePosition order, gone when the position is.    *)
(* Quantities matter only as far as a partial close leaves something.  An  *)
(* entry is numbered by its fill and that number is the id of its row.     *)
(* LONG stands for SHORT too, TP2 for SL and R_SL; entries carry a stop.   *)
(* A take-profit that cannot be placed is tolerated by the code and tells  *)
(* no property anything, so it is not part of the state.                   *)
(***************************************************************************)
EXTENDS Naturals

CONSTANTS
    Strategies,    \* strategies subscribed by this worker
    Nobody,        \* no strategy: no signal in progress, no fill yet
    MaxEntries,    \* bound: entry orders that fill
    MaxSignals,    \* bound: signals received
    MaxFaults,     \* bound: broker calls refused, unanswered or raising
    MaxDbErrors,   \* bound: reads that fail (and return []) and writes that raise
    MaxByHand,     \* bound: partial closes by hand
    MaxCrashes     \* bound: crashes of the worker process

ASSUME TradingBounds ==
    /\ MaxEntries \in Nat /\ MaxSignals \in Nat /\ MaxFaults \in Nat
    /\ MaxDbErrors \in Nat /\ MaxByHand \in Nat /\ MaxCrashes \in Nat

ASSUME NobodyAssumption == Nobody \notin Strategies

VARIABLES
    size,       \* exchange: net position, 0 flat, 1 part of an entry, 2 all of it
    holder,     \* exchange: the entry the net position comes from (0: flat)
    stop,       \* exchange: whether a protective stop rests on the symbol
    row,        \* the positions table: status of each entry's row
    strategyOf, \* the strategy of each entry
    entries,    \* entries filled so far
    pc,         \* the listener's next call
    action, strategy,   \* the signal in progress
    tracked,    \* row the signal's lookup found (0: none)
    dbStale,    \* active rows _handle_entry read before the cleanup
    after,      \* what close_all_positions was called for
    status,     \* status _persist_success is to write
    alarm,      \* the operator's last word on an unprotected position
    events,     \* close events on their way to the stream thread
    matched,    \* rows the stream thread has read and not updated yet
    signals, faults, dbErrors, byHand, crashes

exchangeVars == <<size, holder, stop>>
entryVars == <<strategyOf, entries>>
signalVars == <<action, strategy>>
streamVars == <<events, matched>>
boundVars == <<signals, faults, dbErrors, byHand, crashes>>
vars == <<exchangeVars, row, entryVars, pc, signalVars, tracked, dbStale, after,
          status, alarm, streamVars, boundVars>>

-----------------------------------------------------------------------------
(* Types *)

Entries == 1..MaxEntries
ACTIVE == {"OPENED", "TP1"}

\* TERMINAL_CLOSED stands for every status of _EXCHANGE_CLOSE_STATUS.
Statuses == ACTIVE \cup {"NONE", "TP2", "FLATTED", "FORCED_CLOSED", "TERMINAL_CLOSED"}
CLOSED == Statuses \ (ACTIVE \cup {"NONE"})

Actions == {"LONG", "TP1", "TP2", "FLAT"}
Stops == {"none", "resting"}
Reasons == {"NONE", "STALE_CLEANUP", "TP2", "FLAT", "FLAT_RETRY", "SL_FAILSAFE"}
Steps == {"idle", "guard", "netting", "stale", "mark_stale", "entry", "stop_loss",
          "rollback", "insert", "lookup", "live", "partial", "breakeven",
          "breakeven_stop", "close", "close_order", "flat_sync", "persist"}

TypeOK ==
    /\ size \in 0..2
    /\ holder \in Entries \cup {0}
    /\ stop \in Stops
    /\ row \in [Entries -> Statuses]
    /\ strategyOf \in [Entries -> Strategies \cup {Nobody}]
    /\ entries \in Entries \cup {0}
    /\ pc \in Steps
    /\ action \in Actions
    /\ strategy \in Strategies \cup {Nobody}
    /\ tracked \in Entries \cup {0}
    /\ dbStale \in SUBSET Entries
    /\ after \in Reasons
    /\ status \in Statuses
    /\ alarm \in {"none", "reported", "crashed"}
    /\ events \in Nat
    /\ matched \in SUBSET Entries
    /\ signals \in 0..MaxSignals
    /\ faults \in 0..MaxFaults
    /\ dbErrors \in 0..MaxDbErrors
    /\ byHand \in 0..MaxByHand
    /\ crashes \in 0..MaxCrashes

Init ==
    /\ size = 0 /\ holder = 0 /\ stop = "none"
    /\ row = [n \in Entries |-> "NONE"]
    /\ strategyOf = [n \in Entries |-> Nobody]
    /\ entries = 0
    /\ pc = "idle"
    /\ action = "LONG" /\ strategy = Nobody
    /\ tracked = 0 /\ dbStale = {} /\ after = "NONE" /\ status = "NONE"
    /\ alarm = "none"
    /\ events = 0 /\ matched = {}
    /\ signals = 0 /\ faults = 0 /\ dbErrors = 0 /\ byHand = 0 /\ crashes = 0

-----------------------------------------------------------------------------
(* Helpers *)

ActiveRows == {n \in Entries : row[n] \in ACTIVE}
OwnRows == {n \in ActiveRows : strategyOf[n] = strategy}

At(step) == pc = step
Goto(step) == pc' = step

\* The signal is finished: its locals are gone, the thread waits for the next.
Finish ==
    /\ pc' = "idle"
    /\ strategy' = Nobody /\ action' = "LONG"
    /\ tracked' = 0 /\ dbStale' = {} /\ after' = "NONE" /\ status' = "NONE"

\* An order_failed or UNPROTECTED notification, or the CRITICAL log of run().
Report == alarm' = "reported"

BrokerFault ==
    /\ faults < MaxFaults
    /\ faults' = faults + 1
    /\ UNCHANGED <<signals, dbErrors, byHand, crashes>>

DbError ==
    /\ dbErrors < MaxDbErrors
    /\ dbErrors' = dbErrors + 1
    /\ UNCHANGED <<signals, faults, byHand, crashes>>

\* A SELECT: what is in the table, or [] with the error only logged.
Read(rows, result) ==
    \/ result = rows /\ UNCHANGED boundVars
    \/ rows # {} /\ result = {} /\ DbError

GoFlat == size' = 0 /\ holder' = 0 /\ stop' = "none"

\* An exception that leaves handle(): run() logs it, nothing is persisted.
Abort ==
    /\ Finish
    /\ Report
    /\ UNCHANGED <<exchangeVars, row, entryVars, streamVars>>

\* get_positions raises.
PositionsUnavailable ==
    /\ pc \in {"stale", "live", "partial", "breakeven", "close"}
    /\ BrokerFault
    /\ Abort

\* handle() returned a failed result: order_failed is notified.
Failed ==
    /\ Finish
    /\ Report

-----------------------------------------------------------------------------
(* A signal arrives *)

\* An alarm raised earlier still stands while the position it was about is
\* unprotected.
receive(a, s) ==
    /\ At("idle")
    /\ signals < MaxSignals
    /\ signals' = signals + 1
    /\ action' = a /\ strategy' = s
    /\ alarm' = IF size > 0 /\ stop = "none" THEN alarm ELSE "none"
    /\ Goto(IF a = "LONG" THEN "guard" ELSE "lookup")
    /\ UNCHANGED <<exchangeVars, row, entryVars, tracked, dbStale, after, status,
                   streamVars, faults, dbErrors, byHand, crashes>>

-----------------------------------------------------------------------------
(* LONG / SHORT *)

\* Mutation: the symbol's active rows do not reject the entry.
entry_rejection_open ==
    /\ At("guard")
    /\ \E held \in SUBSET Entries :
         /\ Read(ActiveRows, held)
         /\ \/ Finish
            \/ Goto("netting") /\ UNCHANGED <<signalVars, tracked, dbStale, after, status>>
    /\ UNCHANGED <<exchangeVars, row, entryVars, alarm, streamVars>>

\* symbol_open_rejection: any active row on the symbol rejects the entry; the
\* cap and the staleness guard may reject it too.  A rejection places no order.
entry_rejection ==
    /\ At("guard")
    /\ \E held \in SUBSET Entries :
         /\ Read(ActiveRows, held)
         /\ \/ Finish
            \/ held = {} /\ Goto("netting")
               /\ UNCHANGED <<signalVars, tracked, dbStale, after, status>>
    /\ UNCHANGED <<exchangeVars, row, entryVars, alarm, streamVars>>

\* other_holders in _handle_entry.
netting_guard ==
    /\ At("netting")
    /\ \E held \in SUBSET Entries :
         /\ Read(ActiveRows, held)
         /\ IF held \subseteq OwnRows
            THEN Goto("stale") /\ UNCHANGED <<signalVars, tracked, dbStale, after,
                                              status, alarm>>
            ELSE Failed
    /\ UNCHANGED <<exchangeVars, row, entryVars, streamVars>>

\* Mutation: only a position with a row of its own is closed first.
find_stale_tracked ==
    /\ At("stale")
    /\ Read(OwnRows, dbStale')
    /\ IF size > 0 /\ dbStale' # {} THEN Goto("close") /\ after' = "STALE_CLEANUP"
                                    ELSE Goto("mark_stale") /\ UNCHANGED after
    /\ UNCHANGED <<exchangeVars, row, entryVars, signalVars, tracked, status, alarm,
                   streamVars>>

\* get_open_positions_by_strategy, then get_open_positions: a live position on
\* the symbol, tracked or not, is closed first.
find_stale ==
    /\ At("stale")
    /\ Read(OwnRows, dbStale')
    /\ IF size > 0 THEN Goto("close") /\ after' = "STALE_CLEANUP"
                   ELSE Goto("mark_stale") /\ UNCHANGED after
    /\ UNCHANGED <<exchangeVars, row, entryVars, signalVars, tracked, status, alarm,
                   streamVars>>

\* The rows read above become FORCED_CLOSED whatever happened to them since.
mark_stale ==
    /\ At("mark_stale")
    /\ \/ /\ row' = [n \in Entries |-> IF n \in dbStale THEN "FORCED_CLOSED" ELSE row[n]]
          /\ Goto("entry")
          /\ UNCHANGED <<exchangeVars, entryVars, signalVars, tracked, dbStale, after,
                         status, alarm, streamVars, boundVars>>
       \/ dbStale # {} /\ DbError /\ Abort

\* _netting_conflict, then the market order.  An order that was filled although
\* its answer was lost counts as failed: nothing is persisted.
place_entry_order ==
    /\ At("entry")
    /\ UNCHANGED <<row, streamVars>>
    /\ \E held \in SUBSET Entries :
         \/ /\ Read(ActiveRows, held)
            /\ ~(held \subseteq OwnRows)
            /\ Failed
            /\ UNCHANGED <<exchangeVars, entryVars>>
         \/ /\ Read(ActiveRows, held)
            /\ held \subseteq OwnRows
            /\ entries < MaxEntries
            /\ entries' = entries + 1
            /\ strategyOf' = [strategyOf EXCEPT ![entries + 1] = strategy]
            /\ size' = 2 /\ holder' = entries + 1 /\ stop' = "none"
            /\ alarm' = "none"
            /\ Goto("stop_loss")
            /\ UNCHANGED <<signalVars, tracked, dbStale, after, status>>

entry_order_fails ==
    /\ At("entry")
    /\ ActiveRows \subseteq OwnRows
    /\ BrokerFault
    /\ Failed
    /\ \/ UNCHANGED <<exchangeVars, entryVars>>
       \/ /\ entries < MaxEntries
          /\ entries' = entries + 1
          /\ strategyOf' = [strategyOf EXCEPT ![entries + 1] = strategy]
          /\ size' = 2 /\ holder' = entries + 1 /\ stop' = "none"
    /\ UNCHANGED <<row, streamVars>>

\* set_stop_loss in _attach_entry_orders; without a position the exchange
\* refuses it.
attach_stop ==
    /\ At("stop_loss")
    /\ \/ size > 0 /\ stop' = "resting" /\ Goto("insert") /\ UNCHANGED boundVars
       \/ size = 0 /\ Goto("rollback") /\ UNCHANGED <<stop, boundVars>>
       \/ size > 0 /\ stop' \in Stops /\ Goto("rollback") /\ BrokerFault
    /\ UNCHANGED <<size, holder, row, entryVars, signalVars, tracked, dbStale, after,
                   status, alarm, streamVars>>

\* _rollback_unprotected_entry: the result is a failed one either way.
rollback ==
    /\ At("rollback")
    /\ \/ GoFlat /\ UNCHANGED boundVars
       \/ BrokerFault /\ (UNCHANGED exchangeVars \/ GoFlat)
    /\ Failed
    /\ UNCHANGED <<row, entryVars, streamVars>>

\* insert_position by _persist_success; a failure is raised.
insert_position ==
    /\ At("insert")
    /\ \/ /\ row' = [row EXCEPT ![entries] = "OPENED"]
          /\ Finish
          /\ UNCHANGED <<exchangeVars, entryVars, alarm, streamVars, boundVars>>
       \/ DbError /\ Abort

-----------------------------------------------------------------------------
(* Exits *)

\* _get_db_position keeps one of the strategy's active rows and heals the others.
Healed(rows, n) ==
    [m \in Entries |-> IF m \in rows \ {n} THEN "FORCED_CLOSED" ELSE row[m]]

\* TP1 and TP2 need a tracked row, FLAT goes on without.
get_db_position ==
    /\ At("lookup")
    /\ \E rows \in SUBSET Entries :
         /\ Read(OwnRows, rows)
         /\ \/ /\ rows = {}
               /\ IF action = "FLAT"
                  THEN /\ Goto("close") /\ after' = "FLAT"
                       /\ UNCHANGED <<signalVars, tracked, dbStale, status, alarm>>
                  ELSE Failed
               /\ UNCHANGED row
            \/ \E n \in rows :
                 /\ tracked' = n
                 /\ row' = Healed(rows, n)
                 /\ IF action = "FLAT" THEN Goto("close") /\ after' = "FLAT"
                                       ELSE Goto("live") /\ UNCHANGED after
                 /\ UNCHANGED <<signalVars, dbStale, status, alarm>>
    /\ UNCHANGED <<exchangeVars, entryVars, streamVars>>

\* The live guard of _execute_exit.
live_guard ==
    /\ At("live")
    /\ IF size = 0
       THEN Failed
       ELSE /\ IF action = "TP1" THEN Goto("partial") /\ UNCHANGED after
                                 ELSE Goto("close") /\ after' = "TP2"
            /\ UNCHANGED <<signalVars, tracked, dbStale, status, alarm>>
    /\ UNCHANGED <<exchangeVars, row, entryVars, streamVars, boundVars>>

\* partial_close_position: part of the position, or all that is left of it.
\* Refused if the position is gone; unanswered: treated as failed.
partial_close ==
    /\ At("partial")
    /\ \/ /\ size > 0
          /\ \/ size' = 1 /\ UNCHANGED <<holder, stop>>
             \/ GoFlat
          /\ status' = "TP1"
          /\ \E move_sl_to_be \in BOOLEAN :
               Goto(IF move_sl_to_be THEN "breakeven" ELSE "persist")
          /\ UNCHANGED <<signalVars, tracked, dbStale, after, alarm, boundVars>>
       \/ /\ size = 0
          /\ Failed
          /\ UNCHANGED <<exchangeVars, boundVars>>
       \/ /\ size > 0
          /\ BrokerFault
          /\ Failed
          /\ \/ UNCHANGED exchangeVars
             \/ size' = 1 /\ UNCHANGED <<holder, stop>>
             \/ GoFlat
    /\ UNCHANGED <<row, entryVars, streamVars>>

\* update_position_sl, up to cancel_all_orders, whose failure is only logged.
breakeven_cancel ==
    /\ At("breakeven")
    /\ \/ /\ size = 0
          /\ Goto("close") /\ after' = "SL_FAILSAFE"
          /\ UNCHANGED <<stop, boundVars>>
       \/ /\ size > 0
          /\ Goto("breakeven_stop")
          /\ \/ stop' = "none" /\ UNCHANGED boundVars
             \/ UNCHANGED stop /\ BrokerFault
          /\ UNCHANGED after
    /\ UNCHANGED <<size, holder, row, entryVars, signalVars, tracked, dbStale, status,
                   alarm, streamVars>>

\* Mutation: a refused breakeven stop is only logged.
breakeven_stop_logged ==
    /\ At("breakeven_stop")
    /\ Goto("persist")
    /\ \/ size > 0 /\ stop' = "resting" /\ UNCHANGED boundVars
       \/ size = 0 /\ UNCHANGED <<stop, boundVars>>
       \/ size > 0 /\ stop' \in {stop, "resting"} /\ BrokerFault
    /\ UNCHANGED <<size, holder, row, entryVars, signalVars, tracked, dbStale, after,
                   status, alarm, streamVars>>

\* The breakeven stop; without it the rest of the position is closed at once.
breakeven_stop ==
    /\ At("breakeven_stop")
    /\ \/ size > 0 /\ stop' = "resting" /\ Goto("persist") /\ UNCHANGED <<after, boundVars>>
       \/ /\ Goto("close") /\ after' = "SL_FAILSAFE"
          /\ \/ size = 0 /\ UNCHANGED <<stop, boundVars>>
             \/ size > 0 /\ stop' \in {stop, "resting"} /\ BrokerFault
    /\ UNCHANGED <<size, holder, row, entryVars, signalVars, tracked, dbStale, status,
                   alarm, streamVars>>

-----------------------------------------------------------------------------
(* close_all_positions *)

\* What the caller does with the result.
CloseSucceeds ==
    /\ CASE after = "STALE_CLEANUP" -> Goto("mark_stale") /\ UNCHANGED status
         [] after = "TP2"           -> Goto("persist") /\ status' = "TP2"
         [] after = "SL_FAILSAFE"   -> Goto("persist") /\ status' = "FORCED_CLOSED"
         [] OTHER                   -> Goto("persist") /\ status' = "FLATTED"
    /\ UNCHANGED <<signalVars, tracked, dbStale, after, alarm>>

\* Mutation: the entry goes on after a failed cleanup.
CloseFailsIgnored ==
    \/ /\ after = "STALE_CLEANUP"
       /\ Goto("mark_stale")
       /\ UNCHANGED <<signalVars, tracked, dbStale, after, status, alarm>>
    \/ /\ after = "TP2"
       /\ Failed
    \/ /\ after = "FLAT"
       /\ Goto("close") /\ after' = "FLAT_RETRY"
       /\ UNCHANGED <<signalVars, tracked, dbStale, status, alarm>>
    \/ /\ after = "FLAT_RETRY"
       /\ Goto("flat_sync")
       /\ UNCHANGED <<signalVars, tracked, dbStale, after, status, alarm>>
    \/ /\ after = "SL_FAILSAFE"
       /\ Goto("persist") /\ Report
       /\ UNCHANGED <<signalVars, tracked, dbStale, after, status>>

CloseFails ==
    \/ /\ after \in {"STALE_CLEANUP", "TP2"}
       /\ Failed
    \/ /\ after = "FLAT"
       /\ Goto("close") /\ after' = "FLAT_RETRY"
       /\ UNCHANGED <<signalVars, tracked, dbStale, status, alarm>>
    \/ /\ after = "FLAT_RETRY"
       /\ Goto("flat_sync")
       /\ UNCHANGED <<signalVars, tracked, dbStale, after, status, alarm>>
    \/ /\ after = "SL_FAILSAFE"
       /\ Goto("persist") /\ Report
       /\ UNCHANGED <<signalVars, tracked, dbStale, after, status>>

\* The positions of the symbol, whoever holds them, then cancel_all_orders.
close_cancel ==
    /\ At("close")
    /\ \/ size = 0 /\ CloseFails /\ UNCHANGED <<exchangeVars, boundVars>>
       \/ /\ size > 0
          /\ Goto("close_order")
          /\ \/ stop' = "none" /\ UNCHANGED boundVars
             \/ UNCHANGED stop /\ BrokerFault
          /\ UNCHANGED <<size, holder, signalVars, tracked, dbStale, after, status, alarm>>
    /\ UNCHANGED <<row, entryVars, streamVars>>

\* The reduce-only market order: refused if the position is gone by now.
close_order ==
    /\ At("close_order")
    /\ \/ size > 0 /\ GoFlat /\ CloseSucceeds /\ UNCHANGED boundVars
       \/ size = 0 /\ UNCHANGED <<exchangeVars, boundVars>> /\ CloseFails
       \/ size > 0 /\ BrokerFault /\ (UNCHANGED exchangeVars \/ GoFlat) /\ CloseFails
    /\ UNCHANGED <<row, entryVars, streamVars>>

-----------------------------------------------------------------------------
(* What is written at the end of an exit *)

\* update_position_status WHERE ref_source_id = ?, whatever the row's status is
\* by now.  A FLAT whose first lookup found no row looks again.
update_position_status(new) ==
    \/ /\ tracked # 0
       /\ row' = [row EXCEPT ![tracked] = new]
       /\ UNCHANGED boundVars
    \/ /\ tracked = 0
       /\ \E rows \in SUBSET Entries :
            /\ Read(OwnRows, rows)
            /\ \/ rows = {} /\ UNCHANGED row
               \/ \E n \in rows : row' = [Healed(rows, n) EXCEPT ![n] = new]

\* Both closes of a FLAT failed: "No MT5 positions but DB has open record".
flat_sync ==
    /\ At("flat_sync")
    /\ \/ /\ update_position_status("FLATTED")
          /\ Failed
          /\ UNCHANGED <<exchangeVars, entryVars, streamVars>>
       \/ DbError /\ Abort

\* _persist_success after an exit; a failed UPDATE is raised.
persist ==
    /\ At("persist")
    /\ \/ /\ update_position_status(status)
          /\ Finish
          /\ UNCHANGED <<exchangeVars, entryVars, alarm, streamVars>>
       \/ DbError /\ Abort

-----------------------------------------------------------------------------
(* The exchange and the user data stream *)

\* A stop or target trips, a liquidation, or a close by hand.
ExchangeCloses ==
    /\ size > 0
    /\ GoFlat
    /\ events' = events + 1
    /\ UNCHANGED <<row, entryVars, pc, signalVars, tracked, dbStale, after, status,
                   alarm, matched, boundVars>>

\* Part of the position is closed by hand: a filled reduce-only market order
\* that is not the worker's own.
ReducedByHand ==
    /\ size = 2
    /\ byHand < MaxByHand
    /\ byHand' = byHand + 1
    /\ size' = 1
    /\ events' = events + 1
    /\ UNCHANGED <<holder, stop, row, entryVars, pc, signalVars, tracked, dbStale,
                   after, status, alarm, matched, signals, faults, dbErrors, crashes>>

\* _on_exchange_close reads the open rows on the event's symbol ...
on_exchange_close ==
    /\ events > 0 /\ matched = {}
    /\ events' = events - 1
    /\ Read(ActiveRows, matched')
    /\ UNCHANGED <<exchangeVars, row, entryVars, pc, signalVars, tracked, dbStale,
                   after, status, alarm>>

\* ... and updates them one by one; an exception ends the loop.
close_matched(n) ==
    /\ n \in matched
    /\ \/ /\ row' = [row EXCEPT ![n] = "TERMINAL_CLOSED"]
          /\ matched' = matched \ {n}
          /\ UNCHANGED boundVars
       \/ matched' = {} /\ DbError /\ UNCHANGED row
    /\ UNCHANGED <<exchangeVars, entryVars, pc, signalVars, tracked, dbStale, after,
                   status, alarm, events>>

\* A reconnect gap: the stream never delivers the event.
EventLost ==
    /\ events > 0
    /\ events' = events - 1
    /\ UNCHANGED <<exchangeVars, row, entryVars, pc, signalVars, tracked, dbStale,
                   after, status, alarm, matched, boundVars>>

Crash ==
    /\ crashes < MaxCrashes
    /\ crashes' = crashes + 1
    /\ Finish
    /\ alarm' = "crashed"
    /\ events' = 0 /\ matched' = {}
    /\ UNCHANGED <<exchangeVars, row, entryVars, signals, faults, dbErrors, byHand>>

-----------------------------------------------------------------------------
Entry ==
    \/ entry_rejection
    \/ netting_guard
    \/ find_stale
    \/ mark_stale
    \/ place_entry_order
    \/ entry_order_fails
    \/ attach_stop
    \/ rollback
    \/ insert_position

Exit ==
    \/ get_db_position
    \/ live_guard
    \/ partial_close
    \/ breakeven_cancel
    \/ breakeven_stop
    \/ flat_sync
    \/ persist

Next ==
    \/ \E a \in Actions, s \in Strategies : receive(a, s)
    \/ Entry
    \/ Exit
    \/ close_cancel
    \/ close_order
    \/ PositionsUnavailable
    \/ ExchangeCloses
    \/ ReducedByHand
    \/ on_exchange_close
    \/ \E n \in Entries : close_matched(n)
    \/ EventLost
    \/ Crash

Spec == Init /\ [][Next]_vars

-----------------------------------------------------------------------------
(* Properties *)

Naked == size > 0 /\ stop = "none"

\* No position is left without a stop in silence: when the listener is done with
\* a signal and the position has no stop, the operator was told after it lost
\* it, or the process crashed between the calls.  No single failure and no
\* close by the exchange in between slips through handle_tp1's failsafe, the
\* entry rollback and close_all_positions.
NakedIsReported == pc = "idle" /\ Naked => alarm # "none"

\* A row the listener closed has lost its position: the cleanup before an entry,
\* the failsafe and the full close write only what the exchange has confirmed,
\* whatever calls failed before; FLAT, which writes FLATTED after two failed
\* closes, as long as one broker call failed at most.  (With two failed reads
\* the healing of _get_db_position may give up the row that is live.)
ClosedByListenerIsGone ==
    dbErrors < 2 =>
        \A n \in Entries :
            (row[n] \in {"TP2", "FORCED_CLOSED"} \/ (row[n] = "FLATTED" /\ faults < 2))
            => holder # n

\* One failing read is not enough to have two active rows on the symbol: the
\* guard, the netting check and the cleanup each read the table for themselves.
OneActiveRow == dbErrors < 2 => \A m, n \in ActiveRows : m = n

\* An entry never adds to a live position: what is on the symbol, tracked or
\* left over by a failed call, is closed before the order is sent.
NeverStacks == [][entries' # entries => size = 0]_vars

\* "a live position must never run without a protective stop"
\* (market_strategy.py): once a signal is done the position of an active row has
\* one.
ProtectedWhenIdle ==
    pc = "idle" /\ Naked => crashes > 0 \/ row[holder] \notin ACTIVE

=============================================================================
