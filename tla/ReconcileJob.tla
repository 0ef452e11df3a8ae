---------------------------- MODULE ReconcileJob ----------------------------
(***************************************************************************)
(* The broker <-> database reconciler                                      *)
(* (worker/gateways/reconcile_job.py) between the threads that change what *)
(* it compares: the broker that closes positions on its own, the listener  *)
(* that opens and closes them, the event channel that reports closes late  *)
(* or never, and the operator who opens positions by hand.                 *)
(*                                                                         *)
(* How a live position and a database row correlate is the one variation   *)
(* point of the job: LiveKeys, DbKeys and LiveId are parameters and        *)
(* MCCryptoReconcile and MCForexReconcile give them the two markets'       *)
(* definitions.  A scan is not atomic: the live positions are fetched      *)
(* first, the rows are read later, and each handler call is a step.        *)
(*                                                                         *)
(* Time appears only as the assumption the job rests on: an entry that was *)
(* filled before the rows of one scan are read is listed by the broker,    *)
(* and its insert is over, when the next scan fetches (45 s and 60 s       *)
(* later).                                                                 *)
(***************************************************************************)
EXTENDS Naturals, FiniteSets

CONSTANTS
    Pos,               \* positions that may come to exist at the broker
    WorkerPos,         \* the ones opened by a signal; the others by hand
    Strategies,        \* strategies of this worker
    SymbolOf(_),       \* resolved symbol of a position
    StrategyOf(_),     \* strategy it belongs to
    SlotOf(_),         \* entries on the same slot replace each other
    LiveKeys(_, _),    \* _live_keys(position, re-ticketed?)
    DbKeys(_, _),      \* _db_keys(row's position, strategy mapped?)
    LiveId(_),         \* _live_id(position)
    EventsByTicket,    \* MT5 reports a close by ticket, a CEX by symbol
    HasManualHandler,  \* a manual_handler was supplied
    MaxFaults,         \* bound: failed fetches, reads, key lookups, writes
    MaxRemaps,         \* bound: changes of the strategy -> magic map
    MaxOffline,        \* bound: fetches that miss an offline terminal
    MaxCrashes         \* bound: crashes of the worker process

ASSUME ReconcileBounds ==
    /\ MaxFaults \in Nat /\ MaxRemaps \in Nat
    /\ MaxOffline \in Nat /\ MaxCrashes \in Nat

ASSUME PositionsAssumption ==
    /\ WorkerPos \subseteq Pos
    /\ HasManualHandler \in BOOLEAN /\ EventsByTicket \in BOOLEAN
    /\ \A p \in Pos : StrategyOf(p) \in Strategies

\* A live position can be found by a key of its own row, whatever ticket it has
\* now and whether or not its strategy is mapped.
ASSUME KeysCorrelate ==
    \A p \in Pos : \A re, mapped \in BOOLEAN : LiveKeys(p, re) \cap DbKeys(p, mapped) # {}

VARIABLES
    pos,          \* broker: each position's life
    reticketed,   \* broker: positions that carry a new ticket
    row,          \* the positions table
    persisting,   \* entries filled whose insert_position is still to come
    reports,      \* closes the worker has yet to hear of: event or own exit
    mapped,       \* strategies in strategy_magic_map
    aged,         \* positions filled before the last scan read the rows
    phase,        \* where the scan is
    live,         \* the scan's fetched positions, with their keys
    toClose,      \* rows confirmed stale, handler not called yet
    toImport,     \* positions confirmed untracked, handler not called yet
    suspected, suspectedManual,   \* _suspected, _suspected_manual
    unowned,      \* history: positions a scan missed, their magic not owned
    unseen,       \* history: positions a scan missed, the terminal offline
    faults, remaps, offline, crashes

brokerVars == <<pos, reticketed>>
flowVars == <<persisting, reports, mapped>>
scanVars == <<aged, phase, live, toClose, toImport, suspected, suspectedManual,
              unowned, unseen>>
boundVars == <<faults, remaps, offline, crashes>>
vars == <<brokerVars, row, flowVars, scanVars, boundVars>>

-----------------------------------------------------------------------------
(* Types *)

\* A row the worker inserted for an entry, or one that imported the position.
RowIds == Pos \X {"own", "import"}

ACTIVE == {"OPENED", "TP1"}
Statuses == ACTIVE \cup {"NONE", "SL", "FORCED_CLOSED", "TERMINAL_CLOSED"}

Lives == {"none", "filled", "listed", "gone"}
isLive(p) == pos[p] \in {"filled", "listed"}

\* A report of a close: from the exchange or terminal, or by the listener that
\* sent the closing order itself.
Reports == Pos \X {"event", "exit"}

\* A position of the fetched list, and whether it has a new ticket there.
Fetched == Pos \X BOOLEAN

TypeOK ==
    /\ pos \in [Pos -> Lives]
    /\ reticketed \in SUBSET Pos
    /\ row \in [RowIds -> Statuses]
    /\ persisting \in SUBSET WorkerPos
    /\ reports \in SUBSET Reports
    /\ mapped \in SUBSET Strategies
    /\ aged \in SUBSET Pos
    /\ phase \in {"idle", "fetched", "handling"}
    /\ live \in SUBSET Fetched
    /\ toClose \in SUBSET RowIds
    /\ toImport \in SUBSET Pos
    /\ suspected \in SUBSET RowIds
    /\ suspectedManual \in SUBSET {LiveId(p) : p \in Pos}
    /\ unowned \in SUBSET Pos
    /\ unseen \in SUBSET Pos
    /\ faults \in 0..MaxFaults
    /\ remaps \in 0..MaxRemaps
    /\ offline \in 0..MaxOffline
    /\ crashes \in 0..MaxCrashes

Init ==
    /\ pos = [p \in Pos |-> "none"]
    /\ reticketed = {}
    /\ row = [r \in RowIds |-> "NONE"]
    /\ persisting = {}
    /\ reports = {}
    /\ mapped = Strategies
    /\ aged = {}
    /\ phase = "idle"
    /\ live = {}
    /\ toClose = {} /\ toImport = {}
    /\ suspected = {} /\ suspectedManual = {}
    /\ unowned = {} /\ unseen = {}
    /\ faults = 0 /\ remaps = 0 /\ offline = 0 /\ crashes = 0

Fault ==
    /\ faults < MaxFaults
    /\ faults' = faults + 1
    /\ UNCHANGED <<remaps, offline, crashes>>

-----------------------------------------------------------------------------
(* The broker and the other threads, as far as the scan can tell *)

SlotFree(p) == \A q \in Pos : isLive(q) => SlotOf(q) # SlotOf(p)

\* One thread handles the signals: the next one waits until the row of the last
\* one is written.
ListenerFree == persisting = {} /\ \A p \in Pos : <<p, "exit">> \notin reports

\* An entry order fills.  _handle_entry has flattened the slot, and has marked
\* its open rows FORCED_CLOSED before it sends the order.
open_position(p) ==
    /\ p \in WorkerPos /\ ListenerFree
    /\ StrategyOf(p) \in mapped
    /\ pos[p] = "none" /\ SlotFree(p)
    /\ pos' = [pos EXCEPT ![p] = "filled"]
    /\ persisting' = persisting \cup {p}
    /\ row' = [r \in RowIds |-> IF row[r] \in ACTIVE /\ SlotOf(r[1]) = SlotOf(p)
                                   /\ StrategyOf(r[1]) = StrategyOf(p) /\ r[2] = "own"
                                THEN "FORCED_CLOSED" ELSE row[r]]
    /\ UNCHANGED <<reticketed, reports, mapped, scanVars, boundVars>>

\* A position opened in the exchange UI.
open_by_hand(p) ==
    /\ p \notin WorkerPos
    /\ pos[p] = "none" /\ SlotFree(p)
    /\ pos' = [pos EXCEPT ![p] = "filled"]
    /\ UNCHANGED <<reticketed, row, flowVars, scanVars, boundVars>>

\* The position appears in the broker's position list.
AppearsInList(p) ==
    /\ pos[p] = "filled"
    /\ pos' = [pos EXCEPT ![p] = "listed"]
    /\ UNCHANGED <<reticketed, row, flowVars, scanVars, boundVars>>

\* insert_position by the listener; or it raises, and the position stays live
\* and untracked.
insert_position(p) ==
    /\ p \in persisting
    /\ persisting' = persisting \ {p}
    /\ row' = [row EXCEPT ![<<p, "own">>] = "OPENED"]
    /\ UNCHANGED <<brokerVars, reports, mapped, scanVars, boundVars>>

insert_position_failed(p) ==
    /\ p \in persisting
    /\ persisting' = persisting \ {p}
    /\ Fault
    /\ UNCHANGED <<brokerVars, row, reports, mapped, scanVars>>

\* A TP1 partial close; some brokers give what is left a new ticket.
handle_tp1(p) ==
    /\ ListenerFree
    /\ pos[p] = "listed"
    /\ row[<<p, "own">>] = "OPENED"
    /\ row' = [row EXCEPT ![<<p, "own">>] = "TP1"]
    /\ reticketed' \in {reticketed, reticketed \cup {p}}
    /\ UNCHANGED <<pos, flowVars, scanVars, boundVars>>

\* The position is closed: by its stop, a liquidation or by hand (the event
\* channel is to report it), or by an exit signal (the listener is to update
\* its row).
close_position(p, by) ==
    /\ pos[p] = "listed"
    /\ by = "exit" => ListenerFree /\ row[<<p, "own">>] \in ACTIVE
    /\ pos' = [pos EXCEPT ![p] = "gone"]
    /\ reports' = reports \cup {<<p, by>>}
    /\ UNCHANGED <<reticketed, row, persisting, mapped, scanVars, boundVars>>

\* The rows a report marks closed.  The listener and MT5EventJob hold the
\* ticket and update its row whatever its status; _on_exchange_close takes
\* every open row on the event's symbol.
ReportedRows(p, by) ==
    IF by = "exit" \/ EventsByTicket
    THEN {r \in RowIds : r = <<p, "own">> /\ row[r] # "NONE"}
    ELSE {r \in RowIds : row[r] \in ACTIVE /\ SymbolOf(r[1]) = SymbolOf(p)}

CloseReported(p, by) ==
    /\ <<p, by>> \in reports
    /\ reports' = reports \ {<<p, by>>}
    /\ row' = [r \in RowIds |-> IF r \in ReportedRows(p, by) THEN "SL" ELSE row[r]]
    /\ UNCHANGED <<brokerVars, persisting, mapped, scanVars, boundVars>>

\* Reconnect gap, handler exception, a close the event job skips as our own, or
\* an exit whose UPDATE raised.
CloseNotReported(p, by) ==
    /\ <<p, by>> \in reports
    /\ reports' = reports \ {<<p, by>>}
    /\ UNCHANGED <<brokerVars, row, persisting, mapped, scanVars, boundVars>>

\* A WORKER_CONNECTED_ACK replaces the map; an absent one on the first connect
\* leaves it empty.
set_strategy_magic_map(m) ==
    /\ remaps < MaxRemaps
    /\ remaps' = remaps + 1
    /\ m # mapped
    /\ mapped' = m
    /\ UNCHANGED <<brokerVars, row, persisting, reports, scanVars, faults,
                   offline, crashes>>

-----------------------------------------------------------------------------
(* One scan *)

\* The timing the two-scan confirmation rests on.
EntriesSettled == \A p \in aged : pos[p] # "filled" /\ p \notin persisting

\* get_all_open_positions: what the broker lists, of the magics the worker owns.
owned(p) == StrategyOf(p) \in mapped
Listed == {p \in Pos : pos[p] = "listed"}

fetch_live_positions ==
    /\ phase = "idle"
    /\ EntriesSettled
    /\ phase' = "fetched"
    /\ live' = {l \in Fetched : /\ l[1] \in Listed /\ owned(l[1])
                                /\ l[2] <=> l[1] \in reticketed}
    /\ unowned' = unowned \cup {p \in Listed : ~owned(p)}
    /\ UNCHANGED <<brokerVars, row, flowVars, aged, toClose, toImport, suspected,
                   suspectedManual, unseen, boundVars>>

\* positions_get answers None (the terminal is offline, or the call failed) and
\* get_positions makes an empty list of it, while both is_connected checks, one
\* before and one after it, find the terminal connected.
fetch_while_offline ==
    /\ phase = "idle"
    /\ EntriesSettled
    /\ offline < MaxOffline
    /\ offline' = offline + 1
    /\ phase' = "fetched"
    /\ live' = {}
    /\ unseen' = unseen \cup Listed
    /\ UNCHANGED <<brokerVars, row, flowVars, aged, toClose, toImport, suspected,
                   suspectedManual, unowned, faults, remaps, crashes>>

dbKeys(r) == DbKeys(r[1], StrategyOf(r[1]) \in mapped)
keysOf(l) == LiveKeys(l[1], l[2])

\* _is_row_stale for a row whose keys resolve.
is_row_stale(r) == \A l \in live : dbKeys(r) \cap keysOf(l) = {}

\* Mutation: one scan is enough.
ConfirmedAtOnce(stale) == stale

\* Confirm only what was suspected on the previous scan too.
Confirmed(stale) == stale \cap suspected

\* get_open_positions_for_flat and the comparison in both directions, for the
\* rows it returned and the rows whose keys cannot be resolved.
Compare(rows, unresolved) ==
    LET stale == {r \in rows \ unresolved : is_row_stale(r)}
        untracked == {l \in live : \A r \in rows : dbKeys(r) \cap keysOf(l) = {}}
        imports == HasManualHandler /\ unresolved = {}
    IN /\ toClose' = Confirmed(stale)
       /\ suspected' = stale
       /\ toImport' = IF imports
                      THEN {l[1] : l \in {u \in untracked : LiveId(u[1]) \in suspectedManual}}
                      ELSE {}
       /\ suspectedManual' = IF imports THEN {LiveId(l[1]) : l \in untracked}
                             ELSE suspectedManual

OpenRows == {r \in RowIds : row[r] \in ACTIVE}

RowsRead ==
    /\ phase = "fetched"
    /\ phase' = "handling"
    /\ aged' = {p \in Pos : pos[p] # "none"}
    /\ live' = {}
    /\ UNCHANGED <<brokerVars, row, flowVars, unowned, unseen>>

get_open_positions_for_flat ==
    /\ RowsRead
    /\ Compare(OpenRows, {})
    /\ UNCHANGED boundVars

\* The SELECT raises: get_open_positions_for_flat logs it and returns [].
get_open_positions_failed ==
    /\ RowsRead
    /\ OpenRows # {}
    /\ Compare({}, {})
    /\ Fault

\* _db_keys raises for some rows: they count as live, nothing is imported.
db_keys_failed(unresolved) ==
    /\ RowsRead
    /\ unresolved # {} /\ unresolved \subseteq OpenRows
    /\ Compare(OpenRows, unresolved)
    /\ Fault

\* Mutation: only rows that are still OPENED are closed.
on_missed_close_opened(r) ==
    /\ r \in toClose
    /\ toClose' = toClose \ {r}
    /\ row' = IF row[r] = "OPENED" THEN [row EXCEPT ![r] = "TERMINAL_CLOSED"] ELSE row
    /\ UNCHANGED <<brokerVars, flowVars, aged, phase, live, toImport, suspected,
                   suspectedManual, unowned, unseen, boundVars>>

\* _on_missed_close: UPDATE ... WHERE ref_source_id = ?, whatever the row's
\* status is by now.
on_missed_close(r) ==
    /\ r \in toClose
    /\ toClose' = toClose \ {r}
    /\ row' = [row EXCEPT ![r] = "TERMINAL_CLOSED"]
    /\ UNCHANGED <<brokerVars, flowVars, aged, phase, live, toImport, suspected,
                   suspectedManual, unowned, unseen, boundVars>>

on_missed_close_failed(r) ==
    /\ r \in toClose
    /\ toClose' = toClose \ {r}
    /\ Fault
    /\ UNCHANGED <<brokerVars, row, flowVars, aged, phase, live, toImport, suspected,
                   suspectedManual, unowned, unseen>>

\* The one-active index: strategy MANUAL, the symbol, no uxid.
ImportAllowed(p) ==
    \A q \in Pos : SymbolOf(q) = SymbolOf(p) => row[<<q, "import">>] \notin ACTIVE

\* _on_manual_position: INSERT, refused by the index or done.
on_manual_position(p) ==
    /\ toClose = {} /\ p \in toImport
    /\ toImport' = toImport \ {p}
    /\ row' = IF ImportAllowed(p) THEN [row EXCEPT ![<<p, "import">>] = "OPENED"] ELSE row
    /\ UNCHANGED <<brokerVars, flowVars, aged, phase, live, toClose, suspected,
                   suspectedManual, unowned, unseen, boundVars>>

on_manual_position_failed(p) ==
    /\ toClose = {} /\ p \in toImport
    /\ toImport' = toImport \ {p}
    /\ Fault
    /\ UNCHANGED <<brokerVars, row, flowVars, aged, phase, live, toClose, suspected,
                   suspectedManual, unowned, unseen>>

\* Both loops are done: wait for the next interval.
scan_ends ==
    /\ phase = "handling" /\ toClose = {} /\ toImport = {}
    /\ phase' = "idle"
    /\ UNCHANGED <<brokerVars, row, flowVars, aged, live, toClose, toImport, suspected,
                   suspectedManual, unowned, unseen, boundVars>>

\* The process dies and is started again: entries in progress are never
\* persisted, both suspect sets are empty.
Crash ==
    /\ crashes < MaxCrashes
    /\ crashes' = crashes + 1
    /\ persisting' = {}
    /\ phase' = "idle"
    /\ aged' = {} /\ live' = {} /\ toClose' = {} /\ toImport' = {}
    /\ suspected' = {} /\ suspectedManual' = {}
    /\ UNCHANGED <<brokerVars, row, reports, mapped, unowned, unseen, faults,
                   remaps, offline>>

-----------------------------------------------------------------------------
ScanStep ==
    \/ fetch_live_positions
    \/ get_open_positions_for_flat
    \/ \E r \in toClose : on_missed_close(r)
    \/ \E p \in toImport : on_manual_position(p)
    \/ scan_ends

Next ==
    \/ \E p \in Pos :
         \/ open_position(p)
         \/ open_by_hand(p)
         \/ AppearsInList(p)
         \/ insert_position(p)
         \/ insert_position_failed(p)
         \/ handle_tp1(p)
         \/ \E by \in {"event", "exit"} :
              close_position(p, by) \/ CloseReported(p, by) \/ CloseNotReported(p, by)
    \/ \E m \in SUBSET Strategies : set_strategy_magic_map(m)
    \/ ScanStep
    \/ fetch_while_offline
    \/ get_open_positions_failed
    \/ \E unresolved \in SUBSET RowIds : db_keys_failed(unresolved)
    \/ \E r \in toClose : on_missed_close_failed(r)
    \/ \E p \in toImport : on_manual_position_failed(p)
    \/ Crash

Spec == Init /\ [][Next]_vars

\* The job scans for ever, an entry in progress is persisted or fails, a filled
\* position gets listed.  Reports of closes may be late for ever.
FairSpec ==
    /\ Spec
    /\ WF_vars(ScanStep)
    /\ \A p \in Pos : WF_vars(insert_position(p)) /\ WF_vars(AppearsInList(p))

-----------------------------------------------------------------------------
(* Properties *)

\* The reconciler never gives up a live position: a row it closed has lost its
\* position, unless a scan could not see that position (its magic was not in
\* the map, or the terminal was offline).  Entries racing the fetch, late
\* listing, partial closes that change the ticket, failed reads and restarts
\* are all covered by the two-scan confirmation of _reconcile_missed_closes.
NeverClosesLive ==
    \A r \in RowIds : row[r] = "TERMINAL_CLOSED" =>
        pos[r[1]] = "gone" \/ r[1] \in unowned \cup unseen

\* A missed close heals: in the end every open row has a live position that
\* matches it, and (with a manual_handler) every listed position has an open
\* row that matches it, whichever reports were lost and whichever scans failed.
EventuallyReconciled ==
    <>[](/\ \A r \in OpenRows : \E p \in Pos :
              isLive(p) /\ dbKeys(r) \cap LiveKeys(p, p \in reticketed) # {}
         /\ HasManualHandler => \A p \in Listed : \E r \in OpenRows :
              dbKeys(r) \cap LiveKeys(p, p \in reticketed) # {})

=============================================================================
