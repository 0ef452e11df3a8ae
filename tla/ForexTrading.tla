----------------------------- MODULE ForexTrading -----------------------------
(***************************************************************************)
(* Signal execution on a hedging MetaTrader 5 account, one symbol:         *)
(* SignalHandler (worker/gateways/signal_handler.py), ForexMarket          *)
(* (worker/gateways/market_strategy.py), ForexExecutor                     *)
(* (worker/gateways/forex/executor.py), MT5Gateway, ADMIN FLAT             *)
(* (worker/gateways/processor.py) and the terminal's own closes with       *)
(* MT5EventJob._handle.                                                    *)
(*                                                                         *)
(* A position is named by its ticket and belongs to the signal that opened *)
(* it: a strategy (its magic number) and a signal_uxid.  Every broker call *)
(* and every database call is a step of its own, and terminal closes fall  *)
(* between any two.                                                        *)
(***************************************************************************)
EXTENDS Naturals, FiniteSets

CONSTANTS
    Strategies,
    Uxids,
    Idle,         \* the listener between two messages
    All,          \* no filter (ADMIN FLAT, the unscoped FLAT retry)
    MaxOrders,    \* MAX_OPEN_ORDERS, where it is set
    MaxTicket,    \* bound: entry orders filled
    MaxMessages,  \* bound: messages handled
    MaxFaults     \* bound: failing calls and crashes

ASSUME ForexAssumption ==
    /\ All \notin Strategies \cup Uxids
    /\ MaxOrders \in Nat \ {0}
    /\ MaxTicket \in Nat \ {0}
    /\ MaxMessages \in Nat
    /\ MaxFaults \in Nat

Tickets == 1..MaxTicket

Kinds == {"ENTRY", "TP1", "CLOSE", "FLAT", "ADMIN"}

VARIABLES
    settings,   \* strategies, positions: FOREX_ALLOW_MULTI_STRATEGY_ and
                \* _MULTI_POSITIONS_PER_SYMBOL; max_open_orders: 0 is no limit
    pos,        \* the account's positions
    row,        \* the positions table
    job,        \* what the listener is doing
    reports,    \* closes MT5EventJob has not handled yet
    used,       \* tickets given out
    lost,       \* history: tickets filled and never inserted
    messages,
    faults

vars == <<settings, pos, row, job, reports, used, lost, messages, faults>>

ACTIVE == {"OPENED", "TP1"}
CLOSED == {"CLOSED", "FORCED_CLOSED", "FLATTED", "TERMINAL_CLOSED"}

Owners == [strategy: Strategies, uxid: Uxids]

Settings == [strategies: BOOLEAN, positions: BOOLEAN, max_open_orders: {0, MaxOrders}]

\* owner: the magic number and the signal the ticket was opened for.
\* vol: in units of the smallest lot.  stop: where the entry or a TP1 put it.
NoOwner == [strategy |-> All, uxid |-> All]

Positions == [live: BOOLEAN, owner: Owners \cup {NoOwner}, vol: 0..2,
              stop: {"entry", "breakeven"}]

Steps == {"guard", "cap", "netting", "db_stale", "find_stale", "mark_stale", "order", "insert",
          "lookup", "live_guard", "tp1_list", "partial", "breakeven", "list", "close",
          "flat_lookup", "persist", "admin_sync"}

Jobs == [kind: Kinds, by: [strategy: Strategies \cup {All}, uxid: Uxids \cup {All}],
         at: Steps,
         then: {"stale", "exit", "failsafe", "flat", "retry", "admin"},
         rows: SUBSET Tickets,       \* rows read: stale ones, or the one owned
         todo: SUBSET Tickets,       \* positions listed and not closed yet
         listed: SUBSET Tickets, closed: SUBSET Tickets,
         target: 0..MaxTicket,       \* TP1: pos.ticket; entry: the new ticket
         status: ACTIVE \cup CLOSED, \* what persist writes
         blind: BOOLEAN]             \* the positions read failed

ASSUME IdleAssumption == Idle \notin Jobs

TypeOK ==
    /\ settings \in Settings
    /\ pos \in [Tickets -> Positions]
    /\ row \in [Tickets -> {"none"} \cup ACTIVE \cup CLOSED]
    /\ job \in Jobs \cup {Idle}
    /\ reports \subseteq Tickets
    /\ used \in 0..MaxTicket
    /\ lost \subseteq Tickets
    /\ messages \in 0..MaxMessages
    /\ faults \in 0..MaxFaults

Init ==
    /\ settings \in Settings
    /\ pos = [t \in Tickets |-> [live |-> FALSE, owner |-> NoOwner, vol |-> 0,
                                 stop |-> "entry"]]
    /\ row = [t \in Tickets |-> "none"]
    /\ job = Idle
    /\ reports = {} /\ used = 0 /\ lost = {} /\ messages = 0 /\ faults = 0

-----------------------------------------------------------------------------
Live == {t \in Tickets : pos[t].live}

Active == {t \in Tickets : row[t] \in ACTIVE}

\* The magic filter of get_open_positions.
OfStrategy(s) == {t \in Tickets : s = All \/ pos[t].owner.strategy = s}

\* ORDER BY id LIMIT 1
Oldest(S) == {t \in S : \A u \in S : t <= u}

\* _uxid_scope: the signal's own positions, or all of its strategy's.
OfKey(by) == {t \in OfStrategy(by.strategy) :
                 settings.positions => pos[t].owner.uxid = by.uxid}

Fault ==
    /\ faults < MaxFaults
    /\ faults' = faults + 1

\* A SELECT or a positions_get that fails answers an empty list.
Got(S, answer) ==
    \/ answer = S /\ UNCHANGED faults
    \/ answer = {} /\ Fault

Goto(step) == job' = [job EXCEPT !.at = step]

Done == job' = Idle

\* Nothing but the listener's own position in its code changes.
Reading == UNCHANGED <<settings, pos, row, reports, used, lost, messages>>

At(step) == job # Idle /\ job.at = step

-----------------------------------------------------------------------------
(* The message arrives *)

First(kind) == CASE kind = "ENTRY" -> "guard"
                 [] kind \in {"TP1", "CLOSE", "FLAT"} -> "lookup"
                 [] kind = "ADMIN" -> "list"

\* _process_signal or _handle_admin_flat; a FLAT by an operator names a
\* strategy or none.
receive ==
    /\ job = Idle /\ messages < MaxMessages
    /\ messages' = messages + 1
    /\ \E kind \in Kinds, s \in Strategies \cup {All}, u \in Uxids \cup {All} :
         /\ s = All => kind = "ADMIN"
         /\ u = All <=> kind = "ADMIN"
         /\ kind = "ENTRY" => used < MaxTicket
         /\ job' = [kind |-> kind, by |-> [strategy |-> s, uxid |-> u], at |-> First(kind),
                    then |-> IF kind = "ADMIN" THEN "admin" ELSE "exit",
                    rows |-> {}, todo |-> {}, listed |-> {}, closed |-> {}, target |-> 0,
                    status |-> "CLOSED", blind |-> FALSE]
    /\ UNCHANGED <<settings, pos, row, reports, used, lost, faults>>

-----------------------------------------------------------------------------
(* Entry *)

\* symbol_open_rejection: each toggle exempts along its own axis.
Blocking(r) ==
    IF pos[r].owner.strategy # job.by.strategy
    THEN ~settings.strategies
    ELSE settings.positions => pos[r].owner.uxid = job.by.uxid

symbol_open_rejection ==
    /\ At("guard")
    /\ \E rows \in SUBSET Tickets :
         /\ Got(Active, rows)
         /\ IF \E r \in rows : Blocking(r) THEN Done ELSE Goto("cap")
    /\ Reading

\* Mutation: the cap counts this strategy's positions only.
FullForStrategy(rows) ==
    /\ settings.max_open_orders > 0
    /\ Cardinality(rows \cap OfStrategy(job.by.strategy)) >= settings.max_open_orders

\* Every active position counts; an entry that replaces one is exempt.
Full(rows) ==
    /\ settings.max_open_orders > 0
    /\ rows \cap OfKey(job.by) = {}
    /\ Cardinality(rows) >= settings.max_open_orders

max_open_orders_rejection ==
    /\ At("cap")
    /\ \E rows \in SUBSET Tickets :
         /\ Got(Active, rows)
         /\ IF Full(rows) THEN Done ELSE Goto("netting")
    /\ Reading

\* _handle_entry: another strategy holds the symbol.
other_holders ==
    /\ At("netting")
    /\ \E rows \in SUBSET Tickets :
         /\ Got(Active, rows)
         /\ IF ~settings.strategies /\ rows \ OfStrategy(job.by.strategy) # {}
            THEN Done
            ELSE Goto("db_stale")
    /\ Reading

db_stale ==
    /\ At("db_stale")
    /\ \E rows \in SUBSET Tickets :
         /\ Got(Active \cap OfKey(job.by), rows)
         /\ job' = [job EXCEPT !.rows = rows, !.at = "find_stale"]
    /\ Reading

\* With a uxid only tracked tickets can be stale; without one every position
\* of the strategy is.
find_stale ==
    /\ At("find_stale")
    /\ \E stale \in SUBSET Tickets :
         /\ Got(Live \cap OfStrategy(job.by.strategy)
                  \cap (IF settings.positions THEN job.rows ELSE Tickets), stale)
         /\ IF stale = {} THEN Goto("mark_stale")
            ELSE job' = [job EXCEPT !.at = "list", !.then = "stale"]
    /\ Reading

\* Mutation: rows are cleared only when the broker still had a position.
mark_stale_live_only ==
    /\ At("mark_stale")
    /\ Goto("order")
    /\ \/ /\ row' = [t \in Tickets |-> IF t \in job.rows /\ job.closed # {}
                                       THEN "FORCED_CLOSED" ELSE row[t]]
          /\ UNCHANGED faults
       \/ Fault /\ UNCHANGED row
    /\ UNCHANGED <<settings, pos, reports, used, lost, messages>>

\* Every active row of the key is cleared, live on the broker or not.
mark_stale ==
    /\ At("mark_stale")
    /\ Goto("order")
    /\ \/ /\ row' = [t \in Tickets |-> IF t \in job.rows THEN "FORCED_CLOSED" ELSE row[t]]
          /\ UNCHANGED faults
       \/ Fault /\ UNCHANGED row
    /\ UNCHANGED <<settings, pos, reports, used, lost, messages>>

\* open_position: filled; the smallest lot cannot be halved at TP1.  With the
\* answer lost the worker takes the order for refused.
order_filled ==
    /\ At("order") /\ used < MaxTicket
    /\ used' = used + 1
    /\ \E v \in 1..2 : pos' = [pos EXCEPT ![used'] =
            [live |-> TRUE, owner |-> job.by, vol |-> v, stop |-> "entry"]]
    /\ \/ /\ job' = [job EXCEPT !.at = "insert", !.target = used']
          /\ UNCHANGED <<lost, faults>>
       \/ Fault /\ Done /\ lost' = lost \cup {used'}
    /\ UNCHANGED <<settings, row, reports, messages>>

order_refused ==
    /\ At("order")
    /\ Fault /\ Done
    /\ UNCHANGED <<settings, pos, row, reports, used, lost, messages>>

\* The unique index: one active row per strategy, symbol and signal_uxid.
Conflicts(t) == \E u \in Active : pos[u].owner = pos[t].owner

insert_position ==
    /\ At("insert") /\ ~Conflicts(job.target)
    /\ row' = [row EXCEPT ![job.target] = "OPENED"]
    /\ Done
    /\ UNCHANGED <<settings, pos, reports, used, lost, messages, faults>>

\* insert_position raises: the index refuses the row ...
insert_conflicts ==
    /\ At("insert") /\ Conflicts(job.target)
    /\ Done
    /\ UNCHANGED <<settings, pos, row, reports, used, lost, messages, faults>>

\* ... or the database fails.
insert_fails ==
    /\ At("insert")
    /\ Fault /\ Done
    /\ lost' = lost \cup {job.target}
    /\ UNCHANGED <<settings, pos, row, reports, used, messages>>

-----------------------------------------------------------------------------
(* Exits *)

AfterLookup(owned) ==
    CASE job.kind = "FLAT" /\ (owned # {} \/ ~settings.positions) ->
           [job EXCEPT !.rows = owned, !.at = "list", !.then = "flat"]
      [] job.kind # "FLAT" /\ owned # {} ->
           [job EXCEPT !.rows = owned, !.at = "live_guard"]
      [] OTHER -> Idle

\* _get_db_position: the oldest active row of the key, the others are healed
\* (marked FORCED_CLOSED).
get_db_position ==
    /\ At("lookup")
    /\ \E rows \in SUBSET Tickets :
         /\ Got(Active \cap OfKey(job.by), rows)
         /\ job' = AfterLookup(Oldest(rows))
         /\ row' = [t \in Tickets |-> IF t \in rows \ Oldest(rows) THEN "FORCED_CLOSED"
                                      ELSE row[t]]
    /\ UNCHANGED <<settings, pos, reports, used, lost, messages>>

\* The ticket a signal may reach, when siblings may exist.
Scope == IF settings.positions /\ job.then # "failsafe" THEN job.rows ELSE Tickets

live_guard ==
    /\ At("live_guard")
    /\ \E found \in SUBSET Tickets :
         /\ Got(Live \cap OfStrategy(job.by.strategy) \cap Scope, found)
         /\ CASE found = {} -> Done
              [] found # {} /\ job.kind = "TP1" -> Goto("tp1_list")
              [] found # {} /\ job.kind # "TP1" ->
                   job' = [job EXCEPT !.at = "list", !.status = "CLOSED"]
    /\ Reading

\* handle_tp1: pos = positions[0].
tp1_list ==
    /\ At("tp1_list")
    /\ \E found \in SUBSET Tickets :
         /\ Got(Live \cap OfStrategy(job.by.strategy) \cap Scope, found)
         /\ IF found = {} THEN Done
            ELSE \E t \in found : job' = [job EXCEPT !.at = "partial", !.target = t]
    /\ Reading

\* _pick: the ticket, else the first position of the list.
Picks(positions) == IF job.target \in positions THEN {job.target} ELSE positions

\* safe_volume: at most what is open.
Shrunk(p) == [p EXCEPT !.vol = @ - 1, !.live = (p.vol > 1)]

\* partial_close_position: at most what is open is closed; then the stop is
\* moved, if TP1 is configured to.
partial_close ==
    /\ At("partial")
    /\ \E t \in Picks(Live \cap OfStrategy(job.by.strategy)), move \in BOOLEAN :
         /\ pos' = [pos EXCEPT ![t] = Shrunk(@)]
         /\ job' = [job EXCEPT !.at = IF move THEN "breakeven" ELSE "persist",
                               !.status = "TP1"]
    /\ UNCHANGED <<settings, row, reports, used, lost, messages, faults>>

partial_close_fails ==
    /\ At("partial")
    /\ Fault \/ (Live \cap OfStrategy(job.by.strategy) = {} /\ UNCHANGED faults)
    /\ Done
    /\ Reading

update_position_sl ==
    /\ At("breakeven")
    /\ \E t \in Picks(Live \cap OfStrategy(job.by.strategy)) :
         pos' = [pos EXCEPT ![t].stop = "breakeven"]
    /\ Goto("persist")
    /\ UNCHANGED <<settings, row, reports, used, lost, messages, faults>>

\* The failsafe closes by symbol and strategy, without a ticket.
update_position_sl_fails ==
    /\ At("breakeven")
    /\ Fault \/ (Live \cap OfStrategy(job.by.strategy) = {} /\ UNCHANGED faults)
    /\ job' = [job EXCEPT !.at = "list", !.then = "failsafe"]
    /\ Reading

-----------------------------------------------------------------------------
(* Closing: close_all_positions and _close_live_positions_for_flat *)

\* Mutation: the close is not narrowed to the ticket.
ReachableUnscoped == Live \cap OfStrategy(job.by.strategy)

\* get_open_positions, narrowed to the ticket.
Reachable == Live \cap OfStrategy(IF job.then = "retry" THEN All ELSE job.by.strategy)
                  \cap (IF job.kind = "ADMIN" THEN Tickets ELSE Scope)

list_positions ==
    /\ At("list")
    /\ \E found \in SUBSET Tickets :
         /\ Got(Reachable, found)
         /\ job' = [job EXCEPT !.listed = found, !.todo = found, !.closed = {},
                               !.blind = (found # Reachable), !.at = "close"]
    /\ Reading

\* One close_position; with its answer lost the position is gone all the same.
close_position ==
    /\ At("close")
    /\ \E t \in job.todo :
         \/ /\ pos[t].live
            /\ pos' = [pos EXCEPT ![t].live = FALSE]
            /\ job' = [job EXCEPT !.todo = @ \ {t}, !.closed = @ \cup {t}]
            /\ UNCHANGED faults
         \/ /\ Fault \/ (~pos[t].live /\ UNCHANGED faults)
            /\ \/ UNCHANGED pos
               \/ pos[t].live /\ pos' = [pos EXCEPT ![t].live = FALSE]
            /\ job' = [job EXCEPT !.todo = @ \ {t}]
    /\ UNCHANGED <<settings, row, reports, used, lost, messages>>

\* FLAT retries without the strategy only where nothing may share the symbol.
MayRetry == job.then = "flat" /\ ~settings.strategies /\ ~settings.positions

Persist(status) == [job EXCEPT !.at = "persist", !.status = status]

\* The close succeeds when at least one position was closed.
AfterClose ==
    LET ok == job.closed # {} IN
    CASE job.then = "stale" ->
           IF ok THEN [job EXCEPT !.at = "mark_stale"] ELSE Idle
      [] job.then = "exit" -> IF ok THEN Persist("CLOSED") ELSE Idle
      [] job.then = "failsafe" -> Persist(IF ok THEN "FORCED_CLOSED" ELSE "TP1")
      [] job.then \in {"flat", "retry"} ->
           IF ~ok /\ MayRetry THEN [job EXCEPT !.at = "list", !.then = "retry"]
           ELSE IF job.rows # {} THEN Persist("FLATTED")
           ELSE [job EXCEPT !.at = "flat_lookup"]
      [] job.then = "admin" -> [job EXCEPT !.at = "admin_sync"]

all_closed ==
    /\ At("close") /\ job.todo = {}
    /\ job' = AfterClose
    /\ Reading /\ UNCHANGED faults

\* _handle_flat looks again for the row: the one found, else the ticket of the
\* first position closed.  A FLAT that closed nothing marks it FLATTED too.
flat_lookup ==
    /\ At("flat_lookup")
    /\ \E rows \in SUBSET Tickets :
         /\ Got(Active \cap OfKey(job.by), rows)
         /\ job' = IF rows = {} /\ job.closed = {} THEN Idle
                   ELSE [job EXCEPT !.status = "FLATTED", !.at = "persist",
                                    !.rows = Oldest(IF rows # {} THEN rows ELSE job.listed)]
         /\ row' = [t \in Tickets |-> IF t \in rows \ Oldest(rows) THEN "FORCED_CLOSED"
                                      ELSE row[t]]
    /\ UNCHANGED <<settings, pos, reports, used, lost, messages>>

\* Mutation: the row is found by the strategy.
PersistedOfStrategy == OfStrategy(job.by.strategy)

\* WHERE ref_source_id = ?
Persisted == job.rows

\* update_position_status looks at no status already there, and swallows its
\* own errors.
persist ==
    /\ At("persist")
    /\ Done
    /\ \/ /\ row' = [t \in Tickets |-> IF t \in Persisted /\ row[t] # "none"
                                       THEN job.status ELSE row[t]]
          /\ UNCHANGED faults
       \/ Fault /\ UNCHANGED row
    /\ UNCHANGED <<settings, pos, reports, used, lost, messages>>

\* Mutation: a row whose close failed is marked as well.
FlattedAll(rows) == rows

\* _reconcile_flat_db: closed here, or never seen live.
Flatted(rows) == {t \in rows : t \in job.closed \/ t \notin job.listed}

admin_sync ==
    /\ At("admin_sync")
    /\ Done
    /\ \E rows \in SUBSET Tickets :
         /\ Got(Active \cap OfStrategy(job.by.strategy), rows)
         /\ row' = [t \in Tickets |-> IF t \in Flatted(rows) THEN "FLATTED" ELSE row[t]]
    /\ UNCHANGED <<settings, pos, reports, used, lost, messages>>

-----------------------------------------------------------------------------
(* The terminal, and the process *)

\* A stop, a target or the operator closes the position in the terminal.
terminal_closes ==
    \E t \in Live :
        /\ pos' = [pos EXCEPT ![t].live = FALSE]
        /\ reports' = reports \cup {t}
        /\ UNCHANGED <<settings, row, job, used, lost, messages, faults>>

\* MT5EventJob._handle, on its own thread: an event whose row is not there yet
\* is dropped.
on_terminal_close ==
    \E t \in reports :
        /\ reports' = reports \ {t}
        /\ \/ /\ row' = IF row[t] = "none" THEN row
                        ELSE [row EXCEPT ![t] = "TERMINAL_CLOSED"]
              /\ UNCHANGED faults
           \/ Fault /\ UNCHANGED row
        /\ UNCHANGED <<settings, pos, job, used, lost, messages>>

\* The first scan after a restart only learns what is open: closes not handled
\* yet are forgotten.
Crash ==
    /\ Fault
    /\ Done
    /\ reports' = {}
    /\ lost' = lost \cup (IF At("insert") THEN {job.target} ELSE {})
    /\ UNCHANGED <<settings, pos, row, used, messages>>

Next ==
    \/ receive
    \/ symbol_open_rejection \/ max_open_orders_rejection
    \/ other_holders \/ db_stale \/ find_stale \/ mark_stale
    \/ order_filled \/ order_refused
    \/ insert_position \/ insert_conflicts \/ insert_fails
    \/ get_db_position \/ live_guard \/ tp1_list
    \/ partial_close \/ partial_close_fails
    \/ update_position_sl \/ update_position_sl_fails
    \/ list_positions \/ close_position \/ all_closed
    \/ flat_lookup \/ persist \/ admin_sync
    \/ terminal_closes \/ on_terminal_close \/ Crash

Spec == Init /\ [][Next]_vars

-----------------------------------------------------------------------------
(* Whose position the running job may touch: with several signals on a symbol
   its own, except that a TP1 reaches a sibling of the same strategy in the
   failsafe, and once its own ticket is gone; with several strategies its
   strategy's; alone on the symbol anything, in the retry of a FLAT. *)
MayTouch(t) ==
    LET o == pos[t].owner IN
    CASE job.kind = "ADMIN" -> job.by.strategy \in {All, o.strategy}
      [] job.kind # "ADMIN" /\ settings.positions /\ job.kind # "TP1" -> o = job.by
      [] job.kind = "TP1" /\ settings.positions ->
           /\ o.strategy = job.by.strategy
           /\ o = job.by \/ job.then = "failsafe" \/ ~pos[job.target].live
      [] OTHER -> o.strategy = job.by.strategy \/ (job.then = "retry" /\ ~settings.strategies)

\* A signal closes, reduces or re-stops only the positions it may reach, however
\* the terminal's closes and the worker's restarts fall between its calls
\* (SignalHandler._execute_exit, _handle_entry, _handle_flat; ForexExecutor._pick).
OwnTicketOnly ==
    [][\A t \in Live : pos'[t] # pos[t] /\ reports' = reports => MayTouch(t)]_vars

\* While no call fails and the worker does not restart, a row is marked closed
\* only when its position is gone, whatever is closed in the terminal meanwhile
\* (_persist_success, MT5EventJob._handle, _force_close_stale).
RacesAloneKeepRowsTrue ==
    faults = 0 => \A t \in Tickets : row[t] \in CLOSED => ~pos[t].live

\* MAX_OPEN_ORDERS counts the account: while no call fails, however the toggles
\* widen the key, no more rows are active than it allows
\* (max_open_orders_rejection, insert_position, the statuses persisted later).
CapHolds ==
    faults = 0 /\ settings.max_open_orders > 0
        => Cardinality(Active) <= settings.max_open_orders

\* An ADMIN FLAT never calls a position flat that is still open, a failed close
\* included, unless reading the positions failed (_reconcile_flat_db).
AdminFlatTellsTruth ==
    [][\A t \in Tickets :
          At("admin_sync") /\ row'[t] # row[t] => ~pos[t].live \/ job.blind]_vars

\* Between two messages every open position has a row, unless its order's
\* answer or its INSERT was the very call that failed: no other single failure
\* lets an entry run untracked (mark_stale clears the key of the unique index
\* before the order is sent).
TrackedUnlessLost ==
    job = Idle => \A t \in Live : row[t] = "none" => t \in lost \/ faults >= 2

=============================================================================
