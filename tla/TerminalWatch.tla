---------------------------- MODULE TerminalWatch ----------------------------
(***************************************************************************)
(* The MetaTrader 5 connection and what watches it: the health thread with *)
(* its weekend break, the listener's own reconnect                         *)
(* (worker/gateways/forex/signal_processor.py), MT5Bridge                  *)
(* (worker/gateways/forex/mt5/bridge.py), the close detector               *)
(* (worker/gateways/forex/mt5/close_detector.py) and MT5EventJob           *)
(* (worker/jobs/mt5_event_job.py).                                         *)
(*                                                                         *)
(* Three threads of one process share one connection and nothing guards    *)
(* it: every reconnect attempt shuts it down before it connects again.     *)
(***************************************************************************)
EXTENDS Naturals, FiniteSets

CONSTANTS
    Tickets,
    Magics,
    MaxAttempts,  \* bound: reconnect attempts before a restart (15 in the code)
    MaxWeekends,  \* bound: times the market closes
    MaxMaps,      \* bound: magic maps pushed
    MaxTrouble    \* bound: lost connections, failing calls and crashes

ASSUME WatchAssumption ==
    /\ MaxAttempts \in Nat \ {0}
    /\ MaxWeekends \in Nat /\ MaxMaps \in Nat /\ MaxTrouble \in Nat
    /\ "none" \notin Magics

VARIABLES
    open,     \* ~is_market_closed()
    server,   \* the trade server can be reached
    conn,     \* terminal_info().connected
    started,  \* connect() has passed, the threads run
    fresh,    \* this process was started inside the closed window
    health,   \* the health thread
    listener, \* the listener's _ensure_gateway_connected
    owned,    \* owned_magics()
    pos,      \* the account's positions
    last,     \* per ticket: who made its newest closing deal
    row,      \* the positions table
    seen,     \* seen_tickets
    job,      \* MT5EventJob
    todo,     \* events of the scan not handled yet
    missed,   \* history: closes whose own report failed
    dropped,  \* history: magics that were taken out of the map
    weekends, maps, trouble

link == <<open, server, conn, started, fresh>>
book == <<owned, dropped, pos, last, row, maps>>
watch == <<seen, job, todo, missed>>
watch_vars == <<link, health, listener, book, watch, weekends, trouble>>

Magic == [Tickets -> Magics \cup {"none"}]

WatchTypeOK ==
    /\ {open, server, conn, started, fresh} \subseteq BOOLEAN
    /\ health \in [at: {"wait", "check", "shutdown", "connect", "restart"},
                   saw_closed: BOOLEAN, parked: BOOLEAN, restarted: BOOLEAN,
                   attempt: 0..MaxAttempts]
    /\ listener \in {"idle", "shutdown", "connect"}
    /\ owned \subseteq Magics /\ dropped \subseteq Magics
    /\ pos \in [Tickets -> [magic: Magics \cup {"none"}, live: BOOLEAN]]
    /\ last \in [Tickets -> {"none", "expert", "terminal"}]
    /\ row \in [Tickets -> {"none", "OPENED", "TERMINAL_CLOSED"}]
    /\ seen \subseteq Tickets /\ todo \subseteq Tickets /\ missed \subseteq Tickets
    /\ job \in {"poll", "scan", "handle"}
    /\ weekends \in 0..MaxWeekends /\ maps \in 0..MaxMaps /\ trouble \in 0..MaxTrouble

Resting == [at |-> "wait", saw_closed |-> FALSE, parked |-> FALSE, restarted |-> FALSE,
            attempt |-> 0]

WatchInit ==
    /\ open \in BOOLEAN /\ fresh = ~open
    /\ server = TRUE /\ conn = FALSE /\ started = FALSE
    /\ health = Resting /\ listener = "shutdown"
    /\ owned = Magics /\ dropped = {}
    /\ pos = [t \in Tickets |-> [magic |-> "none", live |-> FALSE]]
    /\ last = [t \in Tickets |-> "none"]
    /\ row = [t \in Tickets |-> "none"]
    /\ seen = {} /\ job = "poll" /\ todo = {} /\ missed = {}
    /\ weekends = 0 /\ maps = 0 /\ trouble = 0

Trouble ==
    /\ trouble < MaxTrouble
    /\ trouble' = trouble + 1

-----------------------------------------------------------------------------
(* The health thread *)

\* Mutation: a connection closed for the weekend is not looked at again.
AfterCheckIdle ==
    IF ~health.parked /\ ~conn THEN [Resting EXCEPT !.at = "shutdown"]
    ELSE [health EXCEPT !.at = "wait"]

\* The market is open: reconnect what is not connected.
AfterCheck ==
    IF conn THEN Resting ELSE [Resting EXCEPT !.at = "shutdown"]

\* The calendar is read before the wait ...
health_waits ==
    /\ started /\ health.at = "wait"
    /\ health' = [health EXCEPT !.at = "check", !.saw_closed = ~open]
    /\ UNCHANGED <<link, listener, book, watch, weekends, trouble>>

\* ... and acted upon after it.
health_checks ==
    /\ health.at = "check"
    /\ IF health.saw_closed
       THEN /\ health' = [Resting EXCEPT !.parked = TRUE]
            /\ conn' = (conn /\ health.parked)
       ELSE health' = AfterCheck /\ UNCHANGED conn
    /\ UNCHANGED <<open, server, started, fresh, listener, book, watch, weekends, trouble>>

\* MT5Bridge.reconnect: mt5.shutdown() first, whoever else uses the connection.
health_shutdown ==
    /\ health.at = "shutdown"
    /\ conn' = FALSE
    /\ health' = [health EXCEPT !.at = "connect", !.attempt = @ + 1]
    /\ UNCHANGED <<open, server, started, fresh, listener, book, watch, weekends, trouble>>

\* All attempts used up: one restart of the terminal, then back to waiting.
AfterAttempt ==
    CASE server -> Resting
      [] ~server /\ health.attempt < MaxAttempts -> [health EXCEPT !.at = "shutdown"]
      [] ~server /\ health.attempt = MaxAttempts ->
           IF health.restarted THEN Resting ELSE [health EXCEPT !.at = "restart"]

health_connect ==
    /\ health.at = "connect"
    /\ conn' = server
    /\ health' = AfterAttempt
    /\ UNCHANGED <<open, server, started, fresh, listener, book, watch, weekends, trouble>>

\* _restart_terminal_and_reconnect; the relaunch may fail.
restart_terminal ==
    /\ health.at = "restart"
    /\ conn' = FALSE
    /\ health' \in {Resting,
                    [health EXCEPT !.at = "shutdown", !.restarted = TRUE, !.attempt = 0]}
    /\ UNCHANGED <<open, server, started, fresh, listener, book, watch, weekends, trouble>>

-----------------------------------------------------------------------------
(* The listener: connect() at start, _ensure_gateway_connected per message *)

ensure_gateway_connected ==
    /\ started /\ listener = "idle" /\ ~conn
    /\ listener' = "shutdown"
    /\ UNCHANGED <<link, health, book, watch, weekends, trouble>>

listener_shutdown ==
    /\ listener = "shutdown"
    /\ conn' = FALSE
    /\ listener' = "connect"
    /\ UNCHANGED <<open, server, started, fresh, health, book, watch, weekends, trouble>>

\* No bound on the attempts, and no stop event.
listener_connect ==
    /\ listener = "connect"
    /\ conn' = server
    /\ listener' = IF server THEN "idle" ELSE "shutdown"
    /\ started' = (started \/ server)
    /\ UNCHANGED <<open, server, fresh, health, book, watch, weekends, trouble>>

-----------------------------------------------------------------------------
(* MT5EventJob *)

platform_ready ==
    /\ started /\ job = "poll" /\ conn
    /\ job' = "scan"
    /\ UNCHANGED <<link, health, listener, book, seen, todo, missed, weekends, trouble>>

Current == {t \in Tickets : pos[t].live /\ pos[t].magic \in owned}

Gone == {t \in Tickets : ~pos[t].live}

\* Mutation: no answer is read as no positions.
SeenNowOffline == IF conn THEN Current ELSE {}

\* positions_get() answers None without a connection: the scan is skipped.
SeenNow == IF conn THEN Current ELSE seen

\* _build_event: the newest closing deal is the terminal's.
Reported(t) == last[t] = "terminal"

\* A ticket whose history cannot be read is forgotten like the others.
scan_terminal_closed_positions ==
    /\ job = "scan"
    /\ LET gone == seen \ SeenNow IN
       \/ /\ todo' = {t \in gone : Reported(t)}
          /\ UNCHANGED <<missed, trouble>>
       \/ \E t \in gone :
            /\ Trouble
            /\ missed' = missed \cup ({t} \cap Gone)
            /\ todo' = {u \in gone \ {t} : Reported(u)}
    /\ seen' = SeenNow
    /\ job' = IF todo' = {} THEN "poll" ELSE "handle"
    /\ UNCHANGED <<link, health, listener, book, weekends>>

\* Mutation: an exception ends the batch.
RestOfBatchNone(t) == {}

\* Each event is tried on its own.
RestOfBatch(t) == todo \ {t}

handle ==
    /\ job = "handle"
    /\ \E t \in todo :
         \/ /\ row' = [row EXCEPT ![t] = "TERMINAL_CLOSED"] /\ todo' = todo \ {t}
            /\ UNCHANGED <<missed, trouble>>
         \/ /\ Trouble
            /\ missed' = missed \cup ({t} \cap Gone) /\ todo' = RestOfBatch(t)
            /\ UNCHANGED row
    /\ job' = IF todo' = {} THEN "poll" ELSE job
    /\ UNCHANGED <<link, health, listener, owned, dropped, pos, last, maps, seen, weekends>>

-----------------------------------------------------------------------------
(* Positions *)

\* The listener opens a position under a strategy's magic and inserts its row;
\* what may come between is ForexTrading's.
open_position ==
    /\ started /\ conn
    /\ \E t \in Tickets, m \in owned :
         /\ pos[t].magic = "none"
         /\ pos' = [pos EXCEPT ![t] = [magic |-> m, live |-> TRUE]]
         /\ row' = [row EXCEPT ![t] = "OPENED"]
    /\ UNCHANGED <<link, health, listener, owned, dropped, last, maps, watch, weekends,
                   trouble>>

\* A closing deal, of the whole position or of a part: by the worker, or by a
\* stop, a target or the operator.
deal ==
    /\ \E t \in Tickets, by \in {"expert", "terminal"}, rest \in BOOLEAN :
         /\ pos[t].live
         /\ by = "expert" => started /\ conn
         /\ <<last[t], rest>> # <<by, TRUE>>
         /\ last' = [last EXCEPT ![t] = by]
         /\ pos' = [pos EXCEPT ![t].live = rest]
    /\ UNCHANGED <<link, health, listener, owned, dropped, row, maps, watch, weekends,
                   trouble>>

\* WORKER_CONNECTED_ACK replaces the magic map.
push_magic_map ==
    /\ maps < MaxMaps /\ maps' = maps + 1
    /\ owned' \in SUBSET Magics \ {owned}
    /\ dropped' = dropped \cup (owned \ owned')
    /\ UNCHANGED <<link, health, listener, pos, last, row, watch, weekends, trouble>>

-----------------------------------------------------------------------------
(* The calendar, the network and the process *)

market_closes ==
    /\ open /\ weekends < MaxWeekends
    /\ weekends' = weekends + 1
    /\ open' = FALSE /\ fresh' = FALSE
    /\ UNCHANGED <<server, conn, started, health, listener, book, watch, trouble>>

\* Two days later: long enough for the health thread to have seen it, unless it
\* was started inside the window.
market_opens ==
    /\ ~open
    /\ health.parked \/ fresh \/ ~started
    /\ open' = TRUE
    /\ UNCHANGED <<server, conn, started, fresh, health, listener, book, watch, weekends,
                   trouble>>

connection_drops ==
    /\ conn /\ Trouble
    /\ conn' = FALSE
    /\ server' \in BOOLEAN
    /\ UNCHANGED <<open, started, fresh, health, listener, book, watch, weekends>>

server_returns ==
    /\ ~server
    /\ server' = TRUE
    /\ UNCHANGED <<open, conn, started, fresh, health, listener, book, watch, weekends,
                   trouble>>

\* The process is started again: its first scan only learns what is open.
Crash ==
    /\ Trouble
    /\ conn' = FALSE /\ started' = FALSE /\ fresh' = ~open
    /\ health' = Resting /\ listener' = "shutdown"
    /\ seen' = {} /\ job' = "poll" /\ todo' = {}
    /\ missed' = missed \cup ((seen \cup todo) \cap Gone)
    /\ UNCHANGED <<open, server, book, weekends>>

Health ==
    health_waits \/ health_checks \/ health_shutdown \/ health_connect \/ restart_terminal

Reconnect == listener_shutdown \/ listener_connect

EventJob == platform_ready \/ scan_terminal_closed_positions \/ handle

WatchNext ==
    \/ Health \/ Reconnect \/ EventJob
    \/ ensure_gateway_connected
    \/ open_position \/ deal \/ push_magic_map
    \/ market_closes \/ market_opens \/ connection_drops \/ server_returns \/ Crash

WatchSpec == WatchInit /\ [][WatchNext]_watch_vars

\* The threads run, weekends and outages end.  Nothing says a message arrives.
WatchFairness ==
    /\ WF_watch_vars(Health) /\ WF_watch_vars(Reconnect) /\ WF_watch_vars(EventJob)
    /\ WF_watch_vars(market_opens) /\ WF_watch_vars(server_returns)

FairWatchSpec == WatchSpec /\ WatchFairness

-----------------------------------------------------------------------------
\* A row the detector has closed lost its position, unless a magic map once
\* dropped the position's magic: neither a lost connection, a weekend break nor
\* a restart makes an open position disappear from the scan in a way that
\* reaches its row (scan_terminal_closed_positions, MT5EventJob._handle).
ClosedRowsAreGone ==
    \A t \in Tickets : row[t] = "TERMINAL_CLOSED" /\ pos[t].live => pos[t].magic \in dropped

\* The detector lets go of a ticket that was closed only when the row has been
\* written, the close was the worker's own, or the report of this very ticket
\* failed: not because another event of its batch failed, and not because the
\* connection was lost between two scans (MT5EventJob._run, _handle).
CloseNotForgotten ==
    [][\A t \in (seen \cup todo) \cap Gone :
         t \notin (seen \cup todo)' =>
             \/ row'[t] = "TERMINAL_CLOSED"
             \/ last[t] # "terminal"
             \/ t \in missed']_watch_vars

\* No message arrives in the middle of a reconnect for ever.
Quiet == <>[](listener = "idle")

\* A tracked position closed by the terminal gets its row closed, whatever
\* happens to the other events of its batch and to the connection, unless the
\* report of this very position failed or the process was restarted
\* (MT5EventJob._run, _handle).
EveryCloseRecorded ==
    Quiet => \A t \in Tickets :
        t \in seen \cap Gone /\ last[t] = "terminal" /\ row[t] = "OPENED"
            ~> row[t] = "TERMINAL_CLOSED" \/ t \in missed

Reconnecting ==
    listener # "idle" \/ health.at \in {"shutdown", "connect", "restart"}

\* After weekends and outages the connection keeps coming back, whatever the two
\* threads that reconnect do to each other, each shutting down what the other
\* has just connected; and once no message falls into a reconnect any more, it
\* comes back for good (_health_thread, _ensure_gateway_connected,
\* MT5Bridge.reconnect).
ConnectionComesBack ==
    /\ []<>conn
    /\ Quiet => <>[](conn /\ ~Reconnecting)

=============================================================================
