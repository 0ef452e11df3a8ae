---------------------------- MODULE SignalIntake ----------------------------
(***************************************************************************)
(* How a signal, and the settings it is executed under, reach the worker:  *)
(* BaseSignalProcessor (worker/gateways/processor.py) with the two NATS    *)
(* connections of worker/services/nats_service.py.                         *)
(*                                                                         *)
(* The listener thread runs the WORKER_CONNECTED handshake once at         *)
(* start-up and then consumes the subscriber's queue.  Whenever the        *)
(* publisher's connection comes back, a thread of its own runs the same    *)
(* handshake beside it: it applies the settings, the magic map and the     *)
(* replay of recent signals while the listener executes live ones.         *)
(*                                                                         *)
(* All signals belong to one strategy and symbol.  The broker's side of    *)
(* NATS and the time are external: any replayed signal may be older than   *)
(* MAX_RETRY_TIMEOUT.                                                      *)
(***************************************************************************)
EXTENDS Naturals, Sequences, FiniteSets

CONSTANTS
    Entries,       \* LONG / SHORT signals
    Exits,         \* TP1, TP2, SL, R_SL, FLAT signals
    Listener,      \* the thread of connect() and run()
    Announcers,    \* bound: nats-reconnect-announce threads at a time
    None,          \* no value: no work, a section the reply does not carry
    MaxTrouble     \* bound: events that disturb the intake, of all kinds together:
                   \* changed settings, lost connections, failed accesses, crashes

Signals == Entries \cup Exits
Threads == {Listener} \cup Announcers

ASSUME Distinct ==
    /\ Entries \cap Exits = {} /\ Signals \cap BOOLEAN = {}
    /\ Listener \notin Announcers /\ IsFiniteSet(Announcers)
    /\ None \notin Signals \cup BOOLEAN
ASSUME Bound == MaxTrouble \in Nat

VARIABLES
    subscriber,  \* the subscriber's connection is up
    publisher,   \* the publisher's connection is up
    subscribed,  \* the event NATSSubscriber._subscribed, set once
    queue,       \* NATSSubscriber._msg_queue: signals and signal_blocked pushes
    blocked,     \* _signals_blocked
    magics,      \* the magic map has the strategy
    pc,          \* per thread: where it is in the handshake, or listening
    ack,         \* per thread: the reply it is applying
    work,        \* per thread: the signal it executes and the next step
    logged,      \* signal_id values in position_logs
    open,        \* entries with an OPENED row
    intent,      \* broker: the operator's last signal_blocked
    published,   \* broker: the signals sent so far, in order
    executed,    \* history: per signal, orders the broker filled
    excused,     \* history: per signal, times two threads held it or a trace was lost
    late,        \* history: signals taken off the queue after they were executed
    missed,      \* history: not delivered, and in no reply composed since
    handled,     \* history: signals the worker decided about
    pushMissed,  \* history: intent is in no push delivered or reply since
    superseded,  \* history: a reply crossed a push or another thread's reply
    trouble

linkVars == <<subscriber, publisher, subscribed>>
brokerVars == <<intent, published>>
tableVars == <<logged, open>>
threadVars == <<pc, ack, work>>
signalHistory == <<executed, excused, late, missed, handled>>
settingHistory == <<pushMissed, superseded>>
vars == <<linkVars, queue, blocked, magics, threadVars, tableVars, brokerVars,
          signalHistory, settingHistory, trouble>>

-----------------------------------------------------------------------------
(* Types *)

\* A reply: the settings it carries and whether they have changed since, the
\* magic map (whether it has the strategy), and the signals to replay.
Replies == [blocked: BOOLEAN \cup {None}, stale: BOOLEAN,
            magics: BOOLEAN \cup {None}, retry: Seq(Signals)]
NoReply == [blocked |-> None, stale |-> FALSE, magics |-> None, retry |-> <<>>]

Steps == {"gate", "guards", "handle", "log", "persist"}
Work == [signal: Signals, step: Steps]

ASSUME NoWork == None \notin Work

TypeOK ==
    /\ subscriber \in BOOLEAN /\ publisher \in BOOLEAN /\ subscribed \in BOOLEAN
    /\ queue \in Seq(Signals \cup BOOLEAN)
    /\ blocked \in BOOLEAN /\ magics \in BOOLEAN
    /\ pc \in [Threads -> {"off", "announce", "settings", "magics", "gate",
                           "replay", "listen"}]
    /\ ack \in [Threads -> Replies]
    /\ work \in [Threads -> Work \cup {None}]
    /\ logged \subseteq Signals /\ open \subseteq Entries
    /\ intent \in BOOLEAN /\ published \in Seq(Signals)
    /\ executed \in [Signals -> Nat] /\ excused \in [Signals -> Nat]
    /\ late \subseteq Signals /\ missed \subseteq Signals /\ handled \subseteq Signals
    /\ pushMissed \in BOOLEAN /\ superseded \in BOOLEAN
    /\ trouble \in 0..MaxTrouble

Sent == {published[i] : i \in DOMAIN published}
Queued == {queue[i] : i \in DOMAIN queue}

Init ==
    /\ subscriber = FALSE /\ publisher = TRUE /\ subscribed = FALSE
    /\ queue = <<>>
    /\ blocked = FALSE /\ magics = FALSE
    /\ pc = [t \in Threads |-> IF t = Listener THEN "announce" ELSE "off"]
    /\ ack = [t \in Threads |-> NoReply]
    /\ work = [t \in Threads |-> None]
    /\ logged = {} /\ open = {}
    /\ intent = FALSE /\ published = <<>>
    /\ executed = [s \in Signals |-> 0] /\ excused = [s \in Signals |-> 0]
    /\ late = {} /\ missed = {} /\ handled = {}
    /\ pushMissed = TRUE /\ superseded = FALSE
    /\ trouble = 0

Trouble ==
    /\ trouble < MaxTrouble
    /\ trouble' = trouble + 1

-----------------------------------------------------------------------------
(* The broker and the two connections *)

\* NATS core delivers to a live subscription and keeps nothing for a dead one.
Deliver(m) == queue' = IF subscriber THEN Append(queue, m) ELSE queue

\* An entry or exit signal; exits follow the entry they close.
publish_signal(s) ==
    /\ s \notin Sent
    /\ s \in Exits => Sent \cap Entries # {}
    /\ published' = Append(published, s)
    /\ Deliver(s)
    /\ missed' = IF subscriber THEN missed ELSE missed \cup {s}
    /\ UNCHANGED <<linkVars, blocked, magics, threadVars, tableVars, intent,
                   executed, excused, late, handled, settingHistory, trouble>>

\* BLOCK_SIGNAL / ALLOW_SIGNAL, or a WORKER_SETTINGS_UPDATE: replies composed
\* before it are overtaken.
change_settings ==
    /\ Trouble
    /\ intent' = ~intent
    /\ Deliver(~intent)
    /\ pushMissed' = ~subscriber
    /\ superseded' = (superseded /\ ~(subscriber /\ \A t \in Threads : pc[t] # "settings"))
    /\ ack' = [t \in Threads |-> IF pc[t] = "settings" THEN [ack[t] EXCEPT !.stale = TRUE]
                                 ELSE ack[t]]
    /\ UNCHANGED <<linkVars, blocked, magics, pc, work, tableVars, published,
                   signalHistory>>

\* The subscriptions are live (again); _subscribed is never cleared.
subscribe ==
    /\ ~subscriber
    /\ subscriber' = TRUE /\ subscribed' = TRUE
    /\ UNCHANGED <<publisher, queue, blocked, magics, threadVars, tableVars, brokerVars,
                   signalHistory, settingHistory, trouble>>

\* NATSPublisher._on_reconnect starts a thread that announces the worker.
publisher_reconnects ==
    /\ ~publisher
    /\ publisher' = TRUE
    /\ \/ \E t \in Announcers : pc[t] = "off" /\ pc' = [pc EXCEPT ![t] = "announce"]
       \/ /\ \A t \in Announcers : pc[t] # "off"
          /\ \E t \in Announcers : pc[t] = "announce"
          /\ UNCHANGED pc
    /\ UNCHANGED <<subscriber, subscribed, queue, blocked, magics, ack, work, tableVars,
                   brokerVars, signalHistory, settingHistory, trouble>>

\* One of the connections, or both (the server restarts).
connection_lost ==
    /\ Trouble
    /\ subscriber' \in {FALSE, subscriber} /\ publisher' \in {FALSE, publisher}
    /\ <<subscriber', publisher'>> # <<subscriber, publisher>>
    /\ UNCHANGED <<subscribed, queue, blocked, magics, threadVars, tableVars, brokerVars,
                   signalHistory, settingHistory>>

-----------------------------------------------------------------------------
(* The WORKER_CONNECTED handshake, on the listener thread or an announcer's *)

Goto(t, step) == pc' = [pc EXCEPT ![t] = step]

\* Where the handshake of a thread ends.
Done(t) == IF t = Listener THEN "listen" ELSE "off"

\* What is kept of the pushed magic map: nothing parseable in a map that is not
\* empty counts as no map at all, never as an empty one.
_salvage_magic_map(raw) ==
    CASE raw = "mapped" -> TRUE
      [] raw = "without" -> FALSE
      [] raw \in {"garbled", "absent"} -> None

\* The request is answered: the reply carries the settings of now, unless they
\* do not parse, and the signals sent so far.  A timeout is retried for ever; the subscriptions are
\* waited for (10 s), then the worker is announced all the same.
_announce_worker_connected(t) ==
    /\ pc[t] = "announce" /\ publisher
    /\ \E raw \in {"mapped", "without", "garbled", "absent"}, b \in {intent, None} :
         /\ ack' = [ack EXCEPT ![t] = [blocked |-> b, stale |-> FALSE,
                                       magics |-> _salvage_magic_map(raw),
                                       retry |-> published]]
         /\ pushMissed' = (pushMissed /\ b = None)
         /\ IF subscribed /\ raw = "mapped" /\ b # None
            THEN UNCHANGED trouble ELSE Trouble
    /\ Goto(t, "settings")
    /\ missed' = {}
    /\ superseded' = (superseded \/ \E u \in Threads \ {t} : pc[u] = "settings" /\ ack[u].stale)
    /\ UNCHANGED <<linkVars, queue, blocked, magics, work, tableVars, brokerVars,
                   executed, excused, late, handled>>

\* WORKER_CONNECTED_ERROR, a reply that does not parse or has a broken envelope:
\* logged, nothing is applied.
handshake_refused(t) ==
    /\ pc[t] = "announce" /\ publisher
    /\ Trouble
    /\ Goto(t, Done(t))
    /\ UNCHANGED <<linkVars, queue, blocked, magics, ack, work, tableVars, brokerVars,
                   signalHistory, settingHistory>>

Pushes == {i \in DOMAIN queue : queue[i] \in BOOLEAN}

\* b is the newest push that is still queued.
LastPush(b) == \E i \in Pushes : queue[i] = b /\ \A j \in Pushes : j <= i

\* The setting of a reply crosses a push: a reconnect's reply that was overtaken
\* by one, or any reply that an older one, still queued, will undo.
Crossed(t) ==
    /\ ack[t].blocked # None
    /\ IF ack[t].stale THEN t # Listener
       ELSE Pushes # {} /\ ~LastPush(ack[t].blocked)

\* A section that has been applied is not looked at again.
Applied(t, rest) == ack' = [ack EXCEPT ![t] = rest]

\* Mutation: settings are restored by the start-up handshake only.
_apply_first_settings(t) ==
    /\ pc[t] = "settings"
    /\ blocked' = IF t = Listener /\ ack[t].blocked # None THEN ack[t].blocked ELSE blocked
    /\ superseded' = (superseded \/ Crossed(t))
    /\ Applied(t, [ack[t] EXCEPT !.blocked = None, !.stale = FALSE])
    /\ Goto(t, "magics")
    /\ UNCHANGED <<linkVars, queue, magics, work, tableVars, brokerVars, signalHistory,
                   pushMissed, trouble>>

\* _apply_worker_settings: whatever the reply says, a push applied since or not.
_apply_worker_settings(t) ==
    /\ pc[t] = "settings"
    /\ blocked' = IF ack[t].blocked = None THEN blocked ELSE ack[t].blocked
    /\ superseded' = (superseded \/ Crossed(t))
    /\ Applied(t, [ack[t] EXCEPT !.blocked = None, !.stale = FALSE])
    /\ Goto(t, "magics")
    /\ UNCHANGED <<linkVars, queue, magics, work, tableVars, brokerVars, signalHistory,
                   pushMissed, trouble>>

\* A map without the strategy clears it, an absent map leaves what there is.
_apply_strategy_magic_map(t) ==
    /\ pc[t] = "magics"
    /\ magics' = IF ack[t].magics = None THEN magics ELSE ack[t].magics
    /\ Applied(t, [ack[t] EXCEPT !.magics = None])
    /\ Goto(t, "gate")
    /\ UNCHANGED <<linkVars, queue, blocked, work, tableVars, brokerVars,
                   signalHistory, settingHistory, trouble>>

\* _replay_blocked_reason: without a magic map the whole batch is skipped.
_replay_blocked_reason(t) ==
    /\ pc[t] = "gate"
    /\ IF magics
       THEN Goto(t, "replay") /\ UNCHANGED <<ack, handled>>
       ELSE /\ Goto(t, Done(t))
            /\ handled' = handled \cup {ack[t].retry[i] : i \in DOMAIN ack[t].retry}
            /\ ack' = [ack EXCEPT ![t] = NoReply]
    /\ UNCHANGED <<linkVars, queue, blocked, magics, work, tableVars, brokerVars,
                   executed, excused, late, missed, settingHistory, trouble>>

\* Another thread is executing s.
Held(t, s) == \E u \in Threads \ {t} : work[u] # None /\ work[u].signal = s

Excuse(s) == excused' = [excused EXCEPT ![s] = @ + 1]

\* Thread t begins to execute s.
TakeUp(t, s) ==
    /\ work' = [work EXCEPT ![t] = [signal |-> s, step |-> "gate"]]
    /\ IF Held(t, s) THEN Excuse(s) ELSE UNCHANGED excused

Replaying(t) == pc[t] = "replay" /\ work[t] = None /\ ack[t].retry # <<>>
NextReplay(t) == ack' = [ack EXCEPT ![t].retry = Tail(@)]

\* Mutation: the deduplication is left to the live path.
NotSeen(s) == FALSE

\* signal_exists
signal_exists(s) == s \in logged

\* _apply_retry_signals, one signal: skipped if seen or too old; a failed lookup
\* counts as seen.
_apply_retry_signals(t) ==
    LET s == Head(ack[t].retry) IN
    /\ Replaying(t)
    /\ NextReplay(t)
    /\ \/ /\ handled' = handled \cup {s}
          /\ UNCHANGED <<work, excused>>
       \/ /\ ~signal_exists(s)
          /\ TakeUp(t, s)
          /\ UNCHANGED handled
    /\ UNCHANGED <<linkVars, queue, blocked, magics, pc, tableVars, brokerVars,
                   executed, late, missed, settingHistory, trouble>>

handshake_done(t) ==
    /\ pc[t] = "replay" /\ work[t] = None /\ ack[t].retry = <<>>
    /\ Goto(t, Done(t))
    /\ ack' = [ack EXCEPT ![t] = NoReply]
    /\ UNCHANGED <<linkVars, queue, blocked, magics, work, tableVars, brokerVars,
                   signalHistory, settingHistory, trouble>>

-----------------------------------------------------------------------------
(* run() and _process_message, on the listener thread *)

Listening == pc[Listener] = "listen" /\ work[Listener] = None /\ queue # <<>>

\* A pushed setting, through the very same setter.
_set_signals_blocked ==
    /\ Listening
    /\ Head(queue) \in BOOLEAN
    /\ queue' = Tail(queue)
    /\ blocked' = Head(queue)
    /\ UNCHANGED <<linkVars, magics, threadVars, tableVars, brokerVars, signalHistory,
                   settingHistory, trouble>>

\* A live signal: no deduplication.  Without the platform it is dropped.
_process_message ==
    /\ Listening
    /\ Head(queue) \in Signals
    /\ queue' = Tail(queue)
    /\ \/ /\ TakeUp(Listener, Head(queue))
          /\ late' = IF executed[Head(queue)] > 0 THEN late \cup {Head(queue)} ELSE late
          /\ UNCHANGED <<handled, trouble>>
       \/ /\ Trouble
          /\ handled' = handled \cup {Head(queue)}
          /\ UNCHANGED <<work, excused, late>>
    /\ UNCHANGED <<linkVars, blocked, magics, pc, ack, tableVars, brokerVars,
                   executed, missed, settingHistory>>

-----------------------------------------------------------------------------
(* _process_signal, on either thread *)

At(t, step) == work[t] # None /\ work[t].step = step
Advance(t, step) == work' = [work EXCEPT ![t].step = step]

\* The signal is decided, whatever became of it.
Finish(t) ==
    /\ work' = [work EXCEPT ![t] = None]
    /\ handled' = handled \cup {work[t].signal}

\* Mutation: a failing signal ends the batch.
RaisedEndsBatch(t) ==
    /\ work' = [work EXCEPT ![t] = None]
    /\ handled' = handled \cup {work[t].signal}
    /\ ack' = [ack EXCEPT ![t].retry = <<>>]

\* An exception leaves _process_signal: the listener goes on with the next
\* message, the replay with the next signal.
Raised(t) == Finish(t) /\ UNCHANGED ack

\* The block, then _magic_for: a skipped signal leaves no trace.
signal_gate(t) ==
    /\ At(t, "gate")
    /\ IF blocked \/ ~magics
       THEN Finish(t)
       ELSE /\ Advance(t, IF work[t].signal \in Entries THEN "guards" ELSE "handle")
            /\ UNCHANGED handled
    /\ UNCHANGED <<linkVars, queue, blocked, magics, pc, ack, tableVars, brokerVars,
                   executed, excused, late, missed, settingHistory, trouble>>

\* Mutation: the copy of a signal that was replayed passes the guards.
OpenOrderOnSymbolIgnored == FALSE

\* symbol_open_rejection
OpenOrderOnSymbol == open # {}

\* _entry_rejection and _reject_signal: a rejected entry is written to
\* position_logs; any entry may run into the order cap or the staleness guard.
\* A failed read finds no open order.
entry_guards(t) ==
    /\ At(t, "guards")
    /\ \/ /\ Finish(t)
          /\ logged' = logged \cup {work[t].signal}
          /\ UNCHANGED <<excused, trouble>>
       \/ /\ ~OpenOrderOnSymbol
          /\ Advance(t, "handle")
          /\ UNCHANGED <<logged, handled, excused, trouble>>
       \/ /\ Trouble
          /\ Advance(t, "handle")
          /\ Excuse(work[t].signal)
          /\ UNCHANGED <<logged, handled>>
    /\ UNCHANGED <<linkVars, queue, blocked, magics, pc, ack, open, brokerVars,
                   executed, late, missed, settingHistory>>

\* handler.handle: the broker filled the order, refused it (logged as such), or
\* the call raised.
handle_filled(t) ==
    /\ At(t, "handle")
    /\ executed' = [executed EXCEPT ![work[t].signal] = @ + 1]
    /\ Advance(t, "log")
    /\ UNCHANGED <<linkVars, queue, blocked, magics, pc, ack, tableVars, brokerVars,
                   excused, late, missed, handled, settingHistory, trouble>>

handle_refused(t) ==
    /\ At(t, "handle")
    /\ Finish(t)
    /\ logged' = logged \cup {work[t].signal}
    /\ UNCHANGED <<linkVars, queue, blocked, magics, pc, ack, open, brokerVars,
                   executed, excused, late, missed, settingHistory, trouble>>

handle_raised(t) ==
    /\ At(t, "handle")
    /\ Raised(t)
    /\ Trouble
    /\ UNCHANGED <<linkVars, queue, blocked, magics, pc, tableVars, brokerVars,
                   executed, excused, late, missed, settingHistory>>

\* log_position: a failed write is logged and lost.
log_position(t) ==
    /\ At(t, "log")
    /\ Advance(t, "persist")
    /\ \/ /\ logged' = logged \cup {work[t].signal}
          /\ UNCHANGED <<excused, trouble>>
       \/ /\ Trouble
          /\ Excuse(work[t].signal)
          /\ UNCHANGED logged
    /\ UNCHANGED <<linkVars, queue, blocked, magics, pc, ack, open, brokerVars,
                   executed, late, missed, handled, settingHistory>>

\* _persist_success of an entry looks the magic up again: it raises when a
\* reconnect's map has dropped the strategy since, and no row is written.
insert_position(t) ==
    /\ At(t, "persist") /\ work[t].signal \in Entries
    /\ IF magics THEN Finish(t) /\ UNCHANGED ack ELSE Raised(t)
    /\ \/ /\ open' = IF magics THEN open \cup {work[t].signal} ELSE open
          /\ UNCHANGED trouble
       \/ magics /\ Trouble /\ UNCHANGED open
    /\ UNCHANGED <<linkVars, queue, blocked, magics, pc, logged, brokerVars,
                   executed, excused, late, missed, settingHistory>>

\* update_position_status: a full close, a TP1 (the row stays active), or a
\* failed write.
update_position_status(t) ==
    /\ At(t, "persist") /\ work[t].signal \in Exits
    /\ Finish(t)
    /\ open' \in {{}, open}
    /\ UNCHANGED <<linkVars, queue, blocked, magics, pc, ack, logged, brokerVars,
                   executed, excused, late, missed, settingHistory, trouble>>

-----------------------------------------------------------------------------
\* The process dies and is started again: settings, queue and threads are gone;
\* what was not decided has to come with the next reply.
Crash ==
    /\ Trouble
    /\ subscriber' = FALSE /\ publisher' = TRUE /\ subscribed' = FALSE
    /\ queue' = <<>> /\ blocked' = FALSE /\ magics' = FALSE
    /\ pc' = [t \in Threads |-> IF t = Listener THEN "announce" ELSE "off"]
    /\ ack' = [t \in Threads |-> NoReply]
    /\ work' = [t \in Threads |-> None]
    /\ excused' = [s \in Signals |-> excused[s] +
                     Cardinality({t \in Threads : At(t, "log") /\ work[t].signal = s})]
    /\ missed' = Sent \ handled
    /\ pushMissed' = TRUE /\ superseded' = FALSE
    /\ UNCHANGED <<tableVars, brokerVars, executed, late, handled>>

Handshake(t) ==
    \/ _apply_worker_settings(t)
    \/ _apply_strategy_magic_map(t)
    \/ _replay_blocked_reason(t)
    \/ _apply_retry_signals(t)
    \/ handshake_done(t)

ProcessSignal(t) ==
    \/ signal_gate(t)
    \/ entry_guards(t)
    \/ handle_filled(t) \/ handle_refused(t) \/ handle_raised(t)
    \/ log_position(t)
    \/ insert_position(t) \/ update_position_status(t)

Listen == _set_signals_blocked \/ _process_message

Next ==
    \/ \E s \in Signals : publish_signal(s)
    \/ change_settings
    \/ subscribe \/ publisher_reconnects \/ connection_lost
    \/ \E t \in Threads :
         \/ _announce_worker_connected(t) \/ handshake_refused(t)
         \/ Handshake(t)
         \/ ProcessSignal(t)
    \/ Listen
    \/ Crash

Spec == Init /\ [][Next]_vars

\* NatsClient reconnects for ever, a refused or unanswered request is repeated,
\* every thread goes on.
FairSpec ==
    /\ Spec
    /\ WF_vars(subscribe) /\ WF_vars(publisher_reconnects)
    /\ \A t \in Threads : WF_vars(_announce_worker_connected(t))
                          /\ WF_vars(Handshake(t)) /\ WF_vars(ProcessSignal(t))
    /\ WF_vars(Listen)

-----------------------------------------------------------------------------
(* Properties *)

\* The broker fills a signal a second time only when two threads held it at
\* once, its trace in position_logs was lost (failed write, crash before it),
\* or its live copy was still queued when the replay executed it: the replay
\* itself never repeats what position_logs knows (signal_exists).
ExecutedOnce ==
    \A s \in Signals :
        executed[s] <= 1 + excused[s] + (IF s \in late THEN 1 ELSE 0)

\* While the row of an entry is active, no further copy of it reaches the
\* broker, neither the live one after the replay nor the other way round, unless
\* two threads held it at once or a read or write failed.
OpenTradeNotReentered ==
    [][\A s \in Entries :
          s \in open /\ executed'[s] > executed[s] => excused[s] > 0]_vars

\* Every signal is decided in the end (executed, refused, or skipped for a
\* reason) through outages and restarts, except one sent while the subscription
\* was down when no handshake followed: only the publisher's reconnect starts one.
EventuallyHandled == <>[](Sent \ missed \subseteq handled)

\* No signal leaves the worker undecided: each one sent is queued, held by a
\* thread, in a replay that a thread has before it, decided, or was sent while the
\* subscription was down and is in no reply since; whatever raises, is refused,
\* reconnects or restarts in between (run, _apply_retry_signals,
\* _announce_worker_connected).
SignalsAccounted ==
    \A s \in Sent :
        \/ s \in handled \cup missed \cup Queued
        \/ \E t \in Threads :
             \/ work[t] # None /\ work[t].signal = s
             \/ \E i \in DOMAIN ack[t].retry : ack[t].retry[i] = s

\* The operator's block is in force, is the newest push in the queue, or is in a
\* reply about to be applied, unless its push was missed and no reply followed, or
\* a reply crossed a push or the reply of another handshake
\* (_set_signals_blocked, _apply_worker_settings).
SettingNotLost ==
    \/ pushMissed \/ superseded
    \/ Pushes = {} /\ blocked = intent
    \/ LastPush(intent)
    \/ \E t \in Threads : pc[t] = "settings" /\ ~ack[t].stale /\ ack[t].blocked = intent

\* What reaches the worker is never lost on its way through the queue, the replay
\* and the handshakes: neither a signal nor a setting.
NothingLost == SignalsAccounted /\ SettingNotLost

\* The block converges to what the operator last set, through restarts and lost
\* pushes, except where a reply crossed a push or the reply of another handshake.
SettingsConverge == <>[](blocked = intent \/ pushMissed \/ superseded)

=============================================================================
