------------------------- MODULE NotificationOutbox -------------------------
(***************************************************************************)
(* The notification outbox: WorkerContext._build_enqueue and               *)
(* OutboxNotifier insert rows (worker/context.py,                          *)
(* worker/services/notification_service.py), NotificationJob polls them    *)
(* and sends them to every configured chat (worker/jobs/                   *)
(* notification_job.py), NotificationOutboxRepository keeps the attempts   *)
(* (worker/db/repository.py).                                              *)
(*                                                                         *)
(* Several dispatchers may poll one table: a worker thread that was        *)
(* restarted by the watchdog leaves its NotificationJob behind (module     *)
(* Supervision).  Both channels behave alike, so one stands for them.      *)
(***************************************************************************)
EXTENDS Naturals, FiniteSets

CONSTANTS
    MaxMessage,   \* messages are numbered 1..MaxMessage, by row id
    MaxTarget,    \* chats and topics of the channel are numbered 1..MaxTarget
    Dispatchers,  \* NotificationJob threads
    Idle,         \* a dispatcher between two rows
    MaxAttempts,  \* max_attempts of a row
    BatchLimit,   \* LIMIT of get_due_notifications
    MaxFaults     \* bound: failed writes and crashes

Messages == 1..MaxMessage
Targets == 1..MaxTarget

ASSUME OutboxBounds ==
    /\ MaxMessage \in Nat /\ MaxTarget \in Nat \ {0} /\ MaxAttempts \in Nat \ {0}
    /\ BatchLimit \in Nat \ {0} /\ MaxFaults \in Nat
    /\ IsFiniteSet(Dispatchers)

VARIABLES
    row,       \* the notifications table
    batch,     \* per dispatcher: rows it has fetched and not handled yet
    sending,   \* per dispatcher: the row it is sending, or Idle
    shown,     \* Telegram: copies of a message in a chat: none, one, or 2 for more
    excused,   \* history: messages with a reason for a further copy
    faults

vars == <<row, batch, sending, shown, excused, faults>>

-----------------------------------------------------------------------------
Row == [state: {"none", "stored", "deleted"}, verbose: BOOLEAN,
        attempts: 0..(MaxAttempts + Cardinality(Dispatchers) - 1), waiting: BOOLEAN]

Sending == [message: Messages, left: SUBSET Targets, success: BOOLEAN]

ASSUME IdleAssumption == Idle \notin Sending

TypeOK ==
    /\ row \in [Messages -> Row]
    /\ batch \in [Dispatchers -> SUBSET Messages]
    /\ sending \in [Dispatchers -> Sending \cup {Idle}]
    /\ shown \in [Messages -> [Targets -> 0..2]]
    /\ excused \subseteq Messages
    /\ faults \in 0..MaxFaults

Init ==
    /\ row = [m \in Messages |-> [state |-> "none", verbose |-> TRUE,
                                  attempts |-> 0, waiting |-> FALSE]]
    /\ batch = [d \in Dispatchers |-> {}]
    /\ sending = [d \in Dispatchers |-> Idle]
    /\ shown = [m \in Messages |-> [t \in Targets |-> 0]]
    /\ excused = {}
    /\ faults = 0

Fault ==
    /\ faults < MaxFaults
    /\ faults' = faults + 1

Excuse(m) == excused' = excused \cup {m}

-----------------------------------------------------------------------------
(* The enqueueing side *)

\* enqueue: individual messages are VERBOSE, community ones carry the
\* notification mode.  A failed INSERT is logged and the message is not stored.
enqueue_notification(m) ==
    /\ row[m].state = "none"
    /\ \A k \in 1..(m - 1) : row[k].state # "none"
    /\ \E v \in BOOLEAN : row' = [row EXCEPT ![m].state = "stored", ![m].verbose = v]
    /\ UNCHANGED <<batch, sending, shown, excused, faults>>

-----------------------------------------------------------------------------
(* NotificationJob *)

\* The WHERE clause of get_due_notifications.
IsDue(m) ==
    /\ row[m].state = "stored" /\ row[m].verbose
    /\ row[m].attempts < MaxAttempts
    /\ ~row[m].waiting

\* ORDER BY id LIMIT ?
FirstDue == {m \in Messages :
    IsDue(m) /\ Cardinality({k \in Messages : k < m /\ IsDue(k)}) < BatchLimit}

\* Another dispatcher has fetched m and not retired it yet.
InFlight(d, m) ==
    \E e \in Dispatchers \ {d} :
        m \in batch[e] \/ (sending[e] # Idle /\ sending[e].message = m)

\* _poll reads the due rows; a failed SELECT answers none.
get_due_notifications(d) ==
    /\ batch[d] = {} /\ sending[d] = Idle
    /\ FirstDue # {}
    /\ batch' = [batch EXCEPT ![d] = FirstDue]
    /\ excused' = excused \cup {m \in FirstDue : InFlight(d, m)}
    /\ UNCHANGED <<row, sending, shown, faults>>

next_row(d) ==
    /\ sending[d] = Idle
    /\ \E m \in batch[d] :
         /\ \A k \in batch[d] : m <= k
         /\ batch' = [batch EXCEPT ![d] = @ \ {m}]
         /\ sending' = [sending EXCEPT ![d] = [message |-> m, left |-> Targets,
                                               success |-> TRUE]]
    /\ UNCHANGED <<row, shown, excused, faults>>

\* Mutation: the last target's answer decides.
LastAnswer(success, answer) == answer

\* success = False stays: True only when all of them took the message.
AllAnswers(success, answer) == success /\ answer

Answered(d, t, answer) ==
    LET old == sending[d] IN
    /\ old # Idle /\ t \in old.left
    /\ \A u \in old.left : t <= u
    /\ sending' = [sending EXCEPT
                     ![d] = [message |-> old.message, left |-> old.left \ {t},
                             success |-> AllAnswers(old.success, answer)]]
    /\ UNCHANGED <<row, batch, faults>>

Post(m, t) == shown' = [shown EXCEPT ![m][t] = IF @ < 2 THEN @ + 1 ELSE @]

\* TelegramNotification.send_message, one target: the chat took it.
send_message(d, t) ==
    /\ Answered(d, t, TRUE)
    /\ Post(sending[d].message, t)
    /\ UNCHANGED excused

\* Refused, unreachable, or taken with the answer lost: the other targets are
\* still tried.
send_message_failed(d, t) ==
    /\ Answered(d, t, FALSE)
    /\ Excuse(sending[d].message)
    /\ UNCHANGED shown \/ Post(sending[d].message, t)

RowHandled(d) ==
    /\ sending[d] # Idle /\ sending[d].left = {}
    /\ sending' = [sending EXCEPT ![d] = Idle]
    /\ UNCHANGED <<batch, shown>>

\* Mutation: a delivered row is kept for another attempt.
keep_notification(d) ==
    /\ RowHandled(d)
    /\ sending[d].success
    /\ row' = [row EXCEPT ![sending[d].message].attempts = @ + 1]
    /\ UNCHANGED <<excused, faults>>

delete_notification(d) ==
    /\ RowHandled(d)
    /\ sending[d].success
    /\ row' = [row EXCEPT ![sending[d].message].state = "deleted"]
    /\ UNCHANGED <<excused, faults>>

\* Mutation: the backoff is set, the attempt is not counted.
mark_notification_waiting(d) ==
    LET m == sending[d].message IN
    /\ RowHandled(d)
    /\ ~sending[d].success
    /\ row' = [row EXCEPT ![m].waiting = TRUE]
    /\ UNCHANGED <<excused, faults>>

\* An UPDATE of a row another dispatcher has deleted changes nothing.
mark_notification_failed(d) ==
    LET m == sending[d].message IN
    /\ RowHandled(d)
    /\ ~sending[d].success
    /\ row' = IF row[m].state = "stored"
              THEN [row EXCEPT ![m].attempts = @ + 1, ![m].waiting = TRUE]
              ELSE row
    /\ UNCHANGED <<excused, faults>>

\* The DELETE or the UPDATE raises: logged, the row stays due.
write_failed(d) ==
    /\ RowHandled(d)
    /\ Fault
    /\ Excuse(sending[d].message)
    /\ UNCHANGED row

-----------------------------------------------------------------------------
(* Environment *)

BackoffElapsed(m) ==
    /\ row[m].waiting
    /\ row' = [row EXCEPT ![m].waiting = FALSE]
    /\ UNCHANGED <<batch, sending, shown, excused, faults>>

\* The process dies between any two steps; the table and Telegram survive.
Crash ==
    /\ Fault
    /\ batch' = [d \in Dispatchers |-> {}]
    /\ sending' = [d \in Dispatchers |-> Idle]
    /\ excused' = excused \cup {sending[d].message : d \in {e \in Dispatchers : sending[e] # Idle}}
    /\ UNCHANGED <<row, shown>>

Poll(d) ==
    \/ get_due_notifications(d)
    \/ next_row(d)
    \/ \E t \in Targets : send_message(d, t) \/ send_message_failed(d, t)
    \/ delete_notification(d)
    \/ mark_notification_failed(d)

Next ==
    \/ \E m \in Messages : enqueue_notification(m) \/ BackoffElapsed(m)
    \/ \E d \in Dispatchers : Poll(d) \/ write_failed(d)
    \/ Crash

Spec == Init /\ [][Next]_vars

\* The job polls for ever, time passes.
FairSpec ==
    /\ Spec
    /\ \A d \in Dispatchers : WF_vars(Poll(d))
    /\ \A m \in Messages : WF_vars(BackoffElapsed(m))

-----------------------------------------------------------------------------
(* Properties *)

\* The status of a message, as the mailbox sees it.
StatusOf(m) ==
    CASE row[m].state = "none" -> "unsent"
      [] row[m].state = "deleted" -> "done"
      [] row[m].state = "stored" /\ ~row[m].verbose -> "muted"
      [] row[m].state = "stored" /\ row[m].verbose ->
           IF row[m].attempts < MaxAttempts THEN "queued" ELSE "dead"

SeenBy(m) == {t \in Targets : shown[m][t] > 0}

M == INSTANCE Mailbox WITH
    status <- [m \in Messages |-> StatusOf(m)],
    seen <- [m \in Messages |-> SeenBy(m)]

\* The outbox implements the mailbox ("Success: DELETE the row", "Failure:
\* increment attempts", "Dead: left in place"): whatever fails, crashes or runs
\* twice, a row is deleted only after every target took the message, attempts
\* alone give it up, and a muted row is never sent.
ImplementsMailbox == M!Spec

\* Every row that is to be sent is deleted or ends as a dead letter.
MailboxSettles == M!Settles

\* A chat gets a message again only when a target failed (the whole row is sent
\* again to all), a write failed, the process died while sending, or two
\* dispatchers had fetched it.
NoNeedlessCopy ==
    \A m \in Messages, t \in Targets : shown[m][t] > 1 => m \in excused

=============================================================================
