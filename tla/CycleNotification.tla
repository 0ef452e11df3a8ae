------------------------- MODULE CycleNotification -------------------------
(***************************************************************************)
(* The one-message-per-trade Telegram notification of one signal cycle:    *)
(* CycleNotifier.record (worker/services/cycle_notification_service.py)    *)
(* writes the timeline and the rendered body into SQLite,                  *)
(* CycleNotificationJob (worker/jobs/cycle_notification_job.py) brings the *)
(* message of every chat up to date, both through                          *)
(* NotificationCycleRepository (worker/db/repository.py).                  *)
(*                                                                         *)
(* Several threads record actions of the same trade (listener, exchange    *)
(* stream, reconciler): record is three transactions, and other threads    *)
(* run between them.  A body is identified by the revision it was rendered *)
(* for.  Cycles share no state, so one cycle stands for all of them.       *)
(***************************************************************************)
EXTENDS Naturals

CONSTANTS
    Writers,       \* threads that record actions of this trade
    Chats,         \* chat ids that may be configured
    Actions,       \* statuses the recorded actions carry
    Idle,          \* a writer that is not inside record / the job between rows
    MaxRevision,   \* bound: recorded actions
    MaxAttempts,   \* max_attempts of a delivery row
    MaxFaults,     \* bound: failed writes, failed or lost Telegram answers
    MaxDeletions,  \* bound: cycle messages deleted by the chat's members
    MaxCrashes     \* bound: crashes of the worker process

ASSUME CycleBounds ==
    /\ MaxRevision \in Nat /\ MaxAttempts \in Nat
    /\ MaxFaults \in Nat /\ MaxDeletions \in Nat /\ MaxCrashes \in Nat

VARIABLES
    revision,    \* notification_cycles.revision (0: no cycle row yet)
    status,      \* notification_cycles.status
    text,        \* revision message_text was rendered for (0: NULL)
    writer,      \* per thread: the revision record is rendering, or Idle
    stored,      \* per thread: set_message_text is done, chats are next
    chatIds,     \* chat ids of this process's configuration
    row,         \* notification_cycle_chats, one row per chat
    batch,       \* due rows the job has fetched and not handled yet
    job,         \* the Telegram answer the job has yet to write down, or Idle
    message,     \* Telegram: per chat, the message row.message_id names
    posted,      \* Telegram: per chat, messages ever posted for the cycle
    recorded,    \* history: statuses ever folded into the cycle
    excused,     \* history: per chat, lost answers, failed marks, deletions
    faults, deletions, crashes

vars == <<revision, status, text, writer, stored, chatIds, row, batch, job,
          message,
          posted, recorded, excused, faults, deletions, crashes>>
cycleVars == <<revision, status, text, recorded>>
telegramVars == <<message, posted>>
boundVars == <<faults, deletions, crashes>>

-----------------------------------------------------------------------------
(* Types *)

Null == "NULL"

\* CycleStatusEnum
TERMINAL_STATUSES == {"TP2", "SL", "R_SL", "FLATTED", "FORCED_CLOSED",
                      "TERMINAL_CLOSED"}
NO_POSITION_STATUSES == {"FAILED", "REJECTED"}
Statuses == TERMINAL_STATUSES \cup NO_POSITION_STATUSES \cup {"OPENED", "TP1"}

ASSUME ActionsAssumption == Actions \subseteq Statuses \cup {Null}

Revisions == 0..MaxRevision

\* A delivery row.  waiting: next_attempt_at lies in the future.
DeliveryRow == [exists: BOOLEAN, message_id: BOOLEAN, delivered_revision: Revisions,
                attempts: 0..MaxAttempts, waiting: BOOLEAN]

\* What the job holds of a due row.
Due == [chat: Chats, message_id: BOOLEAN, revision: Revisions, text: Revisions]

\* An answered Telegram call whose outcome is not in the database yet.
Answer == [chat: Chats, outcome: {"SENT", "OK", "MISSING", "FAILED"},
           revision: Revisions]

\* The chat's message: the body it shows, and whether it can still be edited.
Messages == [live: BOOLEAN, body: Revisions]

ASSUME IdleAssumption == Idle \notin Revisions \cup Answer

TypeOK ==
    /\ revision \in Revisions
    /\ status \in Statuses \cup {Null}
    /\ text \in Revisions
    /\ writer \in [Writers -> Revisions \cup {Idle}]
    /\ stored \in [Writers -> BOOLEAN]
    /\ chatIds \in SUBSET Chats
    /\ row \in [Chats -> DeliveryRow]
    /\ batch \in SUBSET Due
    /\ job \in Answer \cup {Idle}
    /\ message \in [Chats -> Messages]
    /\ posted \in [Chats -> Nat]
    /\ recorded \in SUBSET Statuses
    /\ excused \in [Chats -> Nat]
    /\ faults \in 0..MaxFaults
    /\ deletions \in 0..MaxDeletions
    /\ crashes \in 0..MaxCrashes

Init ==
    /\ revision = 0
    /\ status = Null
    /\ text = 0
    /\ writer = [w \in Writers |-> Idle]
    /\ stored = [w \in Writers |-> FALSE]
    /\ chatIds \in SUBSET Chats \ {{}}
    /\ row = [c \in Chats |-> [exists |-> FALSE, message_id |-> FALSE,
                               delivered_revision |-> 0, attempts |-> 0,
                               waiting |-> FALSE]]
    /\ batch = {}
    /\ job = Idle
    /\ message = [c \in Chats |-> [live |-> FALSE, body |-> 0]]
    /\ posted = [c \in Chats |-> 0]
    /\ recorded = {}
    /\ excused = [c \in Chats |-> 0]
    /\ faults = 0 /\ deletions = 0 /\ crashes = 0

Fault ==
    /\ faults < MaxFaults
    /\ faults' = faults + 1
    /\ UNCHANGED <<deletions, crashes>>

-----------------------------------------------------------------------------
(* CycleNotifier.record *)

\* Mutation: a later action reopens the headline.
merge_status_last(current, incoming) ==
    IF incoming = Null THEN current
    ELSE IF incoming \in NO_POSITION_STATUSES
            /\ current \notin NO_POSITION_STATUSES \cup {Null}
         THEN current
    ELSE incoming

merge_status(current, incoming) ==
    IF incoming = Null THEN current
    ELSE IF current = Null THEN incoming
    ELSE IF current \in TERMINAL_STATUSES THEN current
    ELSE IF incoming \in NO_POSITION_STATUSES /\ current \notin NO_POSITION_STATUSES
         THEN current
    ELSE incoming

\* append_event: one IMMEDIATE transaction.  A failed one is rolled back, record
\* returns False and nothing of the cycle changes.
append_event(w, incoming) ==
    /\ writer[w] = Idle
    /\ revision < MaxRevision
    /\ revision' = revision + 1
    /\ status' = merge_status(status, incoming)
    /\ recorded' = IF incoming = Null THEN recorded ELSE recorded \cup {incoming}
    /\ writer' = [writer EXCEPT ![w] = revision + 1]
    /\ UNCHANGED <<text, stored, chatIds, row, batch, job, telegramVars, excused, boundVars>>

\* Mutation: the render stored whatever was recorded in the meantime.
RenderAlways(rendered) == TRUE

\* The guard of set_message_text: WHERE id = ? AND revision <= ?
RenderIsCurrent(rendered) == revision <= rendered

\* set_message_text: UPDATE ... WHERE id = ? AND revision <= ?
set_message_text(w) ==
    /\ writer[w] # Idle /\ ~stored[w]
    /\ text' = IF RenderIsCurrent(writer[w]) THEN writer[w] ELSE text
    /\ stored' = [stored EXCEPT ![w] = TRUE]
    /\ UNCHANGED <<revision, status, recorded, writer, chatIds, row, batch,
                   job, telegramVars, excused, boundVars>>

\* The UPDATE raises: logged, record goes on.
set_message_text_failed(w) ==
    /\ writer[w] # Idle /\ ~stored[w]
    /\ stored' = [stored EXCEPT ![w] = TRUE]
    /\ Fault
    /\ UNCHANGED <<cycleVars, writer, chatIds, row, batch, job, telegramVars, excused>>

RecordReturns(w) ==
    /\ writer[w] # Idle /\ stored[w]
    /\ writer' = [writer EXCEPT ![w] = Idle]
    /\ stored' = [stored EXCEPT ![w] = FALSE]

\* INSERT OR IGNORE of one row per configured chat.
ensure_cycle_chats(w) ==
    /\ RecordReturns(w)
    /\ row' = [c \in Chats |-> IF c \in chatIds THEN [row[c] EXCEPT !.exists = TRUE]
                               ELSE row[c]]
    /\ UNCHANGED <<cycleVars, chatIds, batch, job, telegramVars, excused, boundVars>>

ensure_cycle_chats_failed(w) ==
    /\ RecordReturns(w)
    /\ Fault
    /\ UNCHANGED <<cycleVars, chatIds, row, batch, job, telegramVars, excused>>

-----------------------------------------------------------------------------
(* CycleNotificationJob *)

\* The WHERE clause of get_due_cycle_deliveries.
IsDue(c) ==
    /\ row[c].exists
    /\ row[c].delivered_revision < revision
    /\ text # 0
    /\ row[c].attempts < MaxAttempts
    /\ ~row[c].waiting

get_due_cycle_deliveries ==
    /\ batch = {} /\ job = Idle
    /\ \E c \in Chats : IsDue(c)
    /\ batch' = {[chat |-> c, message_id |-> row[c].message_id,
                  revision |-> revision, text |-> text] : c \in {x \in Chats : IsDue(x)}}
    /\ UNCHANGED <<cycleVars, writer, stored, chatIds, row, job, telegramVars,
                   excused, boundVars>>

\* The call for d came back with an outcome; the row is taken off the batch.
Answered(d, outcome) ==
    /\ job = Idle
    /\ batch' = batch \ {d}
    /\ job' = [chat |-> d.chat, outcome |-> outcome, revision |-> d.revision]
    /\ UNCHANGED <<cycleVars, writer, stored, chatIds, row>>

Post(d) == posted' = [posted EXCEPT ![d.chat] = @ + 1]
Excuse(c) == excused' = [excused EXCEPT ![c] = @ + 1]

\* _send, sender.send returned a message id.
send(d) ==
    /\ ~d.message_id
    /\ Answered(d, "SENT")
    /\ Post(d)
    /\ message' = [message EXCEPT ![d.chat] = [live |-> TRUE, body |-> d.text]]
    /\ UNCHANGED <<excused, boundVars>>

\* _send, sender.send returned None: refused, or posted with the answer lost.
send_failed(d) ==
    /\ ~d.message_id
    /\ Answered(d, "FAILED")
    /\ \/ UNCHANGED <<posted, excused>>
       \/ Post(d) /\ Excuse(d.chat)
    /\ Fault
    /\ UNCHANGED message

\* _edit, EditOutcome.OK.
edit(d) ==
    /\ d.message_id /\ message[d.chat].live
    /\ Answered(d, "OK")
    /\ message' = [message EXCEPT ![d.chat].body = d.text]
    /\ UNCHANGED <<posted, excused, boundVars>>

\* _edit, EditOutcome.MISSING: the message was deleted or is too old to edit.
edit_missing(d) ==
    /\ d.message_id /\ ~message[d.chat].live
    /\ Answered(d, "MISSING")
    /\ UNCHANGED <<telegramVars, excused, boundVars>>

\* _edit, EditOutcome.FAILED: refused, or applied with the answer lost.
edit_failed(d) ==
    /\ d.message_id
    /\ Answered(d, "FAILED")
    /\ \/ UNCHANGED message
       \/ /\ message[d.chat].live
          /\ message' = [message EXCEPT ![d.chat].body = d.text]
    /\ Fault
    /\ UNCHANGED <<posted, excused>>

JobWrites ==
    /\ job # Idle
    /\ job' = Idle
    /\ UNCHANGED <<cycleVars, writer, stored, chatIds, batch, telegramVars>>

\* A new id is stored, an edit keeps the one there is; MAX(delivered_revision, ?).
mark_cycle_delivered ==
    LET old == row[job.chat] IN
    /\ JobWrites
    /\ job.outcome \in {"SENT", "OK"}
    /\ row' = [row EXCEPT ![job.chat] =
                 [old EXCEPT !.message_id = old.message_id \/ (job.outcome = "SENT"),
                             !.delivered_revision = IF old.delivered_revision > job.revision
                                                    THEN old.delivered_revision
                                                    ELSE job.revision,
                             !.attempts = 0,
                             !.waiting = FALSE]]
    /\ UNCHANGED <<excused, boundVars>>

\* Mutation: the id of the missing message is kept.
keep_cycle_message_id ==
    /\ JobWrites
    /\ job.outcome = "MISSING"
    /\ UNCHANGED <<row, excused, boundVars>>

\* Forget the id; the row stays due and its attempts are not touched.
clear_cycle_message_id ==
    /\ JobWrites
    /\ job.outcome = "MISSING"
    /\ row' = [row EXCEPT ![job.chat].message_id = FALSE]
    /\ UNCHANGED <<excused, boundVars>>

\* Mutation: a failed edit also forgets the message id.
mark_failed_and_forget ==
    /\ JobWrites
    /\ job.outcome = "FAILED"
    /\ row' = [row EXCEPT ![job.chat].attempts = @ + 1, ![job.chat].waiting = TRUE,
                          ![job.chat].message_id = FALSE]
    /\ UNCHANGED <<excused, boundVars>>

\* _fail: attempts + 1 and a next_attempt_at in the future.
mark_cycle_delivery_failed ==
    /\ JobWrites
    /\ job.outcome = "FAILED"
    /\ row' = [row EXCEPT ![job.chat].attempts = @ + 1, ![job.chat].waiting = TRUE]
    /\ UNCHANGED <<excused, boundVars>>

\* Any of the three UPDATEs raises: logged, the loop goes on.
JobWriteFailed ==
    /\ JobWrites
    /\ IF job.outcome = "SENT" THEN Excuse(job.chat) ELSE UNCHANGED excused
    /\ Fault
    /\ UNCHANGED row

-----------------------------------------------------------------------------
(* Environment *)

BackoffElapsed(c) ==
    /\ row[c].waiting
    /\ row' = [row EXCEPT ![c].waiting = FALSE]
    /\ UNCHANGED <<cycleVars, writer, stored, chatIds, batch, job, telegramVars,
                   excused, boundVars>>

\* A member deletes the message, or it gets too old to edit.
MessageGone(c) ==
    /\ message[c].live
    /\ deletions < MaxDeletions
    /\ deletions' = deletions + 1
    /\ message' = [message EXCEPT ![c].live = FALSE]
    /\ Excuse(c)
    /\ UNCHANGED <<cycleVars, writer, stored, chatIds, row, batch, job, posted,
                   faults, crashes>>

\* The process dies between any two steps and is started again, possibly with
\* other chat ids: the tables and Telegram survive.
Crash ==
    /\ crashes < MaxCrashes
    /\ crashes' = crashes + 1
    /\ writer' = [w \in Writers |-> Idle]
    /\ stored' = [w \in Writers |-> FALSE]
    /\ batch' = {}
    /\ job' = Idle
    /\ IF job # Idle /\ job.outcome = "SENT" THEN Excuse(job.chat) ELSE UNCHANGED excused
    /\ chatIds' \in SUBSET Chats \ {{}}
    /\ UNCHANGED <<cycleVars, row, telegramVars, faults, deletions>>

-----------------------------------------------------------------------------
Record(w) ==
    \/ set_message_text(w)
    \/ ensure_cycle_chats(w)

JobStep ==
    \/ get_due_cycle_deliveries
    \/ \E d \in batch : send(d) \/ edit(d) \/ edit_missing(d)
    \/ mark_cycle_delivered
    \/ clear_cycle_message_id
    \/ mark_cycle_delivery_failed

Next ==
    \/ \E w \in Writers :
         \/ \E s \in Actions : append_event(w, s)
         \/ Record(w)
         \/ set_message_text_failed(w)
         \/ ensure_cycle_chats_failed(w)
    \/ JobStep
    \/ \E d \in batch : send_failed(d) \/ edit_failed(d)
    \/ JobWriteFailed
    \/ \E c \in Chats : BackoffElapsed(c) \/ MessageGone(c)
    \/ Crash

Spec == Init /\ [][Next]_vars

\* A thread inside record finishes it, the job polls for ever, time passes.
FairSpec ==
    /\ Spec
    /\ \A w \in Writers : WF_vars(Record(w))
    /\ WF_vars(JobStep)
    /\ \A c \in Chats : WF_vars(BackoffElapsed(c))

-----------------------------------------------------------------------------
(* Properties *)

\* "a slow edit can never overwrite a newer body with an older one"
\* (NotificationCycleRepository): whatever order the recording threads store
\* their renders in and the job delivers them, no chat's body goes back.
BodyNeverGoesBack ==
    [][\A c \in Chats : message'[c].body >= message[c].body]_vars

\* The headline tells the position: once an action closed the trade it stays
\* closed, and a refused action never hides what is known of the position,
\* whatever order the threads record their actions in (merge_status).
HeadlineTellsPosition ==
    /\ recorded \cap TERMINAL_STATUSES # {} => status \in TERMINAL_STATUSES
    /\ recorded \ NO_POSITION_STATUSES # {} => status \notin NO_POSITION_STATUSES \cup {Null}

\* One message per trade: a chat gets a second message only after its message
\* went away or a posted one could not be written down (lost answer, failed
\* UPDATE, crash before the id was stored); rate limits, retries and concurrent
\* actions alone never post twice.
OneMessagePerChat ==
    \A c \in Chats : posted[c] <= 1 + excused[c]

\* Every chat row catches up with the cycle or ends as a dead letter; only a
\* cycle whose body was never stored stays undelivered.
EventuallyDelivered ==
    <>[](\A c \in Chats : row[c].exists =>
            \/ row[c].delivered_revision = revision
            \/ row[c].attempts = MaxAttempts
            \/ text = 0)

=============================================================================
