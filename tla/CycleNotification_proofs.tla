----------------------- MODULE CycleNotification_proofs -----------------------
(***************************************************************************)
(* Cycle notifications, for any recording threads, any chats, any number   *)
(* of recorded actions, attempts, failures, deletions and crashes.         *)
(***************************************************************************)
EXTENDS CycleNotification, TLAPS

-----------------------------------------------------------------------------
(* What the delivery job holds *)

\* A fetched row still says what the table says of its chat, no chat is fetched
\* twice, and the chat whose answer is to be written down is not among them.
BatchIsCurrent ==
    /\ \A d \in batch : /\ d.message_id = row[d.chat].message_id
                        /\ row[d.chat].attempts < MaxAttempts
                        /\ job # Idle => job.chat # d.chat
    /\ \A d, e \in batch : d.chat = e.chat => d = e
    /\ job # Idle => row[job.chat].attempts < MaxAttempts

\* Nothing but the job changes what BatchIsCurrent looks at.
LEMMA BatchKept ==
    ASSUME TypeOK, BatchIsCurrent, batch' = batch, job' = job,
           \A c \in Chats : /\ row'[c].message_id = row[c].message_id
                            /\ row'[c].attempts = row[c].attempts
    PROVE  BatchIsCurrent'
BY DEF BatchIsCurrent, TypeOK, Due, Answer

\* The job's answer to d leaves the rest of the batch as it was.
LEMMA BatchAnswered ==
    ASSUME TypeOK, BatchIsCurrent, NEW d \in batch,
           NEW outcome \in {"SENT", "OK", "MISSING", "FAILED"}, Answered(d, outcome)
    PROVE  BatchIsCurrent'
<1>1. d \in Due
  BY DEF TypeOK
<1>2. job' \in Answer /\ job' # Idle /\ job'.chat = d.chat
  BY <1>1, IdleAssumption DEF Answered, Answer, Due
<1> QED
  BY <1>1, <1>2 DEF BatchIsCurrent, Answered

\* Writing the answer down touches its own chat's row only.
LEMMA BatchWritten ==
    ASSUME TypeOK, BatchIsCurrent, JobWrites,
           \A c \in Chats \ {job.chat} : row'[c] = row[c]
    PROVE  BatchIsCurrent'
BY DEF BatchIsCurrent, JobWrites, TypeOK, Due, Answer

LEMMA BatchStep == TypeOK /\ BatchIsCurrent /\ [Next]_vars => BatchIsCurrent'
<1> SUFFICES ASSUME TypeOK, BatchIsCurrent, [Next]_vars PROVE BatchIsCurrent'
  OBVIOUS
<1>1. ASSUME NEW w \in Writers, NEW s \in Actions, append_event(w, s) PROVE BatchIsCurrent'
  BY <1>1, BatchKept DEF append_event
<1>2. ASSUME NEW w \in Writers, Record(w) \/ set_message_text_failed(w)
                                          \/ ensure_cycle_chats_failed(w)
      PROVE  BatchIsCurrent'
  <2>1. CASE set_message_text(w) \/ set_message_text_failed(w) \/ ensure_cycle_chats_failed(w)
    BY <2>1, BatchKept
       DEF set_message_text, set_message_text_failed, ensure_cycle_chats_failed
  <2>2. CASE ensure_cycle_chats(w)
    BY <2>2, BatchKept DEF ensure_cycle_chats, TypeOK, DeliveryRow
  <2> QED
    BY <1>2, <2>1, <2>2 DEF Record
<1>3. CASE get_due_cycle_deliveries
  BY <1>3 DEF get_due_cycle_deliveries, BatchIsCurrent, IsDue
<1>4. ASSUME NEW d \in batch,
             send(d) \/ edit(d) \/ edit_missing(d) \/ send_failed(d) \/ edit_failed(d)
      PROVE  BatchIsCurrent'
  BY <1>4, BatchAnswered DEF send, edit, edit_missing, send_failed, edit_failed
<1>5. CASE mark_cycle_delivered \/ clear_cycle_message_id \/ mark_cycle_delivery_failed
           \/ JobWriteFailed
  <2>1. JobWrites /\ \A c \in Chats \ {job.chat} : row'[c] = row[c]
    BY <1>5 DEF mark_cycle_delivered, clear_cycle_message_id, mark_cycle_delivery_failed,
                JobWriteFailed, JobWrites, TypeOK
  <2> QED
    BY <2>1, BatchWritten
<1>6. ASSUME NEW c \in Chats, BackoffElapsed(c) \/ MessageGone(c) PROVE BatchIsCurrent'
  BY <1>6, BatchKept DEF BackoffElapsed, MessageGone, TypeOK, DeliveryRow
<1>7. CASE Crash
  BY <1>7 DEF Crash, BatchIsCurrent
<1>8. CASE UNCHANGED vars
  BY <1>8, BatchKept DEF vars
<1> QED
  BY <1>1, <1>2, <1>3, <1>4, <1>5, <1>6, <1>7, <1>8 DEF Next, JobStep

-----------------------------------------------------------------------------
(* Type correctness *)

\* What the statements of the job write into a chat's row.
LEMMA RowWritten ==
    ASSUME NEW f \in DeliveryRow
    PROVE  /\ \A id \in BOOLEAN : [f EXCEPT !.message_id = id] \in DeliveryRow
           /\ \A v \in BOOLEAN : [f EXCEPT !.waiting = v] \in DeliveryRow
           /\ \A n \in 0..MaxAttempts : [f EXCEPT !.attempts = n] \in DeliveryRow
           /\ \A r \in Revisions : [f EXCEPT !.delivered_revision = r] \in DeliveryRow
<1>1. ASSUME NEW id \in BOOLEAN PROVE [f EXCEPT !.message_id = id] \in DeliveryRow
  BY DEF DeliveryRow
<1>2. ASSUME NEW v \in BOOLEAN PROVE [f EXCEPT !.waiting = v] \in DeliveryRow
  BY DEF DeliveryRow
<1>3. ASSUME NEW n \in 0..MaxAttempts PROVE [f EXCEPT !.attempts = n] \in DeliveryRow
  BY DEF DeliveryRow
<1>4. ASSUME NEW r \in Revisions PROVE [f EXCEPT !.delivered_revision = r] \in DeliveryRow
  BY DEF DeliveryRow
<1> QED
  BY <1>1, <1>2, <1>3, <1>4

\* A successful delivery resets the attempts.
LEMMA RowDelivered ==
    ASSUME NEW f \in DeliveryRow, NEW r \in Revisions, NEW id \in BOOLEAN
    PROVE  [f EXCEPT !.message_id = id, !.delivered_revision = r, !.attempts = 0,
                     !.waiting = FALSE] \in DeliveryRow
<1> DEFINE g == [f EXCEPT !.message_id = id]
           h == [g EXCEPT !.delivered_revision = r]
           k == [h EXCEPT !.attempts = 0]
<1>1. g \in DeliveryRow
  BY RowWritten
<1>2. h \in DeliveryRow
  <2> HIDE DEF g
  <2> QED
    BY <1>1, RowWritten
<1>3. k \in DeliveryRow
  <2>1. 0 \in 0..MaxAttempts
    BY CycleBounds
  <2> HIDE DEF h
  <2> QED
    BY <1>2, <2>1, RowWritten
<1>4. [k EXCEPT !.waiting = FALSE] \in DeliveryRow
  <2> HIDE DEF k
  <2> QED
    BY <1>3, RowWritten
<1> QED
  BY <1>4

\* No step leaves the types; the attempts of a row stay within their limit
\* because only a due row is attempted.
LEMMA TypeStep == TypeOK /\ BatchIsCurrent /\ [Next]_vars => TypeOK'
<1> SUFFICES ASSUME TypeOK, BatchIsCurrent, [Next]_vars PROVE TypeOK'
  OBVIOUS
<1> USE CycleBounds, IdleAssumption
<1> USE DEF TypeOK, cycleVars, telegramVars, boundVars, Revisions, Fault
<1>1. ASSUME NEW w \in Writers, NEW s \in Actions, append_event(w, s) PROVE TypeOK'
  <2>1. s \in Statuses \cup {Null}
    BY ActionsAssumption
  <2>2. status' \in Statuses \cup {Null} /\ recorded' \in SUBSET Statuses
    BY <1>1, <2>1 DEF append_event, merge_status
  <2>3. revision' \in Revisions /\ writer' \in [Writers -> Revisions \cup {Idle}]
    BY <1>1 DEF append_event
  <2> QED
    BY <1>1, <2>2, <2>3 DEF append_event
<1>2. ASSUME NEW w \in Writers, Record(w) \/ set_message_text_failed(w)
                                          \/ ensure_cycle_chats_failed(w)
      PROVE  TypeOK'
  <2>1. CASE set_message_text(w)
    BY <2>1 DEF set_message_text
  <2>2. CASE set_message_text_failed(w)
    BY <2>2 DEF set_message_text_failed
  <2>3. CASE ensure_cycle_chats(w)
    <3>1. row' \in [Chats -> DeliveryRow]
      BY <2>3 DEF ensure_cycle_chats, DeliveryRow
    <3> QED
      BY <2>3, <3>1 DEF ensure_cycle_chats, RecordReturns
  <2>4. CASE ensure_cycle_chats_failed(w)
    BY <2>4 DEF ensure_cycle_chats_failed, RecordReturns
  <2> QED
    BY <1>2, <2>1, <2>2, <2>3, <2>4 DEF Record
<1>3. CASE get_due_cycle_deliveries
  <2>1. batch' \in SUBSET Due
    BY <1>3 DEF get_due_cycle_deliveries, Due, DeliveryRow
  <2> QED
    BY <1>3, <2>1 DEF get_due_cycle_deliveries
<1>4. ASSUME NEW d \in batch,
             send(d) \/ edit(d) \/ edit_missing(d) \/ send_failed(d) \/ edit_failed(d)
      PROVE  TypeOK'
  <2>1. d.chat \in Chats /\ d.revision \in Revisions /\ d.text \in Revisions
    BY DEF Due
  <2>2. batch' \in SUBSET Due /\ job' \in Answer
    BY <1>4, <2>1 DEF send, edit, edit_missing, send_failed, edit_failed, Answered, Answer
  <2>3. message' \in [Chats -> Messages]
    <3>1. \/ message' = message
          \/ message' = [message EXCEPT ![d.chat] = [live |-> TRUE, body |-> d.text]]
          \/ message' = [message EXCEPT ![d.chat].body = d.text]
      BY <1>4 DEF send, edit, edit_missing, send_failed, edit_failed
    <3>2. /\ [live |-> TRUE, body |-> d.text] \in Messages
          /\ [message[d.chat] EXCEPT !.body = d.text] \in Messages
      BY <2>1 DEF Messages
    <3> QED
      BY <3>1, <3>2, <2>1
  <2>4. posted' \in [Chats -> Nat] /\ excused' \in [Chats -> Nat]
    BY <1>4, <2>1 DEF send, edit, edit_missing, send_failed, edit_failed, Post, Excuse
  <2>5. /\ faults' \in 0..MaxFaults /\ UNCHANGED <<deletions, crashes>>
        /\ UNCHANGED <<cycleVars, writer, stored, chatIds, row>>
    BY <1>4 DEF send, edit, edit_missing, send_failed, edit_failed, Answered
  <2> QED
    BY <2>2, <2>3, <2>4, <2>5
<1>5. CASE mark_cycle_delivered \/ clear_cycle_message_id \/ mark_cycle_delivery_failed
           \/ JobWriteFailed
  <2>1. job \in Answer /\ job.chat \in Chats /\ job.revision \in Revisions
    BY <1>5 DEF mark_cycle_delivered, clear_cycle_message_id, mark_cycle_delivery_failed,
                JobWriteFailed, JobWrites, Answer
  <2>2. /\ row[job.chat].message_id \in BOOLEAN
        /\ row[job.chat].delivered_revision \in Revisions
        /\ row[job.chat].attempts + 1 \in 0..MaxAttempts
    BY <1>5, <2>1 DEF BatchIsCurrent, DeliveryRow, mark_cycle_delivered, JobWriteFailed,
                      clear_cycle_message_id, mark_cycle_delivery_failed, JobWrites
  <2>3. row' \in [Chats -> DeliveryRow]
    <3> DEFINE old == row[job.chat]
               id == old.message_id \/ (job.outcome = "SENT")
               rev == IF old.delivered_revision > job.revision
                      THEN old.delivered_revision ELSE job.revision
    <3>1. old \in DeliveryRow /\ id \in BOOLEAN /\ rev \in Revisions
      BY <2>1, <2>2
    <3>2. CASE mark_cycle_delivered
      <4>1. [old EXCEPT !.message_id = id, !.delivered_revision = rev, !.attempts = 0,
                        !.waiting = FALSE] \in DeliveryRow
        BY <3>1, RowDelivered
      <4>2. row' = [row EXCEPT ![job.chat] =
                      [old EXCEPT !.message_id = id, !.delivered_revision = rev,
                                  !.attempts = 0, !.waiting = FALSE]]
        BY <3>2 DEF mark_cycle_delivered
      <4> QED
        BY <4>1, <4>2, <2>1
    <3>3. CASE clear_cycle_message_id
      <4>1. [old EXCEPT !.message_id = FALSE] \in DeliveryRow
        BY <3>1, RowWritten
      <4> QED
        BY <3>3, <4>1, <2>1 DEF clear_cycle_message_id
    <3>4. CASE mark_cycle_delivery_failed
      <4> DEFINE tried == [old EXCEPT !.attempts = old.attempts + 1]
      <4>1. tried \in DeliveryRow
        BY <3>1, <2>2, RowWritten
      <4>2. [tried EXCEPT !.waiting = TRUE] \in DeliveryRow
        <5> HIDE DEF tried
        <5> QED
          BY <4>1, RowWritten
      <4> QED
        BY <3>4, <4>2, <2>1 DEF mark_cycle_delivery_failed
    <3> QED
      BY <1>5, <3>2, <3>3, <3>4 DEF JobWriteFailed
  <2>4. excused' \in [Chats -> Nat] /\ faults' \in 0..MaxFaults
    BY <1>5, <2>1 DEF mark_cycle_delivered, clear_cycle_message_id,
                      mark_cycle_delivery_failed, JobWriteFailed, Excuse
  <2> QED
    BY <1>5, <2>3, <2>4 DEF mark_cycle_delivered, clear_cycle_message_id,
                            mark_cycle_delivery_failed, JobWriteFailed, JobWrites
<1>6. ASSUME NEW c \in Chats, BackoffElapsed(c) \/ MessageGone(c) PROVE TypeOK'
  <2>1. row' \in [Chats -> DeliveryRow] /\ message' \in [Chats -> Messages]
    <3>1. CASE BackoffElapsed(c)
      <4>1. [row[c] EXCEPT !.waiting = FALSE] \in DeliveryRow
        BY RowWritten
      <4> QED
        BY <3>1, <4>1 DEF BackoffElapsed
    <3>2. CASE MessageGone(c)
      <4>1. [message[c] EXCEPT !.live = FALSE] \in Messages
        BY DEF Messages
      <4> QED
        BY <3>2, <4>1 DEF MessageGone
    <3> QED
      BY <1>6, <3>1, <3>2
  <2> QED
    BY <1>6, <2>1 DEF BackoffElapsed, MessageGone, Excuse
<1>7. CASE Crash
  <2>1. excused' \in [Chats -> Nat]
    BY <1>7 DEF Crash, Excuse, Answer
  <2> QED
    BY <1>7, <2>1 DEF Crash
<1>8. CASE UNCHANGED vars
  BY <1>8 DEF vars
<1> QED
  BY <1>1, <1>2, <1>3, <1>4, <1>5, <1>6, <1>7, <1>8 DEF Next, JobStep

LEMMA TypeInit == Init => TypeOK /\ BatchIsCurrent
<1> SUFFICES ASSUME Init PROVE TypeOK /\ BatchIsCurrent
  OBVIOUS
<1>1. row \in [Chats -> DeliveryRow] /\ message \in [Chats -> Messages]
  BY CycleBounds DEF Init, DeliveryRow, Messages, Revisions
<1>2. TypeOK
  BY <1>1, CycleBounds DEF Init, TypeOK, Revisions
<1> QED
  BY <1>2 DEF Init, BatchIsCurrent

\* The type invariant, and with it what the job may rely on.
THEOREM TypeCorrect == Spec => [](TypeOK /\ BatchIsCurrent)
<1>1. TypeOK /\ BatchIsCurrent /\ [Next]_vars => (TypeOK /\ BatchIsCurrent)'
  BY TypeStep, BatchStep
<1> QED
  BY TypeInit, <1>1, PTL DEF Spec

-----------------------------------------------------------------------------
(* The headline *)

\* Folding an action in keeps a closed trade closed and never hides what is
\* known of the position behind a refusal.
LEMMA MergeKeepsHeadline ==
    ASSUME NEW current \in Statuses \cup {Null}, NEW incoming \in Statuses
    PROVE  /\ current \in TERMINAL_STATUSES \/ incoming \in TERMINAL_STATUSES
                => merge_status(current, incoming) \in TERMINAL_STATUSES
           /\ current \notin NO_POSITION_STATUSES \cup {Null} \/ incoming \notin NO_POSITION_STATUSES
                => merge_status(current, incoming) \notin NO_POSITION_STATUSES \cup {Null}
BY DEF merge_status, Statuses, TERMINAL_STATUSES, NO_POSITION_STATUSES, Null

LEMMA HeadlineStep == TypeOK /\ HeadlineTellsPosition /\ [Next]_vars => HeadlineTellsPosition'
<1> SUFFICES ASSUME TypeOK, HeadlineTellsPosition, [Next]_vars PROVE HeadlineTellsPosition'
  OBVIOUS
<1>1. ASSUME NEW w \in Writers, NEW s \in Actions, append_event(w, s)
      PROVE  HeadlineTellsPosition'
  <2>1. CASE s = Null
    BY <1>1, <2>1 DEF append_event, merge_status, HeadlineTellsPosition
  <2>2. CASE s # Null
    <3>1. s \in Statuses /\ status \in Statuses \cup {Null}
      BY <2>2, ActionsAssumption DEF TypeOK
    <3>2. status' = merge_status(status, s) /\ recorded' = recorded \cup {s}
      BY <1>1, <2>2 DEF append_event
    <3> QED
      BY <3>1, <3>2, MergeKeepsHeadline DEF HeadlineTellsPosition
  <2> QED
    BY <2>1, <2>2
<1>2. CASE UNCHANGED <<status, recorded>>
  BY <1>2 DEF HeadlineTellsPosition
<1>3. CASE JobStep
  <2>1. UNCHANGED cycleVars
    BY <1>3 DEF JobStep, get_due_cycle_deliveries, send, edit, edit_missing, Answered,
                mark_cycle_delivered, clear_cycle_message_id, mark_cycle_delivery_failed,
                JobWrites
  <2> QED
    BY <2>1, <1>2 DEF cycleVars
<1>4. ASSUME NEW w \in Writers, Record(w) \/ set_message_text_failed(w)
                                          \/ ensure_cycle_chats_failed(w)
      PROVE  HeadlineTellsPosition'
  BY <1>4, <1>2 DEF Record, set_message_text, set_message_text_failed, ensure_cycle_chats,
                    ensure_cycle_chats_failed, cycleVars
<1>5. ASSUME NEW d \in batch, send_failed(d) \/ edit_failed(d) PROVE HeadlineTellsPosition'
  BY <1>5, <1>2 DEF send_failed, edit_failed, Answered, cycleVars
<1>6. CASE JobWriteFailed \/ Crash
  BY <1>6, <1>2 DEF JobWriteFailed, JobWrites, Crash, cycleVars
<1>7. ASSUME NEW c \in Chats, BackoffElapsed(c) \/ MessageGone(c)
      PROVE  HeadlineTellsPosition'
  BY <1>7, <1>2 DEF BackoffElapsed, MessageGone, cycleVars
<1>8. CASE UNCHANGED vars
  BY <1>8, <1>2 DEF vars
<1> QED
  BY <1>1, <1>3, <1>4, <1>5, <1>6, <1>7, <1>8 DEF Next

\* Whatever threads record their actions in whatever order, the headline stays
\* closed and says what is known of the position.
THEOREM HeadlineHolds == Spec => []HeadlineTellsPosition
<1>1. Init => HeadlineTellsPosition
  BY DEF Init, HeadlineTellsPosition
<1>2. TypeOK /\ HeadlineTellsPosition /\ [Next]_vars => HeadlineTellsPosition'
  BY HeadlineStep
<1> QED
  BY <1>1, <1>2, TypeCorrect, PTL DEF Spec

-----------------------------------------------------------------------------
(* The bodies *)

\* Every render is of a revision there is, and the chats' bodies and the rows the
\* job holds lie between the body shown and the last one stored.
BodiesInOrder ==
    /\ text <= revision
    /\ \A w \in Writers : writer[w] # Idle => writer[w] <= revision
    /\ \A c \in Chats : message[c].body <= text
    /\ \A d \in batch : message[d.chat].body <= d.text /\ d.text <= text

\* What an answered call did to its chat's body: nothing, or it shows the text
\* the job held.
LEMMA BodiesAnswered ==
    ASSUME TypeOK, BatchIsCurrent, BodiesInOrder, NEW d \in batch,
           NEW outcome \in {"SENT", "OK", "MISSING", "FAILED"}, Answered(d, outcome),
           \/ message' = message
           \/ /\ \A c \in Chats \ {d.chat} : message'[c].body = message[c].body
              /\ message'[d.chat].body = d.text
    PROVE  BodiesInOrder' /\ \A c \in Chats : message'[c].body >= message[c].body
<1>1. /\ d \in Due /\ d.chat \in Chats /\ batch' = batch \ {d}
      /\ UNCHANGED <<text, revision, writer>>
  BY DEF TypeOK, Answered, cycleVars, Due
<1>2. \A e \in batch' : e \in Due /\ e.chat \in Chats \ {d.chat}
  BY <1>1 DEF BatchIsCurrent, TypeOK, Due
<1>3. \A c \in Chats : message[c].body \in Nat
  BY CycleBounds DEF TypeOK, Messages, Revisions
<1>4. \A c \in Chats : message'[c].body = message[c].body
                       \/ (c = d.chat /\ message'[c].body = d.text)
  OBVIOUS
<1> QED
  BY <1>1, <1>2, <1>3, <1>4 DEF BodiesInOrder

LEMMA BodyStep ==
    TypeOK /\ BatchIsCurrent /\ BodiesInOrder /\ [Next]_vars
      => BodiesInOrder' /\ \A c \in Chats : message'[c].body >= message[c].body
<1> SUFFICES ASSUME TypeOK, BatchIsCurrent, BodiesInOrder, [Next]_vars
             PROVE  BodiesInOrder' /\ \A c \in Chats : message'[c].body >= message[c].body
  OBVIOUS
<1>0. /\ revision \in Nat /\ text \in Nat
      /\ \A w \in Writers : writer[w] # Idle => writer[w] \in Nat
      /\ \A c \in Chats : message[c].body \in Nat
      /\ \A d \in batch : d.chat \in Chats /\ d.text \in Nat
  BY CycleBounds DEF TypeOK, Messages, Revisions, Due
<1>1. ASSUME NEW w \in Writers, NEW s \in Actions, append_event(w, s)
      PROVE  BodiesInOrder' /\ UNCHANGED message
  BY <1>1, <1>0 DEF append_event, BodiesInOrder, telegramVars, TypeOK
<1>2. ASSUME NEW w \in Writers, set_message_text(w) PROVE BodiesInOrder' /\ UNCHANGED message
  BY <1>2, <1>0 DEF set_message_text, RenderIsCurrent, BodiesInOrder, telegramVars
<1>3. ASSUME NEW w \in Writers, set_message_text_failed(w) \/ ensure_cycle_chats(w)
                                \/ ensure_cycle_chats_failed(w)
      PROVE  BodiesInOrder' /\ UNCHANGED message
  BY <1>3, <1>0 DEF set_message_text_failed, ensure_cycle_chats, ensure_cycle_chats_failed,
                    RecordReturns, BodiesInOrder, telegramVars, cycleVars, TypeOK
<1>4. CASE get_due_cycle_deliveries
  BY <1>4, <1>0 DEF get_due_cycle_deliveries, BodiesInOrder, telegramVars, cycleVars
<1>5. ASSUME NEW d \in batch,
             send(d) \/ edit(d) \/ edit_missing(d) \/ send_failed(d) \/ edit_failed(d)
      PROVE  BodiesInOrder' /\ \A c \in Chats : message'[c].body >= message[c].body
  <2>1. PICK outcome \in {"SENT", "OK", "MISSING", "FAILED"} : Answered(d, outcome)
    BY <1>5 DEF send, edit, edit_missing, send_failed, edit_failed
  <2>2. \/ message' = message
        \/ message' = [message EXCEPT ![d.chat] = [live |-> TRUE, body |-> d.text]]
        \/ message' = [message EXCEPT ![d.chat].body = d.text]
    BY <1>5 DEF send, edit, edit_missing, send_failed, edit_failed, telegramVars
  <2>3. \/ message' = message
        \/ /\ \A c \in Chats \ {d.chat} : message'[c].body = message[c].body
           /\ message'[d.chat].body = d.text
    BY <2>2, <1>0 DEF TypeOK, Messages
  <2> QED
    BY <2>1, <2>3, BodiesAnswered
<1>6. CASE mark_cycle_delivered \/ clear_cycle_message_id \/ mark_cycle_delivery_failed
           \/ JobWriteFailed
  BY <1>6, <1>0 DEF mark_cycle_delivered, clear_cycle_message_id, mark_cycle_delivery_failed,
                    JobWriteFailed, JobWrites, BodiesInOrder, telegramVars, cycleVars
<1>7. ASSUME NEW c \in Chats, BackoffElapsed(c) PROVE BodiesInOrder' /\ UNCHANGED message
  BY <1>7 DEF BackoffElapsed, BodiesInOrder, telegramVars, cycleVars
<1>8. ASSUME NEW c \in Chats, MessageGone(c)
      PROVE  BodiesInOrder' /\ \A x \in Chats : message'[x].body = message[x].body
  <2>1. \A x \in Chats : message'[x].body = message[x].body
    BY <1>8 DEF MessageGone, TypeOK, Messages
  <2> QED
    BY <1>8, <2>1, <1>0 DEF MessageGone, BodiesInOrder, cycleVars
<1>9. CASE Crash
  BY <1>9, <1>0 DEF Crash, BodiesInOrder, telegramVars, cycleVars
<1>10. CASE UNCHANGED vars
  BY <1>10, <1>0 DEF vars, BodiesInOrder
<1>11. UNCHANGED message \/ (\A x \in Chats : message'[x].body = message[x].body)
         => \A c \in Chats : message'[c].body >= message[c].body
  BY <1>0
<1>12. CASE \E d \in batch : send_failed(d) \/ edit_failed(d)
  BY <1>12, <1>5
<1> QED
  BY <1>1, <1>2, <1>3, <1>4, <1>5, <1>6, <1>7, <1>8, <1>9, <1>10, <1>11, <1>12
     DEF Next, Record, JobStep, get_due_cycle_deliveries, mark_cycle_delivered,
         clear_cycle_message_id, mark_cycle_delivery_failed, JobWriteFailed, JobWrites,
         Crash, telegramVars, vars

\* No chat's body ever goes back to an older revision.
THEOREM BodyOnlyAdvances == Spec => BodyNeverGoesBack
<1>1. Init => BodiesInOrder
  BY CycleBounds DEF Init, BodiesInOrder
<1>2. TypeOK /\ BatchIsCurrent /\ BodiesInOrder /\ [Next]_vars => BodiesInOrder'
  BY BodyStep
<1>3. TypeOK /\ BatchIsCurrent /\ BodiesInOrder /\ [Next]_vars
        => [\A c \in Chats : message'[c].body >= message[c].body]_vars
  BY BodyStep
<1> QED
  BY <1>1, <1>2, <1>3, TypeCorrect, PTL DEF Spec, BodyNeverGoesBack

-----------------------------------------------------------------------------
(* One message per chat *)

\* The chat's message is known to the worker: its row names it, or the job is
\* about to write it down.
Known(c) ==
    /\ message[c].live
    /\ row[c].message_id \/ (job # Idle /\ job.chat = c /\ job.outcome = "SENT")

\* Every message posted for a chat has a reason, except the one that is known.
PostsAccounted ==
    /\ \A c \in Chats : posted[c] <= excused[c] + (IF Known(c) THEN 1 ELSE 0)
    /\ job # Idle /\ job.outcome = "MISSING" => ~message[job.chat].live

LEMMA AccountStep ==
    TypeOK /\ BatchIsCurrent /\ PostsAccounted /\ [Next]_vars => PostsAccounted'
<1> SUFFICES ASSUME TypeOK, BatchIsCurrent, PostsAccounted, [Next]_vars PROVE PostsAccounted'
  OBVIOUS
<1>0. /\ \A c \in Chats : posted[c] \in Nat /\ excused[c] \in Nat
      /\ \A c \in Chats : message[c].live \in BOOLEAN /\ row[c].message_id \in BOOLEAN
      /\ job # Idle => job.chat \in Chats /\ job.outcome \in {"SENT", "OK", "MISSING", "FAILED"}
  BY DEF TypeOK, Messages, DeliveryRow, Answer
<1>1. ASSUME \A c \in Chats : row'[c].message_id = row[c].message_id,
             UNCHANGED <<job, message, posted, excused>>
      PROVE  PostsAccounted'
  BY <1>1, <1>0 DEF PostsAccounted, Known
<1>2. ASSUME NEW w \in Writers, NEW s \in Actions, append_event(w, s) PROVE PostsAccounted'
  BY <1>2, <1>1 DEF append_event, telegramVars
<1>3. ASSUME NEW w \in Writers, Record(w) \/ set_message_text_failed(w)
                                          \/ ensure_cycle_chats_failed(w)
      PROVE  PostsAccounted'
  <2>1. CASE ensure_cycle_chats(w)
    BY <2>1, <1>1 DEF ensure_cycle_chats, telegramVars, TypeOK, DeliveryRow
  <2>2. CASE set_message_text(w) \/ set_message_text_failed(w) \/ ensure_cycle_chats_failed(w)
    BY <2>2, <1>1 DEF set_message_text, set_message_text_failed, ensure_cycle_chats_failed,
                      telegramVars
  <2> QED
    BY <1>3, <2>1, <2>2 DEF Record
<1>4. CASE get_due_cycle_deliveries
  BY <1>4, <1>1 DEF get_due_cycle_deliveries, telegramVars
<1>5. ASSUME NEW d \in batch, NEW outcome \in {"SENT", "OK", "MISSING", "FAILED"},
             Answered(d, outcome)
      PROVE  /\ d.chat \in Chats /\ d.message_id = row[d.chat].message_id
             /\ job = Idle /\ job' # Idle /\ job'.chat = d.chat /\ job'.outcome = outcome
             /\ UNCHANGED row
  <2>1. d \in Due
    BY DEF TypeOK
  <2>2. job' = [chat |-> d.chat, outcome |-> outcome, revision |-> d.revision] /\ job' \in Answer
    BY <1>5, <2>1 DEF Answered, Answer, Due
  <2> QED
    BY <1>5, <2>1, <2>2, IdleAssumption DEF Answered, Due, BatchIsCurrent
<1>6. ASSUME NEW d \in batch, send(d) PROVE PostsAccounted'
  <2>1. /\ d.chat \in Chats /\ ~row[d.chat].message_id /\ job = Idle /\ job' # Idle
        /\ job'.chat = d.chat /\ job'.outcome = "SENT" /\ UNCHANGED row
    BY <1>6, <1>5 DEF send
  <2>2. /\ \A c \in Chats : posted'[c] = IF c = d.chat THEN posted[c] + 1 ELSE posted[c]
        /\ message'[d.chat].live
        /\ \A c \in Chats \ {d.chat} : message'[c] = message[c]
        /\ UNCHANGED excused
    BY <1>6, <2>1 DEF send, Post, TypeOK
  <2> QED
    BY <2>1, <2>2, <1>0 DEF PostsAccounted, Known
<1>7. ASSUME NEW d \in batch, send_failed(d) PROVE PostsAccounted'
  <2>1. /\ d.chat \in Chats /\ ~row[d.chat].message_id /\ job = Idle /\ job' # Idle
        /\ job'.chat = d.chat /\ job'.outcome = "FAILED" /\ UNCHANGED <<row, message>>
    BY <1>7, <1>5 DEF send_failed
  <2>2. \/ UNCHANGED <<posted, excused>>
        \/ \A c \in Chats :
             /\ posted'[c] = IF c = d.chat THEN posted[c] + 1 ELSE posted[c]
             /\ excused'[c] = IF c = d.chat THEN excused[c] + 1 ELSE excused[c]
    BY <1>7, <2>1 DEF send_failed, Post, Excuse, TypeOK
  <2> QED
    BY <2>1, <2>2, <1>0 DEF PostsAccounted, Known
<1>8. ASSUME NEW d \in batch, edit(d) \/ edit_missing(d) \/ edit_failed(d)
      PROVE  PostsAccounted'
  <2>1. /\ d.chat \in Chats /\ job = Idle /\ job' # Idle
        /\ job'.chat = d.chat /\ job'.outcome \in {"OK", "MISSING", "FAILED"}
        /\ job'.outcome = "MISSING" => ~message[d.chat].live
        /\ UNCHANGED <<row, posted, excused>>
    BY <1>8, <1>5 DEF edit, edit_missing, edit_failed, telegramVars
  <2>2. \A c \in Chats : message'[c].live = message[c].live
    BY <1>8, <2>1 DEF edit, edit_missing, edit_failed, telegramVars, TypeOK, Messages
  <2> QED
    BY <2>1, <2>2, <1>0 DEF PostsAccounted, Known
<1>9. CASE mark_cycle_delivered
  <2>1. /\ job # Idle /\ job' = Idle /\ job.outcome \in {"SENT", "OK"}
        /\ UNCHANGED <<message, posted, excused>>
    BY <1>9 DEF mark_cycle_delivered, JobWrites, telegramVars
  <2>2. \A c \in Chats : row'[c].message_id =
            (row[c].message_id \/ (c = job.chat /\ job.outcome = "SENT"))
    BY <1>9, <2>1, <1>0 DEF mark_cycle_delivered, TypeOK, DeliveryRow
  <2> QED
    BY <2>1, <2>2, <1>0 DEF PostsAccounted, Known
<1>10. CASE clear_cycle_message_id
  <2>1. /\ job # Idle /\ job' = Idle /\ job.outcome = "MISSING"
        /\ UNCHANGED <<message, posted, excused>>
    BY <1>10 DEF clear_cycle_message_id, JobWrites, telegramVars
  <2>2. \A c \in Chats \ {job.chat} : row'[c] = row[c]
    BY <1>10, <2>1 DEF clear_cycle_message_id, TypeOK
  <2> QED
    BY <2>1, <2>2, <1>0 DEF PostsAccounted, Known
<1>11. CASE mark_cycle_delivery_failed
  <2>1. /\ job # Idle /\ job' = Idle /\ job.outcome = "FAILED"
        /\ UNCHANGED <<message, posted, excused>>
    BY <1>11 DEF mark_cycle_delivery_failed, JobWrites, telegramVars
  <2>2. \A c \in Chats : row'[c].message_id = row[c].message_id
    BY <1>11, <2>1, <1>0 DEF mark_cycle_delivery_failed, TypeOK, DeliveryRow
  <2> QED
    BY <2>1, <2>2, <1>0 DEF PostsAccounted, Known
<1>12. CASE JobWriteFailed \/ Crash
  <2>1. /\ job' = Idle /\ UNCHANGED <<row, message, posted>>
        /\ \A c \in Chats :
             excused'[c] = IF job # Idle /\ job.outcome = "SENT" /\ c = job.chat
                           THEN excused[c] + 1 ELSE excused[c]
    BY <1>12, <1>0 DEF JobWriteFailed, JobWrites, Crash, Excuse, telegramVars, TypeOK
  <2> QED
    BY <2>1, <1>0 DEF PostsAccounted, Known
<1>13. ASSUME NEW c \in Chats, BackoffElapsed(c) PROVE PostsAccounted'
  BY <1>13, <1>1 DEF BackoffElapsed, telegramVars, TypeOK, DeliveryRow
<1>14. ASSUME NEW c \in Chats, MessageGone(c) PROVE PostsAccounted'
  <2>1. /\ ~message'[c].live /\ UNCHANGED <<job, row, posted>>
        /\ \A x \in Chats \ {c} : message'[x] = message[x]
        /\ \A x \in Chats : excused'[x] = IF x = c THEN excused[x] + 1 ELSE excused[x]
    BY <1>14 DEF MessageGone, Excuse, TypeOK, Messages
  <2> QED
    BY <2>1, <1>0 DEF PostsAccounted, Known
<1>15. CASE UNCHANGED vars
  BY <1>15, <1>1 DEF vars
<1> QED
  BY <1>2, <1>3, <1>4, <1>6, <1>7, <1>8, <1>9, <1>10, <1>11, <1>12, <1>13, <1>14, <1>15
     DEF Next, JobStep

\* A chat gets a second message only for a reason: the worker otherwise knows the
\* message it has there, and edits it.
THEOREM OneMessage == Spec => []OneMessagePerChat
<1>1. Init => PostsAccounted
  BY DEF Init, PostsAccounted
<1>2. TypeOK /\ BatchIsCurrent /\ PostsAccounted /\ [Next]_vars => PostsAccounted'
  BY AccountStep
<1>3. TypeOK /\ PostsAccounted => OneMessagePerChat
  BY DEF TypeOK, PostsAccounted, OneMessagePerChat
<1> QED
  BY <1>1, <1>2, <1>3, TypeCorrect, PTL DEF Spec

=============================================================================
