---------------------- MODULE NotificationOutbox_proofs ----------------------
(***************************************************************************)
(* The notification outbox, for any number of messages, targets and        *)
(* dispatchers, any attempt limit and batch size, any failures and         *)
(* crashes.                                                                *)
(***************************************************************************)
EXTENDS NotificationOutbox, FiniteSetTheorems, TLAPS

-----------------------------------------------------------------------------
(* Types *)

\* A row whose attempts are not bounded yet.
AnyRow == [state: {"none", "stored", "deleted"}, verbose: BOOLEAN, attempts: Nat,
           waiting: BOOLEAN]

Shape ==
    /\ row \in [Messages -> AnyRow]
    /\ batch \in [Dispatchers -> SUBSET Messages]
    /\ sending \in [Dispatchers -> Sending \cup {Idle}]
    /\ shown \in [Messages -> [Targets -> 0..2]]
    /\ excused \subseteq Messages
    /\ faults \in 0..MaxFaults

\* What a dispatcher that sends holds.
LEMMA SendingShape ==
    ASSUME Shape, NEW d \in Dispatchers, sending[d] # Idle
    PROVE  /\ sending[d] \in Sending /\ sending[d].message \in Messages
           /\ sending[d].left \subseteq Targets /\ sending[d].success \in BOOLEAN
BY DEF Shape, Sending

\* One field of a row is written.
LEMMA RowField ==
    ASSUME NEW r \in AnyRow
    PROVE  /\ \A s \in {"none", "stored", "deleted"} : [r EXCEPT !.state = s] \in AnyRow
           /\ \A v \in BOOLEAN : [r EXCEPT !.verbose = v] \in AnyRow
           /\ \A v \in BOOLEAN : [r EXCEPT !.waiting = v] \in AnyRow
           /\ \A n \in Nat : [r EXCEPT !.attempts = n] \in AnyRow
<1>1. ASSUME NEW s \in {"none", "stored", "deleted"} PROVE [r EXCEPT !.state = s] \in AnyRow
  BY DEF AnyRow
<1>2. ASSUME NEW v \in BOOLEAN
      PROVE  [r EXCEPT !.verbose = v] \in AnyRow /\ [r EXCEPT !.waiting = v] \in AnyRow
  BY DEF AnyRow
<1>3. ASSUME NEW n \in Nat PROVE [r EXCEPT !.attempts = n] \in AnyRow
  BY DEF AnyRow
<1> QED
  BY <1>1, <1>2, <1>3

\* A post counts up to 2.
LEMMA PostCounts ==
    ASSUME Shape, NEW m \in Messages, NEW t \in Targets, Post(m, t)
    PROVE  /\ shown' \in [Messages -> [Targets -> 0..2]]
           /\ shown'[m][t] = IF shown[m][t] < 2 THEN shown[m][t] + 1 ELSE shown[m][t]
           /\ \A n \in Messages, u \in Targets :
                n # m \/ u # t => shown'[n][u] = shown[n][u]
<1> DEFINE k == IF shown[m][t] < 2 THEN shown[m][t] + 1 ELSE shown[m][t]
<1>1. shown[m] \in [Targets -> 0..2] /\ shown[m][t] \in 0..2 /\ k \in 0..2
  BY DEF Shape
<1>2. [shown[m] EXCEPT ![t] = k] \in [Targets -> 0..2]
  BY <1>1
<1>3. shown' = [shown EXCEPT ![m] = [shown[m] EXCEPT ![t] = k]]
  BY DEF Post
<1> HIDE DEF k
<1>4. shown'[m] = [shown[m] EXCEPT ![t] = k] /\ \A n \in Messages \ {m} : shown'[n] = shown[n]
  BY <1>3 DEF Shape
<1>5. shown' \in [Messages -> [Targets -> 0..2]]
  BY <1>2, <1>3 DEF Shape
<1>6. shown'[m][t] = k /\ \A u \in Targets \ {t} : shown'[m][u] = shown[m][u]
  BY <1>1, <1>4
<1> QED
  BY <1>4, <1>5, <1>6 DEF k

\* What the answer of one target does.
LEMMA AnswerShape ==
    ASSUME Shape, NEW d \in Dispatchers, NEW t \in Targets, NEW answer \in BOOLEAN,
           Answered(d, t, answer)
    PROVE  /\ sending' \in [Dispatchers -> Sending \cup {Idle}]
           /\ sending[d] # Idle /\ sending'[d] # Idle
           /\ sending'[d].message = sending[d].message
           /\ sending'[d].left = sending[d].left \ {t}
           /\ sending'[d].success = (sending[d].success /\ answer)
           /\ \A e \in Dispatchers \ {d} : sending'[e] = sending[e]
           /\ UNCHANGED <<row, batch, faults>>
<1> DEFINE s == sending[d]
           new == [message |-> s.message, left |-> s.left \ {t},
                   success |-> s.success /\ answer]
<1>1. s \in Sending /\ s # Idle
  BY SendingShape DEF Answered
<1>2. new \in Sending
  BY <1>1 DEF Sending
<1>5. sending' = [sending EXCEPT ![d] = new]
  BY DEF Answered, AllAnswers
<1>6. new # Idle
  BY <1>2, IdleAssumption
<1> HIDE DEF new
<1>7. sending'[d] = new /\ \A e \in Dispatchers \ {d} : sending'[e] = sending[e]
  BY <1>5 DEF Shape
<1> QED
  BY <1>1, <1>2, <1>5, <1>6, <1>7 DEF Shape, Answered, new

-----------------------------------------------------------------------------
(* Who holds a message *)

Busy(d, m) == sending[d] # Idle /\ sending[d].message = m

Held(d, m) == m \in batch[d] \/ Busy(d, m)

\* A dispatcher does not send what it still has to send.
Distinct == \A d \in Dispatchers, m \in Messages : Busy(d, m) => m \notin batch[d]

LEMMA FetchHolds ==
    ASSUME Shape, NEW d \in Dispatchers, get_due_notifications(d)
    PROVE  /\ FirstDue \subseteq Messages /\ batch' = [batch EXCEPT ![d] = FirstDue]
           /\ \A m \in Messages : ~Held(d, m) /\ (Held(d, m)' <=> m \in FirstDue)
           /\ \A e \in Dispatchers \ {d}, m \in Messages :
                /\ Held(e, m)' <=> Held(e, m)
                /\ m \in FirstDue /\ Held(e, m) => m \in excused'
           /\ \A e \in Dispatchers, m \in Messages : Busy(e, m)' <=> Busy(e, m)
<1>1. FirstDue \subseteq Messages /\ batch' = [batch EXCEPT ![d] = FirstDue]
      /\ batch[d] = {} /\ sending[d] = Idle /\ sending' = sending
  BY DEF get_due_notifications, FirstDue
<1>2. batch'[d] = FirstDue /\ \A e \in Dispatchers \ {d} : batch'[e] = batch[e]
  BY <1>1 DEF Shape
<1>3. ASSUME NEW e \in Dispatchers \ {d}, NEW m \in FirstDue, Held(e, m)
      PROVE  m \in excused'
  BY <1>3 DEF Held, Busy, InFlight, get_due_notifications
<1> QED
  BY <1>1, <1>2, <1>3 DEF Held, Busy

LEMMA NextRowHolds ==
    ASSUME Shape, NEW d \in Dispatchers, next_row(d)
    PROVE  \E m \in batch[d] :
             /\ m \in Messages /\ sending[d] = Idle
             /\ batch'[d] = batch[d] \ {m}
             /\ sending'[d] = [message |-> m, left |-> Targets, success |-> TRUE]
             /\ sending'[d] # Idle /\ sending'[d] \in Sending
             /\ \A e \in Dispatchers \ {d} : batch'[e] = batch[e] /\ sending'[e] = sending[e]
             /\ batch' \in [Dispatchers -> SUBSET Messages]
             /\ sending' \in [Dispatchers -> Sending \cup {Idle}]
             /\ \A e \in Dispatchers, n \in Messages : Held(e, n)' <=> Held(e, n)
<1>1. PICK m \in batch[d] :
        /\ batch' = [batch EXCEPT ![d] = @ \ {m}]
        /\ sending' = [sending EXCEPT ![d] = [message |-> m, left |-> Targets,
                                              success |-> TRUE]]
  BY DEF next_row
<1> DEFINE new == [message |-> m, left |-> Targets, success |-> TRUE]
<1>2. m \in Messages
  BY DEF Shape
<1>a. new \in Sending
  BY <1>2 DEF Sending
<1>3. new \in Sending /\ new # Idle
  BY <1>a, IdleAssumption
<1>4. sending' = [sending EXCEPT ![d] = new]
  BY <1>1
<1>5. new.message = m
  OBVIOUS
<1> HIDE DEF new
<1>6. /\ sending'[d] = new /\ batch'[d] = batch[d] \ {m}
      /\ \A e \in Dispatchers \ {d} : batch'[e] = batch[e] /\ sending'[e] = sending[e]
      /\ batch' \in [Dispatchers -> SUBSET Messages]
      /\ sending' \in [Dispatchers -> Sending \cup {Idle}]
  BY <1>1, <1>3, <1>4 DEF Shape
<1>7. sending[d] = Idle
  BY DEF next_row
<1>8. ASSUME NEW e \in Dispatchers, NEW n \in Messages PROVE Held(e, n)' <=> Held(e, n)
  BY <1>3, <1>5, <1>6, <1>7 DEF Held, Busy
<1> QED
  BY <1>2, <1>3, <1>6, <1>7, <1>8 DEF new

LEMMA AnswerHolds ==
    ASSUME Shape, NEW d \in Dispatchers, NEW t \in Targets, NEW answer \in BOOLEAN,
           Answered(d, t, answer)
    PROVE  \A e \in Dispatchers, n \in Messages :
             (Busy(e, n)' <=> Busy(e, n)) /\ (Held(e, n)' <=> Held(e, n))
<1>1. ASSUME NEW e \in Dispatchers, NEW n \in Messages PROVE Busy(e, n)' <=> Busy(e, n)
  BY AnswerShape DEF Busy
<1>2. batch' = batch
  BY DEF Answered
<1> QED
  BY <1>1, <1>2 DEF Held

LEMMA HandledHolds ==
    ASSUME Shape, NEW d \in Dispatchers, RowHandled(d)
    PROVE  /\ sending[d].message \in Messages /\ Busy(d, sending[d].message)
           /\ sending[d] \in Sending /\ sending[d] # Idle /\ sending'[d] = Idle
           /\ \A e \in Dispatchers \ {d} : sending'[e] = sending[e]
           /\ sending' \in [Dispatchers -> Sending \cup {Idle}]
           /\ \A n \in Messages : ~Busy(d, n)' /\ (Held(d, n)' <=> n \in batch[d])
           /\ \A e \in Dispatchers \ {d}, n \in Messages :
                (Held(e, n)' <=> Held(e, n)) /\ (Busy(e, n)' <=> Busy(e, n))
<1>1. sending' = [sending EXCEPT ![d] = Idle] /\ batch' = batch /\ sending[d] # Idle
  BY DEF RowHandled
<1>2. /\ sending'[d] = Idle /\ \A e \in Dispatchers \ {d} : sending'[e] = sending[e]
      /\ sending' \in [Dispatchers -> Sending \cup {Idle}]
  BY <1>1 DEF Shape
<1>3. sending[d] \in Sending /\ sending[d].message \in Messages
  BY <1>1, SendingShape
<1> QED
  BY <1>1, <1>2, <1>3 DEF Held, Busy

LEMMA CrashHolds ==
    ASSUME Crash
    PROVE  /\ batch' = [d \in Dispatchers |-> {}] /\ sending' = [d \in Dispatchers |-> Idle]
           /\ \A e \in Dispatchers, n \in Messages : ~Held(e, n)' /\ ~Busy(e, n)'
           /\ \A e \in Dispatchers, n \in Messages : Busy(e, n) => n \in excused'
<1>1. ASSUME NEW e \in Dispatchers, NEW n \in Messages, Busy(e, n) PROVE n \in excused'
  BY <1>1 DEF Crash, Busy
<1> QED
  BY <1>1 DEF Crash, Held, Busy

-----------------------------------------------------------------------------
(* Types, and one attempt per holder *)

LEMMA ShapeStart == Init => Shape
BY OutboxBounds DEF Init, Shape, AnyRow

LEMMA ShapeStep == Shape /\ [Next]_vars => Shape'
<1> SUFFICES ASSUME Shape, [Next]_vars PROVE Shape'
  OBVIOUS
<1>1. ASSUME NEW m \in Messages, enqueue_notification(m) PROVE Shape'
  <2>1. PICK v \in BOOLEAN : row' = [row EXCEPT ![m].state = "stored", ![m].verbose = v]
    BY <1>1 DEF enqueue_notification
  <2>2. row[m] \in AnyRow /\ [row[m] EXCEPT !.state = "stored", !.verbose = v] \in AnyRow
    BY DEF Shape, AnyRow
  <2>3. row' \in [Messages -> AnyRow]
    BY <2>1, <2>2 DEF Shape
  <2> QED
    BY <1>1, <2>3 DEF enqueue_notification, Shape
<1>2. ASSUME NEW m \in Messages, BackoffElapsed(m) PROVE Shape'
  <2>1. row[m] \in AnyRow /\ [row[m] EXCEPT !.waiting = FALSE] \in AnyRow
    BY RowField DEF Shape
  <2>2. row' \in [Messages -> AnyRow]
    BY <1>2, <2>1 DEF Shape, BackoffElapsed
  <2> QED
    BY <1>2, <2>2 DEF BackoffElapsed, Shape
<1>3. ASSUME NEW d \in Dispatchers, get_due_notifications(d) PROVE Shape'
  BY <1>3, FetchHolds DEF get_due_notifications, Shape
<1>4. ASSUME NEW d \in Dispatchers, next_row(d) PROVE Shape'
  <2>1. UNCHANGED <<row, shown, excused, faults>>
    BY <1>4 DEF next_row
  <2> QED
    BY <1>4, <2>1, NextRowHolds DEF Shape
<1>5. ASSUME NEW d \in Dispatchers, NEW t \in Targets,
             send_message(d, t) \/ send_message_failed(d, t)
      PROVE  Shape'
  <2>1. \E answer \in BOOLEAN : Answered(d, t, answer)
    BY <1>5 DEF send_message, send_message_failed
  <2>2. sending[d].message \in Messages
    BY <2>1, SendingShape DEF Answered
  <2>3. /\ shown' = shown \/ Post(sending[d].message, t)
        /\ excused' = excused \/ excused' = excused \cup {sending[d].message}
    BY <1>5 DEF send_message, send_message_failed, Excuse
  <2>4. shown' \in [Messages -> [Targets -> 0..2]]
    BY <2>2, <2>3, PostCounts DEF Shape
  <2> QED
    BY <2>1, <2>2, <2>3, <2>4, AnswerShape DEF Shape
<1>6. ASSUME NEW d \in Dispatchers, delete_notification(d) PROVE Shape'
  <2> DEFINE m == sending[d].message
  <2>1. RowHandled(d)
    BY <1>6 DEF delete_notification
  <2>2. m \in Messages /\ [row[m] EXCEPT !.state = "deleted"] \in AnyRow
    BY <2>1, HandledHolds, RowField DEF Shape
  <2>3. row' \in [Messages -> AnyRow]
    BY <1>6, <2>2 DEF Shape, delete_notification
  <2> QED
    BY <1>6, <2>1, <2>3, HandledHolds DEF delete_notification, RowHandled, Shape
<1>7. ASSUME NEW d \in Dispatchers, mark_notification_failed(d) PROVE Shape'
  <2> DEFINE m == sending[d].message
  <2>1. RowHandled(d)
    BY <1>7 DEF mark_notification_failed
  <2>2. m \in Messages
    BY <2>1, HandledHolds
  <2>3. [row[m] EXCEPT !.attempts = row[m].attempts + 1, !.waiting = TRUE] \in AnyRow
    <3>1. row[m] \in AnyRow /\ row[m].attempts + 1 \in Nat
      BY <2>2 DEF Shape, AnyRow
    <3> QED
      BY <3>1 DEF AnyRow
  <2>4. row' = row
        \/ row' = [row EXCEPT ![m] = [row[m] EXCEPT !.attempts = row[m].attempts + 1,
                                                   !.waiting = TRUE]]
    BY <1>7, <2>2 DEF mark_notification_failed, Shape
  <2>5. row' \in [Messages -> AnyRow]
    BY <2>2, <2>3, <2>4 DEF Shape
  <2> QED
    BY <1>7, <2>1, <2>5, HandledHolds DEF mark_notification_failed, RowHandled, Shape
<1>8. ASSUME NEW d \in Dispatchers, write_failed(d) PROVE Shape'
  <2>1. RowHandled(d) /\ row' = row /\ excused' = excused \cup {sending[d].message}
        /\ faults' \in 0..MaxFaults
    BY <1>8, OutboxBounds DEF write_failed, Excuse, Fault, Shape
  <2> QED
    BY <2>1, HandledHolds DEF RowHandled, Shape
<1>9. CASE Crash
  <2>1. excused' \subseteq Messages
    BY <1>9, SendingShape DEF Crash, Shape
  <2>2. faults' \in 0..MaxFaults /\ UNCHANGED <<row, shown>>
    BY <1>9, OutboxBounds DEF Crash, Fault, Shape
  <2> QED
    BY <1>9, <2>1, <2>2, CrashHolds DEF Shape
<1>10. CASE UNCHANGED vars
  BY <1>10 DEF vars, Shape
<1> QED
  BY <1>1, <1>2, <1>3, <1>4, <1>5, <1>6, <1>7, <1>8, <1>9, <1>10 DEF Next, Poll

\* What a step does to the holders: a fetch adds its dispatcher, the other
\* steps add none.
LEMMA HoldersGrowByFetch ==
    ASSUME Shape, [Next]_vars, NEW e \in Dispatchers, NEW n \in Messages,
           Held(e, n)', ~Held(e, n)
    PROVE  get_due_notifications(e) /\ n \in FirstDue
<1>1. ASSUME NEW d \in Dispatchers, get_due_notifications(d)
      PROVE  get_due_notifications(e) /\ n \in FirstDue
  BY <1>1, FetchHolds
<1>2. ASSUME NEW d \in Dispatchers, next_row(d) PROVE FALSE
  BY <1>2, NextRowHolds
<1>3. ASSUME NEW d \in Dispatchers, NEW t \in Targets,
             send_message(d, t) \/ send_message_failed(d, t)
      PROVE  FALSE
  BY <1>3, AnswerHolds DEF send_message, send_message_failed
<1>4. ASSUME NEW d \in Dispatchers, RowHandled(d) PROVE FALSE
  BY <1>4, HandledHolds DEF Held
<1>5. CASE Crash
  BY <1>5, CrashHolds
<1>6. CASE UNCHANGED <<batch, sending>>
  BY <1>6 DEF Held, Busy
<1> QED
  BY <1>1, <1>2, <1>3, <1>4, <1>5, <1>6
     DEF Next, Poll, vars, enqueue_notification, BackoffElapsed, delete_notification,
         mark_notification_failed, write_failed

LEMMA DistinctStep == Shape /\ Distinct /\ [Next]_vars => Distinct'
<1> SUFFICES ASSUME Shape, Distinct, [Next]_vars,
                    NEW e \in Dispatchers, NEW n \in Messages, Busy(e, n)'
             PROVE  n \notin batch'[e]
  BY DEF Distinct
<1>1. ASSUME NEW d \in Dispatchers, get_due_notifications(d) PROVE n \notin batch'[e]
  <2>1. Busy(e, n) /\ e # d
    BY <1>1, FetchHolds DEF Busy, get_due_notifications
  <2>2. batch'[e] = batch[e]
    BY <1>1, <2>1, FetchHolds DEF Shape
  <2> QED
    BY <2>1, <2>2 DEF Distinct
<1>2. ASSUME NEW d \in Dispatchers, next_row(d) PROVE n \notin batch'[e]
  <2>1. PICK m \in batch[d] :
          /\ m \in Messages /\ batch'[d] = batch[d] \ {m}
          /\ sending'[d] = [message |-> m, left |-> Targets, success |-> TRUE]
          /\ \A f \in Dispatchers \ {d} : batch'[f] = batch[f] /\ sending'[f] = sending[f]
    BY <1>2, NextRowHolds
  <2> QED
    BY <2>1 DEF Distinct, Busy
<1>3. ASSUME NEW d \in Dispatchers, NEW t \in Targets,
             send_message(d, t) \/ send_message_failed(d, t)
      PROVE  n \notin batch'[e]
  <2>1. batch' = batch /\ Busy(e, n)
    BY <1>3, AnswerHolds DEF send_message, send_message_failed, Answered
  <2> QED
    BY <2>1 DEF Distinct
<1>4. ASSUME NEW d \in Dispatchers, RowHandled(d) PROVE n \notin batch'[e]
  <2>1. batch' = batch /\ Busy(e, n)
    BY <1>4, HandledHolds DEF RowHandled
  <2> QED
    BY <2>1 DEF Distinct
<1>5. CASE Crash
  BY <1>5, CrashHolds
<1>6. CASE UNCHANGED <<batch, sending>>
  BY <1>6 DEF Distinct, Busy
<1> QED
  BY <1>1, <1>2, <1>3, <1>4, <1>5, <1>6
     DEF Next, Poll, vars, enqueue_notification, BackoffElapsed, delete_notification,
         mark_notification_failed, write_failed

Holders(m) == {d \in Dispatchers : Held(d, m)}

\* Each holder may use up one more attempt.
Room ==
    \A m \in Messages :
        row[m].attempts + Cardinality(Holders(m)) < MaxAttempts + Cardinality(Dispatchers)

LEMMA HoldersCount ==
    ASSUME NEW S, S \subseteq Dispatchers
    PROVE  /\ IsFiniteSet(S) /\ Cardinality(S) \in Nat
           /\ Cardinality(S) <= Cardinality(Dispatchers)
           /\ Cardinality(Dispatchers) \in Nat
           /\ \A T \in SUBSET S : Cardinality(T) \in Nat /\ Cardinality(T) <= Cardinality(S)
           /\ \A d \in S : Cardinality(S \ {d}) = Cardinality(S) - 1
<1>1. IsFiniteSet(Dispatchers) /\ IsFiniteSet(S)
  BY OutboxBounds, FS_Subset
<1>2. ASSUME NEW T \in SUBSET S
      PROVE  Cardinality(T) \in Nat /\ Cardinality(T) <= Cardinality(S)
  BY <1>1, FS_Subset, FS_CardinalityType
<1>3. ASSUME NEW d \in S PROVE Cardinality(S \ {d}) = Cardinality(S) - 1
  BY <1>1, FS_RemoveElement
<1> QED
  BY <1>1, <1>2, <1>3, FS_Subset, FS_CardinalityType

LEMMA RoomStep == Shape /\ Distinct /\ Room /\ [Next]_vars => Room'
<1> SUFFICES ASSUME Shape, Distinct, Room, [Next]_vars, NEW n \in Messages
             PROVE  (row[n].attempts + Cardinality(Holders(n))
                       < MaxAttempts + Cardinality(Dispatchers))'
  BY DEF Room
<1> DEFINE H == Holders(n)
           new == Holders(n)'
           old == row[n].attempts
<1>1. /\ H \subseteq Dispatchers /\ new \subseteq Dispatchers
      /\ old \in Nat /\ MaxAttempts \in Nat
      /\ old + Cardinality(H) < MaxAttempts + Cardinality(Dispatchers)
  BY OutboxBounds DEF Shape, AnyRow, Room, Holders
<1>2. ASSUME row'[n].attempts = old, new \subseteq H
      PROVE  row'[n].attempts + Cardinality(new) < MaxAttempts + Cardinality(Dispatchers)
  BY <1>1, <1>2, HoldersCount
<1>3. ASSUME ~\E d \in Dispatchers : get_due_notifications(d) PROVE new \subseteq H
  BY <1>3, HoldersGrowByFetch DEF Holders
<1>4. ASSUME NEW d \in Dispatchers, get_due_notifications(d)
      PROVE  row'[n].attempts + Cardinality(new) < MaxAttempts + Cardinality(Dispatchers)
  <2>1. row' = row
    BY <1>4 DEF get_due_notifications
  <2>2. CASE n \in FirstDue
    <3>1. old < MaxAttempts
      BY <2>2 DEF FirstDue, IsDue
    <3> QED
      BY <1>1, <2>1, <3>1, HoldersCount
  <2>3. CASE n \notin FirstDue
    <3>1. new \subseteq H
      BY <2>3, HoldersGrowByFetch DEF Holders
    <3> QED
      BY <1>2, <2>1, <3>1
  <2> QED
    BY <2>2, <2>3
<1>5. ASSUME NEW d \in Dispatchers, mark_notification_failed(d), sending[d].message = n
      PROVE  row'[n].attempts + Cardinality(new) < MaxAttempts + Cardinality(Dispatchers)
  <2>1. RowHandled(d) /\ Busy(d, n)
    BY <1>5, HandledHolds DEF mark_notification_failed
  <2>2. d \in H /\ new \subseteq H \ {d}
    <3>1. ~Held(d, n)'
      BY <2>1, HandledHolds DEF Distinct
    <3>2. ASSUME NEW e \in Dispatchers \ {d}, Held(e, n)' PROVE Held(e, n)
      BY <2>1, <3>2, HandledHolds
    <3> QED
      BY <2>1, <3>1, <3>2 DEF Holders, Held
  <2>3. row'[n].attempts \in {old, old + 1}
    BY <1>5 DEF mark_notification_failed, Shape
  <2>4. /\ Cardinality(new) \in Nat /\ Cardinality(H) \in Nat
        /\ Cardinality(Dispatchers) \in Nat
        /\ Cardinality(new) <= Cardinality(H) - 1
    <3>1. Cardinality(H \ {d}) = Cardinality(H) - 1
      BY <1>1, <2>2, HoldersCount
    <3>2. H \ {d} \subseteq Dispatchers /\ new \in SUBSET (H \ {d})
      BY <1>1, <2>2
    <3>3. Cardinality(new) \in Nat /\ Cardinality(new) <= Cardinality(H \ {d})
      BY <3>2, HoldersCount
    <3> QED
      BY <1>1, <3>1, <3>3, HoldersCount
  <2> QED
    BY <1>1, <2>3, <2>4
<1>6. ASSUME ~\E d \in Dispatchers : get_due_notifications(d),
             \A d \in Dispatchers : mark_notification_failed(d) => sending[d].message # n
      PROVE  row'[n].attempts = old
  <2>1. ASSUME NEW m \in Messages, enqueue_notification(m) \/ BackoffElapsed(m)
        PROVE  row'[n].attempts = old
    BY <2>1 DEF enqueue_notification, BackoffElapsed, Shape, AnyRow
  <2>2. ASSUME NEW d \in Dispatchers, delete_notification(d) PROVE row'[n].attempts = old
    BY <2>2 DEF delete_notification, Shape, AnyRow
  <2>3. ASSUME NEW d \in Dispatchers, mark_notification_failed(d)
        PROVE  row'[n].attempts = old
    <3>1. sending[d].message # n
      BY <1>6, <2>3
    <3> QED
      BY <2>3, <3>1 DEF mark_notification_failed, Shape
  <2>4. CASE row' = row
    BY <2>4
  <2> QED
    BY <1>6, <2>1, <2>2, <2>3, <2>4
       DEF Next, Poll, vars, next_row, send_message, send_message_failed, Answered,
           write_failed, Crash
<1> QED
  BY <1>2, <1>3, <1>4, <1>5, <1>6

Counted == Shape /\ Distinct /\ Room

LEMMA CountedStart == Init => Counted
<1> SUFFICES ASSUME Init PROVE Counted
  OBVIOUS
<1>1. Shape /\ Distinct
  BY ShapeStart DEF Init, Distinct, Busy
<1>2. ASSUME NEW m \in Messages
      PROVE  row[m].attempts + Cardinality(Holders(m)) < MaxAttempts + Cardinality(Dispatchers)
  <2>1. Holders(m) = {} /\ row[m].attempts = 0
    BY DEF Init, Holders, Held, Busy
  <2>2. {} \subseteq Dispatchers
    OBVIOUS
  <2> QED
    BY <2>1, <2>2, HoldersCount, FS_EmptySet, OutboxBounds
<1> QED
  BY <1>1, <1>2 DEF Counted, Room

LEMMA CountedStep == Counted /\ [Next]_vars => Counted'
BY ShapeStep, DistinctStep, RoomStep DEF Counted

LEMMA CountedTypes == Counted => TypeOK
<1> SUFFICES ASSUME Counted PROVE TypeOK
  OBVIOUS
<1>1. ASSUME NEW m \in Messages PROVE row[m] \in Row
  <2>1. Holders(m) \subseteq Dispatchers /\ row[m] \in AnyRow
    BY DEF Holders, Counted, Shape
  <2>2. row[m].attempts + Cardinality(Holders(m)) < MaxAttempts + Cardinality(Dispatchers)
    BY DEF Counted, Room
  <2>3. row[m].attempts \in 0..(MaxAttempts + Cardinality(Dispatchers) - 1)
    BY <2>1, <2>2, HoldersCount, OutboxBounds DEF AnyRow
  <2> QED
    BY <2>1, <2>3 DEF AnyRow, Row
<1>2. row \in [Messages -> Row]
  BY <1>1 DEF Counted, Shape
<1> QED
  BY <1>2 DEF TypeOK, Counted, Shape

\* Types, and the attempts of a row: they stay below max_attempts plus the
\* dispatchers that fetched it while it was due.
THEOREM TypeCorrect == Spec => []TypeOK
BY CountedStart, CountedStep, CountedTypes, PTL DEF Spec

-----------------------------------------------------------------------------
(* No copy without a reason *)

\* A message nothing has happened to is in one pair of hands, and a chat has it
\* only if that sender has passed the chat or the row is gone.
CarefulWith(m) ==
    /\ \A d, e \in Dispatchers : Held(d, m) /\ Held(e, m) => d = e
    /\ \A d \in Dispatchers : Held(d, m) => row[m].state = "stored"
    /\ \A d \in Dispatchers : Busy(d, m) => sending[d].success
    /\ \A t \in Targets :
         /\ shown[m][t] < 2
         /\ shown[m][t] = 1 =>
              row[m].state = "deleted" \/ \E d \in Dispatchers : Busy(d, m) /\ t \notin sending[d].left

Careful == \A m \in Messages : m \notin excused => CarefulWith(m)

\* A step that leaves alone whatever concerns m.
LEMMA CarefulFrame ==
    ASSUME NEW m \in Messages, CarefulWith(m),
           row'[m].state = row[m].state, shown'[m] = shown[m],
           \A d \in Dispatchers :
             /\ Held(d, m)' => Held(d, m)
             /\ Busy(d, m)' <=> Busy(d, m)
             /\ Busy(d, m) => sending'[d] = sending[d]
    PROVE  CarefulWith(m)'
<1>1. /\ \A d, e \in Dispatchers : Held(d, m)' /\ Held(e, m)' => d = e
      /\ \A d \in Dispatchers : Held(d, m)' => row'[m].state = "stored"
      /\ \A d \in Dispatchers : Busy(d, m)' => sending'[d].success
  BY DEF CarefulWith
<1>2. ASSUME NEW t \in Targets
      PROVE  /\ shown'[m][t] < 2
             /\ shown'[m][t] = 1 =>
                  row'[m].state = "deleted"
                  \/ \E d \in Dispatchers : Busy(d, m)' /\ t \notin sending'[d].left
  BY DEF CarefulWith
<1> QED
  BY <1>1, <1>2 DEF CarefulWith

LEMMA CarefulStart == Init => Careful
BY DEF Init, Careful, CarefulWith, Held, Busy

LEMMA CarefulStep == Counted /\ Careful /\ [Next]_vars => Careful'
<1> SUFFICES ASSUME Counted, Careful, [Next]_vars,
                    NEW n \in Messages, n \notin excused'
             PROVE  CarefulWith(n)'
  BY DEF Careful
<1> USE DEF Counted
<1>0. n \notin excused /\ CarefulWith(n)
  BY DEF Careful, Next, Poll, vars, enqueue_notification, BackoffElapsed,
         get_due_notifications, next_row, send_message, send_message_failed, Excuse,
         delete_notification, mark_notification_failed, write_failed, Crash
<1>1. ASSUME NEW m \in Messages, enqueue_notification(m) PROVE CarefulWith(n)'
  <2>1. /\ UNCHANGED <<batch, sending, shown>>
        /\ \A e \in Dispatchers : (Held(e, n)' <=> Held(e, n)) /\ (Busy(e, n)' <=> Busy(e, n))
    BY <1>1 DEF enqueue_notification, Held, Busy
  <2>2. CASE m = n
    <3>1. row[n].state = "none" /\ row'[n].state = "stored"
      BY <1>1, <2>2 DEF enqueue_notification, Shape, AnyRow
    <3>2. \A d \in Dispatchers : ~Held(d, n) /\ ~Busy(d, n)
      BY <1>0, <3>1 DEF CarefulWith, Held
    <3> QED
      BY <1>0, <2>1, <3>1, <3>2 DEF CarefulWith
  <2>3. CASE m # n
    <3>1. row'[n] = row[n]
      BY <1>1, <2>3 DEF enqueue_notification, Shape
    <3> QED
      BY <1>0, <2>1, <3>1, CarefulFrame
  <2> QED
    BY <2>2, <2>3
<1>2. ASSUME NEW m \in Messages, BackoffElapsed(m) PROVE CarefulWith(n)'
  <2>1. row'[n].state = row[n].state
    BY <1>2 DEF BackoffElapsed, Shape, AnyRow
  <2>2. \A e \in Dispatchers : (Held(e, n)' <=> Held(e, n)) /\ (Busy(e, n)' <=> Busy(e, n))
    BY <1>2 DEF BackoffElapsed, Held, Busy
  <2> QED
    BY <1>0, <1>2, <2>1, <2>2, CarefulFrame DEF BackoffElapsed
<1>3. ASSUME NEW d \in Dispatchers, get_due_notifications(d) PROVE CarefulWith(n)'
  <2>1. UNCHANGED <<row, sending, shown>>
    BY <1>3 DEF get_due_notifications
  <2>2. CASE n \in FirstDue
    <3>1. row[n].state = "stored"
      BY <2>2 DEF FirstDue, IsDue
    <3>2. \A e \in Dispatchers : Held(e, n)' => e = d
      BY <1>3, <2>2, FetchHolds
    <3>3. \A e \in Dispatchers : Busy(e, n)' <=> Busy(e, n)
      BY <1>3, FetchHolds
    <3> QED
      BY <1>0, <2>1, <3>1, <3>2, <3>3 DEF CarefulWith
  <2>3. CASE n \notin FirstDue
    <3>1. \A e \in Dispatchers : (Held(e, n)' => Held(e, n)) /\ (Busy(e, n)' <=> Busy(e, n))
      BY <1>3, <2>3, FetchHolds
    <3> QED
      BY <1>0, <2>1, <3>1, CarefulFrame
  <2> QED
    BY <2>2, <2>3
<1>4. ASSUME NEW d \in Dispatchers, next_row(d) PROVE CarefulWith(n)'
  <2>1. UNCHANGED <<row, shown>>
    BY <1>4 DEF next_row
  <2>2. PICK m \in batch[d] :
          /\ sending[d] = Idle
          /\ sending'[d] = [message |-> m, left |-> Targets, success |-> TRUE]
          /\ sending'[d] # Idle
          /\ \A e \in Dispatchers \ {d} : sending'[e] = sending[e]
          /\ \A e \in Dispatchers : Held(e, n)' <=> Held(e, n)
    BY <1>4, NextRowHolds
  <2>3. CASE m = n
    <3>1. Held(d, n) /\ \A e \in Dispatchers : ~Busy(e, n)
      BY <1>0, <2>2, <2>3 DEF CarefulWith, Held, Busy
    <3>2. \A t \in Targets : shown[n][t] < 2 /\ shown[n][t] # 1
      BY <1>0, <3>1 DEF CarefulWith
    <3>3. \A e \in Dispatchers : Busy(e, n)' => sending'[e].success
      BY <2>2, <2>3, <3>1 DEF Busy
    <3> QED
      BY <1>0, <2>1, <2>2, <3>2, <3>3 DEF CarefulWith
  <2>4. CASE m # n
    <3>1. \A e \in Dispatchers :
            (Busy(e, n)' <=> Busy(e, n)) /\ (Busy(e, n) => sending'[e] = sending[e])
      BY <2>2, <2>4 DEF Busy
    <3> QED
      BY <1>0, <2>1, <2>2, <3>1, CarefulFrame
  <2> QED
    BY <2>3, <2>4
<1>5. ASSUME NEW d \in Dispatchers, NEW t \in Targets,
             send_message(d, t) \/ send_message_failed(d, t)
      PROVE  CarefulWith(n)'
  <2> DEFINE m == sending[d].message
  <2>1. PICK answer \in BOOLEAN :
          /\ Answered(d, t, answer)
          /\ \/ answer /\ Post(m, t)
             \/ m \in excused' /\ (UNCHANGED shown \/ Post(m, t))
    BY <1>5 DEF send_message, send_message_failed, Excuse
  <2>2. /\ m \in Messages /\ sending[d] # Idle /\ t \in sending[d].left /\ row' = row
        /\ \A e \in Dispatchers :
             (Held(e, n)' <=> Held(e, n)) /\ (Busy(e, n)' <=> Busy(e, n))
        /\ \A e \in Dispatchers \ {d} : sending'[e] = sending[e]
        /\ sending'[d].message = m /\ sending'[d] # Idle
        /\ sending'[d].left = sending[d].left \ {t}
        /\ sending'[d].success = (sending[d].success /\ answer)
    BY <2>1, SendingShape, AnswerShape, AnswerHolds DEF Answered
  <2>3. CASE m = n
    <3>1. answer /\ Post(n, t) /\ Busy(d, n) /\ Held(d, n)
      BY <2>1, <2>2, <2>3 DEF Busy, Held
    <3>2. \A e \in Dispatchers : Busy(e, n) => e = d
      BY <1>0, <3>1 DEF CarefulWith, Held
    <3>3. row[n].state = "stored" /\ sending[d].success
      BY <1>0, <3>1 DEF CarefulWith
    <3>4. shown[n][t] = 0
      <4>1. shown[n][t] # 1
        BY <1>0, <2>2, <3>2, <3>3 DEF CarefulWith
      <4>2. shown[n][t] < 2 /\ shown[n][t] \in 0..2
        BY <1>0 DEF CarefulWith, Shape
      <4> QED
        BY <4>1, <4>2
    <3>5. shown'[n][t] = 1 /\ \A u \in Targets \ {t} : shown'[n][u] = shown[n][u]
      BY <3>1, <3>4, PostCounts
    <3>6. ASSUME NEW u \in Targets
          PROVE  /\ shown'[n][u] < 2
                 /\ shown'[n][u] = 1 =>
                      row'[n].state = "deleted"
                      \/ \E e \in Dispatchers : Busy(e, n)' /\ u \notin sending'[e].left
      <4>1. CASE u = t
        BY <2>2, <3>1, <3>5, <4>1
      <4>2. CASE u # t
        <5>1. shown'[n][u] = shown[n][u]
          BY <3>5, <4>2
        <5>2. ASSUME shown[n][u] = 1 PROVE u \notin sending[d].left
          BY <1>0, <3>2, <3>3, <5>2 DEF CarefulWith
        <5>3. shown[n][u] < 2
          BY <1>0 DEF CarefulWith
        <5> QED
          BY <2>2, <3>1, <5>1, <5>2, <5>3
      <4> QED
        BY <4>1, <4>2
    <3>7. \A e \in Dispatchers : Busy(e, n)' => sending'[e].success
      BY <2>2, <3>1, <3>2, <3>3
    <3> QED
      BY <1>0, <2>2, <3>6, <3>7 DEF CarefulWith
  <2>4. CASE m # n
    <3>1. shown'[n] = shown[n]
      BY <2>1, <2>2, <2>4 DEF Post, Shape
    <3>2. \A e \in Dispatchers : Busy(e, n) => sending'[e] = sending[e]
      BY <2>2, <2>4 DEF Busy
    <3> QED
      BY <1>0, <2>2, <3>1, <3>2, CarefulFrame
  <2> QED
    BY <2>3, <2>4
<1>6. ASSUME NEW d \in Dispatchers, RowHandled(d),
             \/ delete_notification(d)
             \/ mark_notification_failed(d)
             \/ write_failed(d)
      PROVE  CarefulWith(n)'
  <2> DEFINE m == sending[d].message
  <2>1. /\ m \in Messages /\ Busy(d, m) /\ shown' = shown /\ batch' = batch
        /\ \A k \in Messages : ~Busy(d, k)' /\ (Held(d, k)' <=> k \in batch[d])
        /\ \A e \in Dispatchers \ {d}, k \in Messages :
             (Held(e, k)' <=> Held(e, k)) /\ (Busy(e, k)' <=> Busy(e, k))
        /\ \A e \in Dispatchers \ {d} : sending'[e] = sending[e]
    BY <1>6, HandledHolds DEF RowHandled
  <2>2. CASE m = n
    <3>1. sending[d].success
      BY <1>0, <2>1, <2>2 DEF CarefulWith
    <3>2. delete_notification(d)
      BY <1>0, <1>6, <2>2, <3>1 DEF mark_notification_failed, write_failed, Excuse
    <3>3. row'[n].state = "deleted"
      BY <2>2, <3>2 DEF delete_notification, Shape, AnyRow
    <3>4. \A e \in Dispatchers : ~Held(e, n)' /\ ~Busy(e, n)'
      BY <1>0, <2>1, <2>2 DEF CarefulWith, Held, Distinct
    <3> QED
      BY <1>0, <2>1, <3>3, <3>4 DEF CarefulWith
  <2>3. CASE m # n
    <3>1. row'[n] = row[n]
      BY <1>6, <2>1, <2>3
         DEF delete_notification, mark_notification_failed, write_failed, Shape
    <3>2. \A e \in Dispatchers :
            /\ Held(e, n)' => Held(e, n)
            /\ Busy(e, n)' <=> Busy(e, n)
            /\ Busy(e, n) => sending'[e] = sending[e]
      BY <2>1, <2>3 DEF Held, Busy
    <3> QED
      BY <1>0, <2>1, <3>1, <3>2, CarefulFrame
  <2> QED
    BY <2>2, <2>3
<1>7. CASE Crash
  <2>1. \A e \in Dispatchers : ~Held(e, n)' /\ ~Busy(e, n)' /\ ~Busy(e, n)
    BY <1>7, CrashHolds
  <2>2. UNCHANGED <<row, shown>>
    BY <1>7 DEF Crash
  <2> QED
    BY <1>0, <2>1, <2>2 DEF CarefulWith
<1>8. CASE UNCHANGED vars
  <2>1. \A e \in Dispatchers : (Held(e, n)' <=> Held(e, n)) /\ (Busy(e, n)' <=> Busy(e, n))
    BY <1>8 DEF vars, Held, Busy
  <2> QED
    BY <1>0, <1>8, <2>1, CarefulFrame DEF vars
<1> QED
  BY <1>1, <1>2, <1>3, <1>4, <1>5, <1>6, <1>7, <1>8
     DEF Next, Poll, delete_notification, mark_notification_failed, write_failed

\* A chat gets a message twice only for a reason.
THEOREM CopiesHaveReasons == Spec => []NoNeedlessCopy
<1>1. Counted /\ Careful => NoNeedlessCopy
  BY DEF Careful, CarefulWith, NoNeedlessCopy, Counted, Shape
<1> QED
  BY <1>1, CountedStart, CountedStep, CarefulStart, CarefulStep, PTL DEF Spec

-----------------------------------------------------------------------------
(* The outbox implements the mailbox *)

ReadyFor(d, m) ==
    /\ Held(d, m) => row[m].state \in {"stored", "deleted"} /\ row[m].verbose
    /\ Busy(d, m) /\ sending[d].success =>
         \A t \in Targets \ sending[d].left : shown[m][t] > 0

\* Whatever is held was to be sent, and a sender without a failure has shown
\* its message to every target it has passed.
Ready ==
    /\ \A d \in Dispatchers, m \in Messages : ReadyFor(d, m)
    /\ \A m \in Messages : row[m].state = "none" => row[m].attempts = 0

LEMMA ReadyStart == Init => Ready
BY DEF Init, Ready, ReadyFor, Held, Busy

\* No step makes a chat forget a message, changes the mode of a stored row or
\* brings a row back.
LEMMA RowsAndChatsKeep ==
    ASSUME Shape, [Next]_vars, NEW n \in Messages
    PROVE  /\ \A t \in Targets : shown[n][t] > 0 => shown'[n][t] > 0
           /\ row[n].state \in {"stored", "deleted"} =>
                row'[n].state \in {"stored", "deleted"} /\ row'[n].verbose = row[n].verbose
<1>1. ASSUME NEW t \in Targets, shown[n][t] > 0 PROVE shown'[n][t] > 0
  <2>1. ASSUME NEW d \in Dispatchers, NEW u \in Targets,
               send_message(d, u) \/ send_message_failed(d, u)
        PROVE  shown'[n][t] > 0
    <3>1. /\ sending[d].message \in Messages
          /\ UNCHANGED shown \/ Post(sending[d].message, u)
      BY <2>1, SendingShape DEF send_message, send_message_failed, Answered
    <3>2. shown[n][t] \in 0..2 /\ shown[n][u] \in 0..2
      BY DEF Shape
    <3> QED
      BY <1>1, <3>1, <3>2, PostCounts
  <2>2. CASE UNCHANGED shown
    BY <1>1, <2>2
  <2> QED
    BY <2>1, <2>2
       DEF Next, Poll, vars, enqueue_notification, BackoffElapsed, get_due_notifications,
           next_row, delete_notification, mark_notification_failed, write_failed, Crash,
           RowHandled
<1>2. ASSUME row[n].state \in {"stored", "deleted"}
      PROVE  row'[n].state \in {"stored", "deleted"} /\ row'[n].verbose = row[n].verbose
  <2>1. ASSUME NEW m \in Messages, enqueue_notification(m)
        PROVE  row'[n] = row[n]
    BY <1>2, <2>1 DEF enqueue_notification, Shape
  <2>2. ASSUME NEW m \in Messages, BackoffElapsed(m)
        PROVE  row'[n].state = row[n].state /\ row'[n].verbose = row[n].verbose
    BY <2>2 DEF BackoffElapsed, Shape, AnyRow
  <2>3. ASSUME NEW d \in Dispatchers, delete_notification(d)
        PROVE  row'[n].state \in {row[n].state, "deleted"} /\ row'[n].verbose = row[n].verbose
    BY <2>3 DEF delete_notification, Shape, AnyRow
  <2>4. ASSUME NEW d \in Dispatchers, mark_notification_failed(d)
        PROVE  row'[n].state = row[n].state /\ row'[n].verbose = row[n].verbose
    BY <2>4 DEF mark_notification_failed, Shape, AnyRow
  <2>5. CASE row' = row
    BY <1>2, <2>5
  <2> QED
    BY <1>2, <2>1, <2>2, <2>3, <2>4, <2>5
       DEF Next, Poll, vars, get_due_notifications, next_row, send_message,
           send_message_failed, Answered, write_failed, Crash
<1> QED
  BY <1>1, <1>2

LEMMA ReadyStep == Counted /\ Ready /\ [Next]_vars => Ready'
<1> SUFFICES ASSUME Counted, Ready, [Next]_vars PROVE Ready'
  OBVIOUS
<1> USE DEF Counted
<1>1. ASSUME NEW e \in Dispatchers, NEW n \in Messages, Held(e, n)'
      PROVE  row'[n].state \in {"stored", "deleted"} /\ row'[n].verbose
  <2>1. CASE Held(e, n)
    BY <2>1, RowsAndChatsKeep DEF Ready, ReadyFor
  <2>2. CASE ~Held(e, n)
    <3>1. get_due_notifications(e) /\ n \in FirstDue
      BY <1>1, <2>2, HoldersGrowByFetch
    <3>2. row' = row /\ IsDue(n)
      BY <3>1 DEF get_due_notifications, FirstDue
    <3> QED
      BY <3>2 DEF IsDue
  <2> QED
    BY <2>1, <2>2
<1>2. ASSUME NEW e \in Dispatchers, NEW n \in Messages, Busy(e, n)', sending'[e].success,
             NEW t \in Targets, t \notin sending'[e].left
      PROVE  shown'[n][t] > 0
  <2>1. ASSUME sending'[e] = sending[e] PROVE shown'[n][t] > 0
    BY <1>2, <2>1, RowsAndChatsKeep DEF Ready, ReadyFor, Busy
  <2>2. ASSUME NEW d \in Dispatchers, next_row(d) PROVE shown'[n][t] > 0
    <3>a. PICK m \in batch[d] :
            sending'[d] = [message |-> m, left |-> Targets, success |-> TRUE]
      BY <2>2, NextRowHolds
    <3>1. d = e => sending'[e].left = Targets
      BY <3>a
    <3>2. d # e => sending'[e] = sending[e]
      BY <2>2, NextRowHolds
    <3> QED
      BY <1>2, <2>1, <3>1, <3>2
  <2>3. ASSUME NEW d \in Dispatchers, NEW u \in Targets,
               send_message(d, u) \/ send_message_failed(d, u)
        PROVE  shown'[n][t] > 0
    <3>1. PICK answer \in BOOLEAN :
            /\ Answered(d, u, answer)
            /\ answer => Post(sending[d].message, u)
      BY <2>3 DEF send_message, send_message_failed
    <3>2. CASE d = e
      <4>1. /\ Busy(e, n) /\ answer /\ sending[e].success
            /\ sending'[e].left = sending[e].left \ {u} /\ sending[e].message = n
        <5>1. Busy(e, n)
          BY <1>2, <3>1, AnswerHolds
        <5>2. /\ sending'[e].success = (sending[e].success /\ answer)
              /\ sending'[e].left = sending[e].left \ {u}
          BY <3>1, <3>2, AnswerShape
        <5>3. sending[e] \in Sending
          BY <5>1, SendingShape DEF Busy
        <5> QED
          BY <1>2, <5>1, <5>2, <5>3 DEF Busy, Sending
      <4>2. CASE t = u
        <5>1. shown[n][u] \in 0..2
          BY DEF Shape
        <5> QED
          BY <3>1, <3>2, <4>1, <4>2, <5>1, PostCounts
      <4>3. CASE t # u
        BY <1>2, <4>1, <4>3, RowsAndChatsKeep DEF Ready, ReadyFor
      <4> QED
        BY <4>2, <4>3
    <3>3. CASE d # e
      BY <2>1, <3>1, <3>3, AnswerShape
    <3> QED
      BY <3>2, <3>3
  <2>4. ASSUME NEW d \in Dispatchers, RowHandled(d) PROVE shown'[n][t] > 0
    <3>1. d # e
      BY <1>2, <2>4, HandledHolds
    <3> QED
      BY <2>1, <2>4, <3>1, HandledHolds
  <2>5. CASE Crash
    BY <1>2, <2>5, CrashHolds
  <2>6. CASE UNCHANGED sending
    BY <2>1, <2>6
  <2> QED
    BY <2>2, <2>3, <2>4, <2>5, <2>6
       DEF Next, Poll, vars, enqueue_notification, BackoffElapsed, get_due_notifications,
           delete_notification, mark_notification_failed, write_failed
<1>3. ASSUME NEW n \in Messages, row'[n].state = "none" PROVE row'[n].attempts = 0
  <2>1. ASSUME NEW m \in Messages, enqueue_notification(m) PROVE row'[n] = row[n]
    BY <1>3, <2>1 DEF enqueue_notification, Shape, AnyRow
  <2>2. ASSUME NEW m \in Messages, BackoffElapsed(m)
        PROVE  row'[n].state = row[n].state /\ row'[n].attempts = row[n].attempts
    BY <2>2 DEF BackoffElapsed, Shape, AnyRow
  <2>3. ASSUME NEW d \in Dispatchers, delete_notification(d) PROVE row'[n] = row[n]
    BY <1>3, <2>3 DEF delete_notification, Shape, AnyRow
  <2>4. ASSUME NEW d \in Dispatchers, mark_notification_failed(d) PROVE row'[n] = row[n]
    BY <1>3, <2>4 DEF mark_notification_failed, Shape, AnyRow
  <2>5. CASE row' = row
    BY <1>3, <2>5 DEF Ready
  <2> QED
    BY <1>3, <2>1, <2>2, <2>3, <2>4, <2>5
       DEF Ready, Next, Poll, vars, get_due_notifications, next_row, send_message,
           send_message_failed, Answered, write_failed, Crash
<1> QED
  BY <1>1, <1>2, <1>3 DEF Ready, ReadyFor

Inv == Counted /\ Ready

\* The mailbox's variables, as functions of the outbox's.
Status == [m \in Messages |-> StatusOf(m)]
Seen == [m \in Messages |-> SeenBy(m)]

LEMMA StatusKept ==
    ASSUME \A m \in Messages : StatusOf(m)' = StatusOf(m)
    PROVE  Status' = Status
BY DEF Status

LEMMA SeenKept ==
    ASSUME shown' = shown
    PROVE  Seen' = Seen
BY DEF Seen, SeenBy

LEMMA StatusSet ==
    ASSUME NEW m \in Messages, NEW v, StatusOf(m)' = v,
           \A n \in Messages \ {m} : StatusOf(n)' = StatusOf(n)
    PROVE  Status' = [Status EXCEPT ![m] = v]
BY DEF Status

\* The status depends on the mode, the state and the attempts of the row alone.
LEMMA SameStatus ==
    ASSUME NEW n \in Messages, row'[n].state = row[n].state,
           row'[n].verbose = row[n].verbose, row'[n].attempts = row[n].attempts
    PROVE  StatusOf(n)' = StatusOf(n)
BY DEF StatusOf

LEMMA MailboxStart == Init => M!Init
BY DEF Init, M!Init, StatusOf, SeenBy

LEMMA MailboxStep == Inv /\ [Next]_vars => [M!Next]_(M!vars)
<1> SUFFICES ASSUME Inv, [Next]_vars PROVE M!Next \/ UNCHANGED <<Status, Seen>>
  BY DEF M!vars, Status, Seen
<1> USE DEF Inv, Counted
<1>1. ASSUME NEW m \in Messages, enqueue_notification(m) PROVE M!Submit(m) \/ M!Mute(m)
  <2>1. PICK v \in BOOLEAN : row' = [row EXCEPT ![m].state = "stored", ![m].verbose = v]
    BY <1>1 DEF enqueue_notification
  <2>2. row[m].attempts = 0 /\ row[m].state = "none"
    BY <1>1 DEF enqueue_notification, Ready
  <2>3. /\ row'[m].state = "stored" /\ row'[m].verbose = v /\ row'[m].attempts = 0
        /\ \A n \in Messages \ {m} : row'[n] = row[n]
    BY <2>1, <2>2 DEF Shape, AnyRow
  <2>4. \A n \in Messages \ {m} : StatusOf(n)' = StatusOf(n)
    BY <2>3, SameStatus
  <2>5. StatusOf(m) = "unsent"
    BY <2>2 DEF StatusOf
  <2>6. StatusOf(m)' = IF v THEN "queued" ELSE "muted"
    BY <2>3, OutboxBounds DEF StatusOf
  <2>7. Seen' = Seen
    BY <1>1, SeenKept DEF enqueue_notification
  <2>8. Status' = [Status EXCEPT ![m] = IF v THEN "queued" ELSE "muted"]
    BY <2>4, <2>6, StatusSet
  <2> QED
    BY <2>5, <2>7, <2>8 DEF M!Submit, M!Mute, Status, Seen
<1>2. ASSUME NEW d \in Dispatchers, NEW t \in Targets, Post(sending[d].message, t),
             sending[d] # Idle, row' = row
      PROVE  M!Show(sending[d].message, t)
  <2>1. PICK m \in Messages : m = sending[d].message
    BY <1>2, SendingShape
  <2>2. StatusOf(m) \in {"queued", "dead", "done"}
    BY <1>2, <2>1 DEF Ready, ReadyFor, Held, Busy, StatusOf
  <2>3. Status' = Status
    BY <1>2, StatusKept, SameStatus
  <2>4. shown[m] \in [Targets -> 0..2] /\ shown' \in [Messages -> [Targets -> 0..2]]
    BY <1>2, <2>1, PostCounts DEF Shape
  <2>5. shown'[m][t] > 0 /\ \A n \in Messages, u \in Targets :
                               n # m \/ u # t => shown'[n][u] = shown[n][u]
    BY <1>2, <2>1, <2>4, PostCounts
  <2>6. SeenBy(m)' = SeenBy(m) \cup {t} /\ \A n \in Messages \ {m} : SeenBy(n)' = SeenBy(n)
    BY <2>1, <2>5 DEF SeenBy
  <2>7. Seen' = [Seen EXCEPT ![m] = @ \cup {t}]
    BY <2>1, <2>6 DEF Seen
  <2> QED
    BY <2>1, <2>2, <2>3, <2>7 DEF M!Show, Status, Seen
<1>3. ASSUME NEW d \in Dispatchers, NEW t \in Targets,
             send_message(d, t) \/ send_message_failed(d, t)
      PROVE  M!Next \/ UNCHANGED <<Status, Seen>>
  <2>1. /\ sending[d] # Idle /\ row' = row
        /\ UNCHANGED shown \/ Post(sending[d].message, t)
    BY <1>3 DEF send_message, send_message_failed, Answered
  <2>2. CASE UNCHANGED shown
    BY <2>1, <2>2, StatusKept, SeenKept, SameStatus
  <2>3. CASE Post(sending[d].message, t)
    BY <1>2, <2>1, <2>3, SendingShape DEF M!Next
  <2> QED
    BY <2>1, <2>2, <2>3
<1>4. ASSUME NEW d \in Dispatchers, delete_notification(d)
      PROVE  M!Next \/ UNCHANGED <<Status, Seen>>
  <2>0. PICK m \in Messages : m = sending[d].message
    BY <1>4, HandledHolds DEF delete_notification
  <2>1. /\ m \in Messages /\ Busy(d, m) /\ sending[d].left = {} /\ sending[d].success
        /\ row' = [row EXCEPT ![m].state = "deleted"] /\ shown' = shown
    BY <1>4, <2>0, HandledHolds DEF delete_notification, RowHandled
  <2>2. row[m].state \in {"stored", "deleted"} /\ row[m].verbose /\ SeenBy(m) = Targets
    BY <2>1 DEF Ready, ReadyFor, Held, SeenBy
  <2>3. /\ row'[m].state = "deleted"
        /\ \A n \in Messages \ {m} : row'[n] = row[n]
    BY <2>1 DEF Shape, AnyRow
  <2>4. StatusOf(m) \in {"queued", "dead", "done"}
        /\ (StatusOf(m) = "done" <=> row[m].state = "deleted") /\ StatusOf(m)' = "done"
    BY <2>2, <2>3 DEF StatusOf
  <2>5. \A n \in Messages \ {m} : StatusOf(n)' = StatusOf(n)
    BY <2>3, SameStatus
  <2>6. Status' = [Status EXCEPT ![m] = "done"] /\ Seen' = Seen
    BY <2>1, <2>4, <2>5, StatusSet, SeenKept
  <2>7. CASE StatusOf(m) = "done"
    BY <2>4, <2>5, <2>6, <2>7, StatusKept
  <2>8. CASE StatusOf(m) # "done"
    <3>1. M!Retire(m)
      BY <2>1, <2>2, <2>4, <2>6, <2>8 DEF M!Retire, Status, Seen
    <3> QED
      BY <2>1, <3>1 DEF M!Next
  <2> QED
    BY <2>7, <2>8
<1>5. ASSUME NEW d \in Dispatchers, mark_notification_failed(d)
      PROVE  M!Next \/ UNCHANGED <<Status, Seen>>
  <2>0. PICK m \in Messages : m = sending[d].message
    BY <1>5, HandledHolds DEF mark_notification_failed
  <2>1. /\ m \in Messages /\ Busy(d, m) /\ shown' = shown
        /\ row' = IF row[m].state = "stored"
                  THEN [row EXCEPT ![m].attempts = @ + 1, ![m].waiting = TRUE]
                  ELSE row
    <3>1. /\ m \in Messages /\ Busy(d, m) /\ shown' = shown
      BY <1>5, <2>0, HandledHolds DEF mark_notification_failed, RowHandled
    <3>2. row' = IF row[m].state = "stored"
                 THEN [row EXCEPT ![m].attempts = @ + 1, ![m].waiting = TRUE]
                 ELSE row
      BY <1>5, <2>0 DEF mark_notification_failed
    <3> QED
      BY <3>1, <3>2
  <2>2. CASE row' = row
    BY <2>1, <2>2, StatusKept, SeenKept, SameStatus
  <2>3. CASE row' # row
    <3>1. row[m].state = "stored" /\ row[m].verbose /\ row[m].attempts \in Nat
      BY <2>1, <2>3 DEF Ready, ReadyFor, Held, Shape, AnyRow
    <3>2. /\ row'[m].state = "stored" /\ row'[m].verbose = row[m].verbose
          /\ row'[m].attempts = row[m].attempts + 1
          /\ \A n \in Messages \ {m} : row'[n] = row[n]
      BY <2>1, <3>1 DEF Shape, AnyRow
    <3>3. /\ StatusOf(m) = IF row[m].attempts < MaxAttempts THEN "queued" ELSE "dead"
          /\ StatusOf(m)' = IF row[m].attempts + 1 < MaxAttempts THEN "queued" ELSE "dead"
      BY <3>1, <3>2 DEF StatusOf
    <3>4. \A n \in Messages \ {m} : StatusOf(n)' = StatusOf(n)
      BY <3>2, SameStatus
    <3>5. Seen' = Seen
      BY <2>1, SeenKept
    <3>6. CASE StatusOf(m)' = StatusOf(m)
      BY <3>4, <3>5, <3>6, StatusKept
    <3>7. CASE StatusOf(m)' # StatusOf(m)
      <4>1. StatusOf(m) = "queued" /\ StatusOf(m)' = "dead"
        BY <3>1, <3>3, <3>7, OutboxBounds
      <4>2. Status' = [Status EXCEPT ![m] = "dead"]
        BY <2>1, <3>4, <4>1, StatusSet
      <4>3. M!GiveUp(m)
        BY <2>1, <3>5, <4>1, <4>2 DEF M!GiveUp, Status, Seen
      <4> QED
        BY <2>1, <4>3 DEF M!Next
    <3> QED
      BY <3>6, <3>7
  <2> QED
    BY <2>2, <2>3
<1>6. ASSUME NEW m \in Messages, BackoffElapsed(m) PROVE UNCHANGED <<Status, Seen>>
  <2>1. \A n \in Messages : /\ row'[n].state = row[n].state
                            /\ row'[n].verbose = row[n].verbose
                            /\ row'[n].attempts = row[n].attempts
    BY <1>6 DEF BackoffElapsed, Shape, AnyRow
  <2> QED
    BY <1>6, <2>1, StatusKept, SeenKept, SameStatus DEF BackoffElapsed
<1>7. CASE UNCHANGED <<row, shown>>
  BY <1>7, StatusKept, SeenKept, SameStatus
<1> QED
  BY <1>1, <1>3, <1>4, <1>5, <1>6, <1>7
     DEF Next, Poll, vars, M!Next, get_due_notifications, next_row, write_failed, Crash,
         RowHandled

\* Whatever fails, crashes or runs twice, the outbox is a mailbox: a row leaves
\* it only when every target was shown the message, is given up only for its
\* attempts, and a muted one is shown to nobody.
THEOREM OutboxIsMailbox == Spec => ImplementsMailbox
<1>1. Init => Inv
  BY CountedStart, ReadyStart DEF Inv
<1>2. Inv /\ [Next]_vars => Inv'
  BY CountedStep, ReadyStep DEF Inv
<1> QED
  BY <1>1, <1>2, MailboxStart, MailboxStep, PTL DEF Spec, ImplementsMailbox, M!Spec

=============================================================================
