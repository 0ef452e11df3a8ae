------------------------- MODULE PositionCDC_proofs -------------------------
(***************************************************************************)
(* Proofs about PositionCDC for every number of rows, versions, seconds,   *)
(* crashes and faults.                                                     *)
(***************************************************************************)
EXTENDS PositionCDC, TLAPS

-----------------------------------------------------------------------------
(* Type correctness *)

\* The row a poll fetched is a Snapshot, and its event an Event.
LEMMA SnapshotTypes ==
    ASSUME TypeOK
    PROVE  /\ \A r \in Rows : SnapshotOf(r) \in Snapshot
           /\ \A s \in Snapshot : EventOf(s) \in Event
  BY DEF TypeOK, SnapshotOf, Snapshot, EventOf, Event, Row

\* Every step of the writers, the CDC thread, the publisher, the clock and a
\* restart keeps the table, the poll and the queue well formed.
THEOREM TypeCorrect == Spec => []TypeOK
<1>1. Init => TypeOK
  BY BoundsAssumption DEF Init, TypeOK, Row, Versions, Times, Snapshot
<1>2. TypeOK /\ [Next]_vars => TypeOK'
  <2> SUFFICES ASSUME TypeOK, [Next]_vars PROVE TypeOK'
    OBVIOUS
  <2> USE BoundsAssumption
  <2>1. ASSUME NEW r \in Rows, insert_position(r) PROVE TypeOK'
    BY <2>1 DEF TypeOK, insert_position, Row, Versions, Times
  <2>2. ASSUME NEW r \in Rows, update_position_status(r) PROVE TypeOK'
    <3>1. /\ db[r] \in Row /\ clock \in Times
          /\ db[r].version \in 1..(MaxVersion - 1)
      BY <2>2 DEF TypeOK, update_position_status
    <3>2. db[r].version + 1 \in Versions
      BY <3>1 DEF Versions
    <3>3. db' \in [Rows -> Row]
      BY <2>2, <3>1, <3>2 DEF TypeOK, Row, update_position_status
    <3> QED
      BY <2>2, <3>3 DEF TypeOK, update_position_status
  <2>3. CASE get_pending_sync_positions
    <3>1. batch' \in SUBSET Snapshot
      BY <2>3, SnapshotTypes DEF get_pending_sync_positions, pending
    <3> QED
      BY <2>3, <3>1 DEF TypeOK, get_pending_sync_positions
  <2>4. ASSUME NEW s \in batch, publish(s) PROVE TypeOK'
    <3>1. s \in Snapshot /\ EventOf(s) \in Event
      BY SnapshotTypes DEF TypeOK
    <3>2. outbox' \in Seq(Event) /\ sent' \in SUBSET Event
      BY <2>4, <3>1 DEF TypeOK, publish
    <3> QED
      BY <2>4, <3>1, <3>2 DEF TypeOK, publish
  <2>5. CASE mark_position_synced
    <3>1. current \in Snapshot
      BY <2>5 DEF TypeOK, mark_position_synced
    <3>2. current.id \in Rows
      BY <3>1 DEF Snapshot
    <3>3. db' \in [Rows -> Row]
      BY <2>5, <3>2 DEF TypeOK, mark_position_synced, Row
    <3> QED
      BY <2>5, <3>3 DEF TypeOK, mark_position_synced
  <2>6. CASE mark_failed
    BY <2>6 DEF TypeOK, mark_failed
  <2>7. CASE drain
    <3>1. Head(outbox) \in Event /\ Tail(outbox) \in Seq(Event)
      BY <2>7 DEF TypeOK, drain
    <3>2. Head(outbox).id \in Rows /\ Head(outbox).version \in Versions
      BY <3>1 DEF Event
    <3> QED
      BY <2>7, <3>1, <3>2 DEF TypeOK, drain
  <2>8. CASE drain_failed
    <3>1. Tail(outbox) \in Seq(Event)
      BY <2>8 DEF TypeOK, drain_failed
    <3> QED
      BY <2>8, <3>1 DEF TypeOK, drain_failed
  <2>9. CASE Tick
    BY <2>9 DEF TypeOK, Tick, Times
  <2>10. CASE Crash
    BY <2>10 DEF TypeOK, Crash
  <2>11. CASE UNCHANGED vars
    BY <2>11 DEF TypeOK, vars
  <2> QED
    BY <2>1, <2>2, <2>3, <2>4, <2>5, <2>6, <2>7, <2>8, <2>9, <2>10, <2>11
    DEF Next, CDCStep
<1> QED
  BY <1>1, <1>2, PTL DEF Spec

-----------------------------------------------------------------------------
(* A PUBLISHED row was published with the stamp it carries *)

\* What is being marked has been handed to the publisher.
CurrentWasSent == current # NoRow => EventOf(current) \in sent

\* A row marked PUBLISHED was handed to the publisher with the stamp the row
\* still carries: the only content the mark can hide is content written in the
\* very second of the content that was published (`WHERE id = ? AND updated_at
\* = ?` in mark_position_synced).
PublishedWithinSecond ==
    \A r \in Rows : db[r].sync_status = "PUBLISHED" =>
        \E e \in sent : e.id = r /\ e.updated_at = db[r].updated_at

\* CurrentWasSent makes PublishedWithinSecond inductive: it is what
\* mark_position_synced knows of the row it marks.
PublishInv == TypeOK /\ CurrentWasSent /\ PublishedWithinSecond

\* The only content a PUBLISHED mark can hide was written in the second of the
\* content that was published, for any number of rows, writes and crashes.
THEOREM MarkHidesOneSecond == Spec => []PublishedWithinSecond
<1>1. Init => PublishInv
  <2>1. Init => TypeOK
    BY BoundsAssumption DEF Init, TypeOK, Row, Versions, Times, Snapshot
  <2> QED
    BY <2>1 DEF Init, PublishInv, CurrentWasSent, PublishedWithinSecond
<1>2. PublishInv /\ TypeOK' /\ [Next]_vars => PublishInv'
  <2> SUFFICES ASSUME PublishInv, TypeOK', [Next]_vars
               PROVE  CurrentWasSent' /\ PublishedWithinSecond'
    BY DEF PublishInv
  <2> USE DEF PublishInv
  <2>1. ASSUME NEW r \in Rows, insert_position(r) \/ update_position_status(r)
        PROVE  CurrentWasSent' /\ PublishedWithinSecond'
    <3>1. /\ db'[r].sync_status = "PENDING"
          /\ \A q \in Rows \ {r} : db'[q] = db[q]
          /\ UNCHANGED <<current, sent>>
      BY <2>1 DEF insert_position, update_position_status, TypeOK
    <3> QED
      BY <3>1 DEF CurrentWasSent, PublishedWithinSecond, EventOf
  <2>2. ASSUME NEW s \in batch, publish(s)
        PROVE  CurrentWasSent' /\ PublishedWithinSecond'
    BY <2>2 DEF publish, CurrentWasSent, PublishedWithinSecond, EventOf
  <2>3. CASE mark_position_synced
    <3>1. current \in Snapshot /\ EventOf(current) \in sent
      BY <2>3 DEF mark_position_synced, TypeOK, CurrentWasSent
    <3>2. /\ current.id \in Rows
          /\ EventOf(current).id = current.id
          /\ EventOf(current).updated_at = current.updated_at
      BY <3>1 DEF Snapshot, EventOf
    <3>3. CASE StillTheRowRead(current)
      <4>1. /\ db'[current.id].updated_at = current.updated_at
            /\ \A q \in Rows \ {current.id} : db'[q] = db[q]
            /\ UNCHANGED sent /\ current' = NoRow
        BY <2>3, <3>2, <3>3 DEF mark_position_synced, StillTheRowRead, TypeOK, Row
      <4> QED
        BY <3>1, <3>2, <4>1 DEF CurrentWasSent, PublishedWithinSecond
    <3>4. CASE ~StillTheRowRead(current)
      BY <2>3, <3>4 DEF mark_position_synced, CurrentWasSent, PublishedWithinSecond
    <3> QED
      BY <3>3, <3>4
  <2>4. CASE get_pending_sync_positions \/ mark_failed \/ drain \/ drain_failed
             \/ Tick \/ Crash \/ UNCHANGED vars
    <3>1. UNCHANGED <<db, sent>> /\ current' \in {current, NoRow}
      BY <2>4 DEF get_pending_sync_positions, mark_failed, drain, drain_failed,
                  Tick, Crash, vars
    <3> QED
      BY <3>1 DEF CurrentWasSent, PublishedWithinSecond, EventOf
  <2> QED
    BY <2>1, <2>2, <2>3, <2>4 DEF Next, CDCStep
<1> QED
  BY <1>1, <1>2, TypeCorrect, PTL DEF Spec, PublishInv

-----------------------------------------------------------------------------
(* UPDATED only after CREATED *)

CreatedSent(r) == \E c \in sent : c.id = r /\ c.event = "CREATED"

\* A sync_time, in the table or in what a poll holds, comes from a mark, and a
\* mark from a publication of the same row.
Announced ==
    /\ \A r \in Rows : db[r].synced => CreatedSent(r)
    /\ \A s \in batch : s.synced => CreatedSent(s.id)
    /\ current # NoRow => CreatedSent(current.id)
    /\ UpdatedAfterCreated

\* Whatever is published as UPDATED was published as CREATED before, over
\* crashes, failed marks and concurrent writes.
THEOREM CreatedFirst == Spec => []UpdatedAfterCreated
<1>1. Init => Announced
  BY DEF Init, Announced, UpdatedAfterCreated
<1>2. TypeOK /\ TypeOK' /\ Announced /\ [Next]_vars => Announced'
  <2> SUFFICES ASSUME TypeOK, TypeOK', Announced, [Next]_vars PROVE Announced'
    OBVIOUS
  <2>0. \A r : sent \subseteq sent' /\ CreatedSent(r) => CreatedSent(r)'
    BY DEF CreatedSent
  <2>1. ASSUME NEW r \in Rows, insert_position(r) \/ update_position_status(r)
        PROVE  Announced'
    <3>1. /\ db'[r].synced => db[r].synced
          /\ \A q \in Rows \ {r} : db'[q] = db[q]
          /\ UNCHANGED <<batch, current, sent>>
      BY <2>1 DEF insert_position, update_position_status, TypeOK, Row
    <3> QED
      BY <3>1 DEF Announced, CreatedSent, UpdatedAfterCreated
  <2>2. CASE get_pending_sync_positions
    <3>1. /\ \A s \in batch' : s.id \in Rows /\ (s.synced => db[s.id].synced)
          /\ UNCHANGED <<db, current, sent>>
      BY <2>2 DEF get_pending_sync_positions, pending, SnapshotOf
    <3> QED
      BY <3>1 DEF Announced, CreatedSent, UpdatedAfterCreated
  <2>3. ASSUME NEW s \in batch, publish(s) PROVE Announced'
    <3>1. /\ sent' = sent \cup {EventOf(s)}
          /\ current' = s /\ batch' \subseteq batch /\ db' = db
      BY <2>3 DEF publish
    <3>2. EventOf(s) \in sent' /\ EventOf(s).id = s.id
      BY <3>1 DEF EventOf
    <3>3. CreatedSent(s.id)'
      <4>1. CASE s.synced
        BY <2>0, <3>1, <4>1 DEF Announced
      <4>2. CASE ~s.synced
        BY <3>2, <4>2 DEF EventOf, CreatedSent
      <4> QED
        BY <4>1, <4>2
    <3>4. UpdatedAfterCreated'
      BY <3>1, <3>2, <3>3 DEF Announced, UpdatedAfterCreated, CreatedSent
    <3> QED
      BY <2>0, <3>1, <3>3, <3>4 DEF Announced
  <2>4. CASE mark_position_synced
    <3>1. current \in Snapshot /\ CreatedSent(current.id)
      BY <2>4 DEF mark_position_synced, TypeOK, Announced
    <3>2. /\ \A q \in Rows : q # current.id => db'[q] = db[q]
          /\ current' = NoRow /\ UNCHANGED <<batch, sent>>
      BY <2>4 DEF mark_position_synced, TypeOK
    <3> QED
      BY <3>1, <3>2 DEF Announced, CreatedSent, UpdatedAfterCreated
  <2>5. CASE mark_failed \/ drain \/ drain_failed \/ Tick \/ Crash \/ UNCHANGED vars
    <3>1. UNCHANGED <<db, sent>> /\ batch' \subseteq batch /\ current' \in {current, NoRow}
      BY <2>5 DEF mark_failed, drain, drain_failed, Tick, Crash, vars
    <3> QED
      BY <3>1 DEF Announced, CreatedSent, UpdatedAfterCreated
  <2> QED
    BY <2>1, <2>2, <2>3, <2>4, <2>5 DEF Next, CDCStep
<1> QED
  BY <1>1, <1>2, TypeCorrect, PTL DEF Spec, Announced

-----------------------------------------------------------------------------
(* The broker never goes back *)

\* The stages a content passes are ordered: broker, send queue, the poll's
\* batch, table.  Per row no later stage holds an older version, the queue is
\* sorted, and a poll holds a row once.
BrokerBehindTable == \A r \in Rows : broker[r] <= db[r].version
BatchOrdered ==
    /\ \A s \in batch : broker[s.id] <= s.version /\ s.version <= db[s.id].version
    /\ \A s, t \in batch : s.id = t.id => s = t
OutboxOrdered ==
    /\ \A i \in 1..Len(outbox) :
         /\ broker[outbox[i].id] <= outbox[i].version
         /\ outbox[i].version <= db[outbox[i].id].version
         /\ \A s \in batch : s.id = outbox[i].id => outbox[i].version <= s.version
    /\ \A i, j \in 1..Len(outbox) :
         i < j /\ outbox[i].id = outbox[j].id => outbox[i].version <= outbox[j].version
Ordered == BrokerBehindTable /\ BatchOrdered /\ OutboxOrdered

\* Version numbers compare as naturals.
LEMMA VersionsAreNaturals ==
    ASSUME TypeOK
    PROVE  /\ \A r \in Rows : db[r].version \in Nat /\ broker[r] \in Nat
           /\ \A s \in batch : s.id \in Rows /\ s.version \in Nat
           /\ Len(outbox) \in Nat
           /\ \A i \in 1..Len(outbox) : outbox[i].id \in Rows /\ outbox[i].version \in Nat
<1>1. Versions \subseteq Nat
  BY BoundsAssumption DEF Versions
<1>2. \A r \in Rows : db[r].version \in Nat /\ broker[r] \in Nat
  BY <1>1 DEF TypeOK, Row
<1>3. \A s \in batch : s.id \in Rows /\ s.version \in Nat
  BY <1>1 DEF TypeOK, Snapshot
<1>4. /\ Len(outbox) \in Nat
      /\ \A i \in 1..Len(outbox) : outbox[i] \in Event
  BY DEF TypeOK
<1>5. \A i \in 1..Len(outbox) : outbox[i].id \in Rows /\ outbox[i].version \in Nat
  BY <1>1, <1>4 DEF Event
<1> QED
  BY <1>2, <1>3, <1>4, <1>5

\* The queue without its head.
LEMMA TailOfOutbox ==
    ASSUME TypeOK, outbox # <<>>
    PROVE  /\ 1 \in 1..Len(outbox) /\ Head(outbox) = outbox[1]
           /\ Len(Tail(outbox)) = Len(outbox) - 1
           /\ \A i \in 1..Len(Tail(outbox)) :
                /\ Tail(outbox)[i] = outbox[i + 1]
                /\ 1 < i + 1 /\ i + 1 \in 1..Len(outbox)
<1>1. outbox \in Seq(Event)
  BY DEF TypeOK
<1> QED
  BY <1>1

\* Every step keeps the stages ordered.
LEMMA OrderedStep == TypeOK /\ TypeOK' /\ Ordered /\ [Next]_vars => Ordered'
<1> SUFFICES ASSUME TypeOK, TypeOK', Ordered, [Next]_vars PROVE Ordered'
  OBVIOUS
<1> USE VersionsAreNaturals
<1> USE DEF Ordered, BrokerBehindTable, BatchOrdered, OutboxOrdered
<1>1. ASSUME NEW r \in Rows, insert_position(r) \/ update_position_status(r)
      PROVE  Ordered'
  <2>1. /\ db[r].version <= db'[r].version
        /\ \A q \in Rows : q # r => db'[q] = db[q]
        /\ UNCHANGED <<batch, outbox, broker>>
    BY <1>1 DEF insert_position, update_position_status, TypeOK, Row
  <2>0. db \in [Rows -> Row] /\ db' \in [Rows -> Row]
    BY DEF TypeOK
  <2>2. \A q \in Rows : db[q].version <= db'[q].version /\ db'[q].version \in Nat
    BY <2>0, <2>1, BoundsAssumption DEF Row, Versions
  <2>3. BrokerBehindTable' /\ BatchOrdered'
    BY <2>1, <2>2
  <2>4. ASSUME NEW i \in 1..Len(outbox)
        PROVE  outbox[i].version <= db'[outbox[i].id].version
    <3>1. outbox[i].id \in Rows /\ outbox[i].version <= db[outbox[i].id].version
      OBVIOUS
    <3> QED
      BY <2>2, <3>1
  <2> QED
    BY <2>1, <2>3, <2>4
<1>2. CASE get_pending_sync_positions
  <2>1. /\ \A s \in batch' : s.id \in Rows /\ s = SnapshotOf(s.id)
        /\ UNCHANGED <<db, outbox, broker>>
    BY <1>2 DEF get_pending_sync_positions, pending, SnapshotOf
  <2>2. \A s \in batch' : s.version = db[s.id].version
    BY <2>1 DEF SnapshotOf
  <2>3. BrokerBehindTable'
    BY <2>1
  <2>4. ASSUME NEW s \in batch' PROVE broker'[s.id] <= s.version /\ s.version <= db'[s.id].version
    BY <2>1, <2>2
  <2>5. ASSUME NEW s \in batch', NEW t \in batch', s.id = t.id PROVE s = t
    BY <2>1, <2>5
  <2>6. ASSUME NEW i \in 1..Len(outbox), NEW s \in batch', s.id = outbox[i].id
        PROVE  outbox[i].version <= s.version
    BY <2>1, <2>2, <2>6
  <2>7. OutboxOrdered'
    BY <2>1, <2>6
  <2> QED
    BY <2>3, <2>4, <2>5, <2>7
<1>3. ASSUME NEW s \in batch, publish(s) PROVE Ordered'
  <2>1. /\ outbox' = Append(outbox, EventOf(s))
        /\ EventOf(s).id = s.id /\ EventOf(s).version = s.version
        /\ batch' = batch \ {s} /\ UNCHANGED <<db, broker>>
    BY <1>3 DEF publish, EventOf
  <2>2. /\ Len(outbox') = Len(outbox) + 1
        /\ \A i \in 1..Len(outbox) : outbox'[i] = outbox[i]
        /\ outbox'[Len(outbox) + 1] = EventOf(s)
    BY <2>1 DEF TypeOK
  <2>3. \A i \in 1..Len(outbox') : i \in 1..Len(outbox) \/ i = Len(outbox) + 1
    BY <2>2
  <2>4. BrokerBehindTable' /\ BatchOrdered'
    BY <2>1
  <2>5. ASSUME NEW i \in 1..Len(outbox')
        PROVE  /\ broker[outbox'[i].id] <= outbox'[i].version
               /\ outbox'[i].version <= db[outbox'[i].id].version
               /\ \A t \in batch' : t.id = outbox'[i].id => outbox'[i].version <= t.version
    BY <2>1, <2>2, <2>3
  <2>6. ASSUME NEW i \in 1..Len(outbox'), NEW j \in 1..Len(outbox'),
               i < j, outbox'[i].id = outbox'[j].id
        PROVE  outbox'[i].version <= outbox'[j].version
    BY <2>1, <2>2, <2>3, <2>6
  <2> QED
    BY <2>1, <2>4, <2>5, <2>6
<1>4. CASE mark_position_synced
  <2>1. /\ \A q \in Rows : db'[q].version = db[q].version
        /\ UNCHANGED <<batch, outbox, broker>>
    BY <1>4 DEF mark_position_synced, TypeOK, Row
  <2> QED
    BY <2>1
<1>5. CASE drain \/ drain_failed
  <2>1. /\ outbox # <<>> /\ outbox' = Tail(outbox) /\ UNCHANGED <<db, batch>>
        /\ \/ broker' = broker
           \/ broker' = [broker EXCEPT ![Head(outbox).id] = Head(outbox).version]
    BY <1>5 DEF drain, drain_failed
  <2>2. /\ 1 \in 1..Len(outbox) /\ Len(outbox') = Len(outbox) - 1
        /\ \A i \in 1..Len(outbox') :
             outbox'[i] = outbox[i + 1] /\ 1 < i + 1 /\ i + 1 \in 1..Len(outbox)
    BY <2>1, TailOfOutbox
  <2>3. \A r \in Rows :
          \/ broker'[r] = broker[r]
          \/ r = outbox[1].id /\ broker'[r] = outbox[1].version
    BY <2>1, TailOfOutbox DEF TypeOK
  <2>4. BrokerBehindTable' /\ BatchOrdered'
    BY <2>1, <2>2, <2>3
  <2>5. ASSUME NEW i \in 1..Len(outbox')
        PROVE  /\ broker'[outbox'[i].id] <= outbox'[i].version
               /\ outbox'[i].version <= db[outbox'[i].id].version
               /\ \A t \in batch : t.id = outbox'[i].id => outbox'[i].version <= t.version
    <3> DEFINE k == i + 1
    <3>1. 1 < k /\ k \in 1..Len(outbox) /\ 1 \in 1..Len(outbox) /\ outbox'[i] = outbox[k]
      BY <2>2
    <3> HIDE DEF k
    <3>2. /\ broker[outbox[k].id] <= outbox[k].version
          /\ outbox[k].version <= db[outbox[k].id].version
          /\ \A t \in batch : t.id = outbox[k].id => outbox[k].version <= t.version
          /\ outbox[1].id = outbox[k].id => outbox[1].version <= outbox[k].version
          /\ outbox[k].id \in Rows
      BY <3>1
    <3> QED
      BY <2>3, <3>1, <3>2
  <2>6. ASSUME NEW i \in 1..Len(outbox'), NEW j \in 1..Len(outbox'),
               i < j, outbox'[i].id = outbox'[j].id
        PROVE  outbox'[i].version <= outbox'[j].version
    <3> DEFINE k == i + 1  l == j + 1
    <3>1. /\ k \in 1..Len(outbox) /\ l \in 1..Len(outbox) /\ k < l
          /\ outbox'[i] = outbox[k] /\ outbox'[j] = outbox[l]
      BY <2>2, <2>6
    <3> HIDE DEF k, l
    <3> QED
      BY <2>6, <3>1
  <2> QED
    BY <2>1, <2>4, <2>5, <2>6
<1>6. CASE Crash
  BY <1>6 DEF Crash
<1>7. CASE mark_failed \/ Tick \/ UNCHANGED vars
  BY <1>7 DEF mark_failed, Tick, vars
<1> QED
  BY <1>1, <1>2, <1>3, <1>4, <1>5, <1>6, <1>7 DEF Next, CDCStep

\* Whatever the interleaving of writes, polls, queue and restarts, the version
\* the broker holds of a row never decreases.
THEOREM NeverGoesBack == Spec => BrokerNeverGoesBack
<1>1. Init => Ordered
  BY DEF Init, Ordered, BrokerBehindTable, BatchOrdered, OutboxOrdered
<1>2. TypeOK /\ Ordered /\ [Next]_vars => [\A r \in Rows : broker'[r] >= broker[r]]_vars
  <2> SUFFICES ASSUME TypeOK, Ordered, Next, NEW r \in Rows
               PROVE  broker'[r] >= broker[r]
    OBVIOUS
  <2> USE VersionsAreNaturals
  <2>1. CASE drain
    <3>1. /\ 1 \in 1..Len(outbox)
          /\ broker' = [broker EXCEPT ![outbox[1].id] = outbox[1].version]
      BY <2>1, TailOfOutbox DEF drain
    <3> QED
      BY <3>1 DEF TypeOK, Ordered, OutboxOrdered
  <2>2. CASE ~drain
    <3>1. UNCHANGED broker
      BY <2>2 DEF Next, CDCStep, insert_position, update_position_status, publish,
         get_pending_sync_positions, mark_position_synced, mark_failed, drain_failed,
         Tick, Crash
    <3> QED
      BY <3>1
  <2> QED
    BY <2>1, <2>2
<1> QED
  BY <1>1, <1>2, TypeCorrect, OrderedStep, PTL DEF Spec, BrokerNeverGoesBack

-----------------------------------------------------------------------------
(* What was published is accounted for *)

Queued(e) == \E i \in 1..Len(outbox) : outbox[i] = e

\* Where an event can be once it was handed to the publisher; the broker may hold
\* its content or a later one, because it never goes back.
Accounted == \A e \in sent : broker[e.id] >= e.version \/ Queued(e) \/ e \in lost

\* An event that is taken off the queue was its head.
LEMMA HeadOrQueued ==
    ASSUME TypeOK, outbox # <<>>, outbox' = Tail(outbox), NEW e, Queued(e)
    PROVE  e = Head(outbox) \/ Queued(e)'
<1>1. PICK i \in 1..Len(outbox) : outbox[i] = e
  BY DEF Queued
<1>2. CASE i = 1
  BY <1>1, <1>2, TailOfOutbox
<1>3. CASE i # 1
  <2>1. Len(outbox) \in Nat /\ i \in 1..Len(outbox) /\ i - 1 \in 1..(Len(outbox) - 1)
    BY <1>3 DEF TypeOK
  <2>2. Len(outbox') = Len(outbox) - 1 /\ outbox'[i - 1] = outbox[(i - 1) + 1]
    BY <2>1, TailOfOutbox
  <2>3. (i - 1) + 1 = i
    BY <2>1
  <2> QED
    BY <1>1, <2>1, <2>2, <2>3 DEF Queued
<1> QED
  BY <1>2, <1>3

LEMMA AccountedStep ==
    TypeOK /\ TypeOK' /\ Ordered /\ Accounted /\ [Next]_vars => Accounted'
<1> SUFFICES ASSUME TypeOK, TypeOK', Ordered, Accounted, [Next]_vars,
                    NEW e \in sent'
             PROVE  broker'[e.id] >= e.version \/ Queued(e)' \/ e \in lost'
  BY DEF Accounted
<1> USE VersionsAreNaturals
<1>0. e \in Event /\ e.id \in Rows /\ e.version \in Nat
  BY BoundsAssumption DEF TypeOK, Event, Versions
<1>1. ASSUME NEW s \in batch, publish(s)
      PROVE  broker'[e.id] >= e.version \/ Queued(e)' \/ e \in lost'
  <2>1. /\ outbox' = Append(outbox, EventOf(s)) /\ sent' = sent \cup {EventOf(s)}
        /\ UNCHANGED <<broker, lost>>
    BY <1>1 DEF publish
  <2>2. /\ Len(outbox') = Len(outbox) + 1 /\ Len(outbox) \in Nat
        /\ \A i \in 1..Len(outbox) : outbox'[i] = outbox[i]
        /\ outbox'[Len(outbox) + 1] = EventOf(s)
    BY <2>1 DEF TypeOK
  <2>3. CASE e = EventOf(s)
    BY <2>2, <2>3 DEF Queued
  <2>4. CASE e # EventOf(s)
    BY <2>1, <2>2, <2>4 DEF Accounted, Queued
  <2> QED
    BY <2>3, <2>4
<1>2. CASE drain
  <2>1. /\ outbox # <<>> /\ outbox' = Tail(outbox) /\ UNCHANGED <<sent, lost>>
        /\ broker' = [broker EXCEPT ![Head(outbox).id] = Head(outbox).version]
    BY <1>2 DEF drain
  <2>2. 1 \in 1..Len(outbox) /\ Head(outbox) = outbox[1]
    BY <2>1, TailOfOutbox
  <2>3. /\ Head(outbox).id \in Rows /\ Head(outbox).version \in Nat
        /\ broker[Head(outbox).id] <= Head(outbox).version
    BY <2>2 DEF Ordered, OutboxOrdered
  <2>4. broker'[e.id] >= broker[e.id] /\ broker[e.id] \in Nat
    BY <1>0, <2>1, <2>3 DEF TypeOK
  <2>5. CASE e = Head(outbox)
    BY <2>1, <2>3, <2>5 DEF TypeOK
  <2>6. CASE broker[e.id] >= e.version
    <3>1. broker'[e.id] \in Nat
      BY <1>0, <2>1, <2>3 DEF TypeOK
    <3> QED
      BY <1>0, <2>4, <2>6, <3>1
  <2>7. CASE Queued(e)
    BY <2>1, <2>5, <2>7, HeadOrQueued
  <2> QED
    BY <2>1, <2>5, <2>6, <2>7 DEF Accounted
<1>3. CASE drain_failed
  <2>1. /\ outbox # <<>> /\ outbox' = Tail(outbox) /\ UNCHANGED <<sent, broker>>
        /\ lost' = lost \cup {Head(outbox)}
    BY <1>3 DEF drain_failed
  <2> QED
    BY <2>1, HeadOrQueued DEF Accounted
<1>4. CASE Crash
  <2>1. /\ UNCHANGED <<sent, broker>>
        /\ lost' = lost \cup {outbox[i] : i \in 1..Len(outbox)}
    BY <1>4 DEF Crash
  <2> QED
    BY <2>1 DEF Accounted, Queued
<1>5. CASE UNCHANGED <<outbox, broker, sent, lost>>
  BY <1>5 DEF Accounted, Queued
<1>6. \/ \E s \in batch : publish(s)
      \/ drain \/ drain_failed \/ Crash
      \/ UNCHANGED <<outbox, broker, sent, lost>>
  BY DEF Next, CDCStep, insert_position, update_position_status, mark_position_synced,
         get_pending_sync_positions, mark_failed, Tick, vars
<1> QED
  BY <1>1, <1>2, <1>3, <1>4, <1>5, <1>6

\* What a PUBLISHED mark stands for is at the broker, on its way there, or was in
\* the queue when the process died or its publish failed: nothing else loses it.
THEOREM PublishedIsAccounted == Spec => []PublishedReachesBroker
<1>1. Init => Ordered
  BY DEF Init, Ordered, BrokerBehindTable, BatchOrdered, OutboxOrdered
<1>2. Init => Accounted
  BY DEF Init, Accounted
<1>3. PublishedWithinSecond /\ Accounted => PublishedReachesBroker
  BY DEF PublishedWithinSecond, Accounted, PublishedReachesBroker, Queued
<1> QED
  BY <1>1, <1>2, <1>3, TypeCorrect, OrderedStep, AccountedStep, MarkHidesOneSecond,
     PTL DEF Spec

=============================================================================
