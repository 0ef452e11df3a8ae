---------------------------- MODULE PositionCDC ----------------------------
(***************************************************************************)
(* Change data capture from the SQLite `positions` table to the NATS TRADE *)
(* subject (worker/jobs/cdc_job.py, with the store operations it uses in   *)
(* worker/db/repository.py and the publisher of                            *)
(* worker/services/nats_service.py).                                       *)
(*                                                                         *)
(* Writers (listener, event stream, reconciler) insert and update rows on  *)
(* their own threads; the CDC thread reads the PENDING rows, hands one     *)
(* event per row to the publisher and marks the row PUBLISHED only if its  *)
(* `updated_at` is still the one it read.  CURRENT_TIMESTAMP has a         *)
(* resolution of one second, so `clock` counts seconds and several writes  *)
(* may carry the same stamp.  The content of a row is abstracted to a      *)
(* version number: every write of the row produces the next version.       *)
(***************************************************************************)
EXTENDS Naturals, Sequences

CONSTANTS
    Rows,          \* ids of the positions rows
    NoRow,         \* the CDC thread is between two rows
    MaxVersion,    \* bound: writes of one row (its insert included)
    MaxClock,      \* bound: seconds that pass
    MaxCrashes,    \* bound: crashes of the worker process
    MaxFaults      \* bound: failed marks and failed nc.publish calls

ASSUME BoundsAssumption ==
    /\ MaxVersion \in Nat
    /\ MaxClock \in Nat
    /\ MaxCrashes \in Nat
    /\ MaxFaults \in Nat

VARIABLES
    db,        \* the positions table, as far as the CDC reads and writes it
    clock,     \* wall clock in seconds, what CURRENT_TIMESTAMP returns
    batch,     \* rows the current poll has fetched and not handled yet
    current,   \* the fetched row being handled: published, not yet marked
    outbox,    \* NATSPublisher._send_queue: in memory only
    broker,    \* version the broker holds of each row (0: none)
    sent,      \* history: every event ever handed to publisher.publish
    lost,      \* history: the events of it that went down with the queue or failed
    crashes,   \* crashes so far
    faults     \* faults so far

vars == <<db, clock, batch, current, outbox, broker, sent, lost, crashes, faults>>

-----------------------------------------------------------------------------
(* Types *)

Versions == 0..MaxVersion
Times == 0..MaxClock

\* One positions row.  version = 0: not inserted yet.  synced: sync_time IS NOT
\* NULL.
Row == [version: Versions, updated_at: Times,
        sync_status: {"PENDING", "PUBLISHED"}, synced: BOOLEAN]

\* What `_poll` holds of a row it fetched.
Snapshot == [id: Rows, version: Versions, updated_at: Times, synced: BOOLEAN]

\* A PositionEvent on the TRADE subject.
Event == [id: Rows, event: {"CREATED", "UPDATED"}, version: Versions,
          updated_at: Times]

ASSUME NoRowAssumption == NoRow \notin Snapshot

TypeOK ==
    /\ db \in [Rows -> Row]
    /\ clock \in Times
    /\ batch \in SUBSET Snapshot
    /\ current \in Snapshot \cup {NoRow}
    /\ outbox \in Seq(Event)
    /\ broker \in [Rows -> Versions]
    /\ sent \in SUBSET Event
    /\ lost \in SUBSET Event
    /\ crashes \in 0..MaxCrashes
    /\ faults \in 0..MaxFaults

-----------------------------------------------------------------------------
(* Initial state: an empty table and a worker that has just started. *)

Init ==
    /\ db = [r \in Rows |-> [version |-> 0, updated_at |-> 0,
                             sync_status |-> "PENDING", synced |-> FALSE]]
    /\ clock = 0
    /\ batch = {}
    /\ current = NoRow
    /\ outbox = <<>>
    /\ broker = [r \in Rows |-> 0]
    /\ sent = {}
    /\ lost = {}
    /\ crashes = 0
    /\ faults = 0

-----------------------------------------------------------------------------
(* Writers of the table *)

\* INSERT INTO positions (insert_position, insert_rejected_position): the
\* column defaults make the row PENDING with sync_time NULL.
insert_position(r) ==
    /\ db[r].version = 0
    /\ MaxVersion > 0
    /\ db' = [db EXCEPT ![r] = [version |-> 1, updated_at |-> clock,
                                sync_status |-> "PENDING", synced |-> FALSE]]
    /\ UNCHANGED <<clock, batch, current, outbox, broker, sent, lost, crashes, faults>>

\* UPDATE positions ... SET sync_status = 'PENDING', updated_at =
\* CURRENT_TIMESTAMP WHERE ref_source_id = ?
update_position_status(r) ==
    /\ db[r].version \in 1..(MaxVersion - 1)
    /\ db' = [db EXCEPT ![r] = [version |-> @.version + 1, updated_at |-> clock,
                                sync_status |-> "PENDING", synced |-> @.synced]]
    /\ UNCHANGED <<clock, batch, current, outbox, broker, sent, lost, crashes, faults>>

-----------------------------------------------------------------------------
(* The CDC thread *)

pending == {r \in Rows : db[r].version > 0 /\ db[r].sync_status = "PENDING"}

SnapshotOf(r) == [id |-> r, version |-> db[r].version,
                  updated_at |-> db[r].updated_at, synced |-> db[r].synced]

\* get_pending_sync_positions: SELECT * WHERE sync_status = 'PENDING'.  There is
\* no ORDER BY, so the rows of a poll are handled in any order.  An empty result
\* ends the poll.
get_pending_sync_positions ==
    /\ batch = {} /\ current = NoRow
    /\ pending # {}
    /\ batch' = {SnapshotOf(r) : r \in pending}
    /\ UNCHANGED <<db, clock, current, outbox, broker, sent, lost, crashes, faults>>

\* Mutation: the event type guessed from the content, not from sync_time.
EventOfByContent(s) == [id |-> s.id, event |-> IF s.version > 1 THEN "UPDATED" ELSE "CREATED",
                        version |-> s.version, updated_at |-> s.updated_at]

\* The event `_poll` builds from a fetched row: CREATED while sync_time is NULL.
EventOf(s) == [id |-> s.id, event |-> IF s.synced THEN "UPDATED" ELSE "CREATED",
               version |-> s.version, updated_at |-> s.updated_at]

\* Mutation: the queue keeps the newest event only.
publish_newest(s) ==
    /\ current = NoRow
    /\ s \in batch
    /\ batch' = batch \ {s}
    /\ current' = s
    /\ outbox' = <<EventOf(s)>>
    /\ sent' = sent \cup {EventOf(s)}
    /\ UNCHANGED <<db, clock, broker, lost, crashes, faults>>

\* publisher.publish for the next fetched row: the event goes on the send queue,
\* nothing more.
publish(s) ==
    /\ current = NoRow
    /\ s \in batch
    /\ batch' = batch \ {s}
    /\ current' = s
    /\ outbox' = Append(outbox, EventOf(s))
    /\ sent' = sent \cup {EventOf(s)}
    /\ UNCHANGED <<db, clock, broker, lost, crashes, faults>>

\* Mutation: WHERE that only matches a row never marked before.
NeverMarked(s) ==
    /\ db[s.id].updated_at = s.updated_at
    /\ db[s.id].sync_status = "PENDING"
    /\ ~db[s.id].synced

\* The WHERE clause of mark_position_synced.
StillTheRowRead(s) ==
    /\ db[s.id].updated_at = s.updated_at
    /\ db[s.id].sync_status = "PENDING"

\* mark_position_synced for the row just published.  No match in the WHERE
\* clause: the row was modified concurrently and is left PENDING.
mark_position_synced ==
    /\ current # NoRow
    /\ db' = IF StillTheRowRead(current)
             THEN [db EXCEPT ![current.id].sync_status = "PUBLISHED",
                             ![current.id].synced = TRUE]
             ELSE db
    /\ current' = NoRow
    /\ UNCHANGED <<clock, batch, outbox, broker, sent, lost, crashes, faults>>

\* The UPDATE raises (database locked): the error is logged, False returned, the
\* row stays PENDING.
mark_failed ==
    /\ current # NoRow
    /\ faults < MaxFaults
    /\ faults' = faults + 1
    /\ current' = NoRow
    /\ UNCHANGED <<db, clock, batch, outbox, broker, sent, lost, crashes>>

-----------------------------------------------------------------------------
(* The publisher's event loop *)

\* Mutation: the queue drained from its end.
drain_last ==
    /\ outbox # <<>>
    /\ broker' = [broker EXCEPT ![outbox[Len(outbox)].id] = outbox[Len(outbox)].version]
    /\ outbox' = SubSeq(outbox, 1, Len(outbox) - 1)
    /\ UNCHANGED <<db, clock, batch, current, sent, lost, crashes, faults>>

\* nc.publish succeeds and the broker upserts the row under its ticket.
drain ==
    /\ outbox # <<>>
    /\ broker' = [broker EXCEPT ![Head(outbox).id] = Head(outbox).version]
    /\ outbox' = Tail(outbox)
    /\ UNCHANGED <<db, clock, batch, current, sent, lost, crashes, faults>>

\* nc.publish raises: the message was already taken off the queue and is only
\* logged.
drain_failed ==
    /\ outbox # <<>>
    /\ faults < MaxFaults
    /\ faults' = faults + 1
    /\ outbox' = Tail(outbox)
    /\ lost' = lost \cup {Head(outbox)}
    /\ UNCHANGED <<db, clock, batch, current, broker, sent, crashes>>

-----------------------------------------------------------------------------
(* Environment *)

Tick ==
    /\ clock < MaxClock
    /\ clock' = clock + 1
    /\ UNCHANGED <<db, batch, current, outbox, broker, sent, lost, crashes, faults>>

\* The process dies and is started again: the table survives, the poll in
\* progress and the send queue do not.
Crash ==
    /\ crashes < MaxCrashes
    /\ crashes' = crashes + 1
    /\ batch' = {}
    /\ current' = NoRow
    /\ outbox' = <<>>
    /\ lost' = lost \cup {outbox[i] : i \in 1..Len(outbox)}
    /\ UNCHANGED <<db, clock, broker, sent, faults>>

-----------------------------------------------------------------------------
CDCStep ==
    \/ get_pending_sync_positions
    \/ \E s \in batch : publish(s)
    \/ mark_position_synced

Next ==
    \/ \E r \in Rows : insert_position(r) \/ update_position_status(r)
    \/ CDCStep
    \/ mark_failed
    \/ drain
    \/ drain_failed
    \/ Tick
    \/ Crash

Spec == Init /\ [][Next]_vars

\* The CDC thread polls for ever and the publisher loop never stops draining;
\* nothing is assumed of writers, clock, faults and crashes.
FairSpec == Spec /\ WF_vars(CDCStep) /\ WF_vars(drain)

-----------------------------------------------------------------------------
(* Properties *)

\* What a row marked PUBLISHED stands for is not silently dropped: an event with
\* the stamp the row still carries was published, and it is on its way or the
\* broker holds that content or a newer one, unless this very event was in the
\* in-memory queue when the process died or was the one whose nc.publish raised.
\* The mark can only hide content written in the very second of the content that
\* was published (NATSPublisher.publish, _publisher_loop, mark_position_synced's
\* `WHERE id = ? AND updated_at = ?`).
PublishedReachesBroker ==
    \A r \in Rows : db[r].sync_status = "PUBLISHED" =>
        \E e \in sent :
            /\ e.id = r /\ e.updated_at = db[r].updated_at
            /\ \/ broker[r] >= e.version
               \/ \E i \in 1..Len(outbox) : outbox[i] = e
               \/ e \in lost

\* The broker sees a row UPDATED only if the row was announced as CREATED
\* before, whatever crashes or concurrent writes happened in between (the
\* event type comes from sync_time, which only the mark sets).
UpdatedAfterCreated ==
    \A e \in sent : e.event = "UPDATED" =>
        \E c \in sent : c.id = e.id /\ c.event = "CREATED"

\* Fetch, publish and mark of one row never put an older content of the row
\* after a newer one: the idempotent upsert at the broker never goes back.
BrokerNeverGoesBack ==
    [][\A r \in Rows : broker'[r] >= broker[r]]_vars

\* Once the writers leave the table alone every row ends up PUBLISHED: a poll
\* interrupted by a crash, a failed mark or a concurrent write is made good by a
\* later poll.
EventuallyPublished ==
    <>[](pending = {})

=============================================================================
