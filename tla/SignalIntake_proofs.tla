------------------------ MODULE SignalIntake_proofs ------------------------
(***************************************************************************)
(* The intake of signals, for any set of signals, any number of reconnect  *)
(* threads and any number of lost connections, failing accesses and        *)
(* restarts.                                                               *)
(***************************************************************************)
EXTENDS SignalIntake, FiniteSetTheorems, TLAPS

-----------------------------------------------------------------------------
(* Types *)

LEMMA TypeStart == Init => TypeOK
<1> SUFFICES ASSUME Init PROVE TypeOK
  OBVIOUS
<1>1. NoReply \in Replies
  BY DEF NoReply, Replies
<1>2. <<>> \in Seq(Signals \cup BOOLEAN) /\ <<>> \in Seq(Signals)
  OBVIOUS
<1>3. pc \in [Threads -> {"off", "announce", "settings", "magics", "gate", "replay", "listen"}]
  BY DEF Init
<1>4. ack \in [Threads -> Replies] /\ work \in [Threads -> Work \cup {None}]
  BY <1>1 DEF Init
<1>5. executed \in [Signals -> Nat] /\ excused \in [Signals -> Nat] /\ trouble \in 0..MaxTrouble
  BY Bound DEF Init
<1> QED
  BY <1>2, <1>3, <1>4, <1>5 DEF Init, TypeOK

LEMMA TroubleTypes == TypeOK /\ (Trouble \/ UNCHANGED trouble) => trouble' \in 0..MaxTrouble
BY Bound DEF TypeOK, Trouble

LEMMA WorkTypes ==
    ASSUME TypeOK, NEW t \in Threads, NEW w \in Work \cup {None}, work' = [work EXCEPT ![t] = w]
    PROVE  work' \in [Threads -> Work \cup {None}]
BY DEF TypeOK

LEMMA AdvanceTypes ==
    ASSUME TypeOK, NEW t \in Threads, NEW from, NEW to \in Steps, At(t, from), Advance(t, to)
    PROVE  /\ work[t] \in Work /\ work[t].signal \in Signals /\ work[t].step = from
           /\ work' = [work EXCEPT ![t] = [signal |-> work[t].signal, step |-> to]]
           /\ work' \in [Threads -> Work \cup {None}]
<1>1. work[t] \in Work
  BY DEF TypeOK, At
<1>2. work' = [work EXCEPT ![t] = [signal |-> work[t].signal, step |-> to]]
  <2>1. [work[t] EXCEPT !.step = to] = [signal |-> work[t].signal, step |-> to]
    BY <1>1 DEF Work
  <2> QED
    BY <2>1 DEF Advance
<1>3. [signal |-> work[t].signal, step |-> to] \in Work
  BY <1>1 DEF Work
<1> QED
  BY <1>1, <1>2, <1>3, WorkTypes DEF Work, At

LEMMA FinishTypes ==
    ASSUME TypeOK, NEW t \in Threads, NEW from, At(t, from), Finish(t)
    PROVE  /\ work[t] \in Work /\ work[t].signal \in Signals /\ work[t].step = from
           /\ work' = [work EXCEPT ![t] = None]
           /\ work' \in [Threads -> Work \cup {None}] /\ handled' \subseteq Signals
BY DEF TypeOK, At, Finish, Work

LEMMA TakeUpTypes ==
    ASSUME TypeOK, NEW t \in Threads, NEW s \in Signals, TakeUp(t, s)
    PROVE  /\ work' = [work EXCEPT ![t] = [signal |-> s, step |-> "gate"]]
           /\ work' \in [Threads -> Work \cup {None}]
           /\ excused' \in [Signals -> Nat]
           /\ excused' = IF Held(t, s) THEN [excused EXCEPT ![s] = excused[s] + 1] ELSE excused
<1>1. [signal |-> s, step |-> "gate"] \in Work
  BY DEF Work, Steps
<1>2. work' = [work EXCEPT ![t] = [signal |-> s, step |-> "gate"]]
  BY DEF TakeUp
<1>3. excused' = IF Held(t, s) THEN [excused EXCEPT ![s] = excused[s] + 1] ELSE excused
  BY DEF TakeUp, Excuse
<1> QED
  BY <1>1, <1>2, <1>3, WorkTypes DEF TypeOK

LEMMA GotoTypes ==
    ASSUME TypeOK, NEW t \in Threads,
           NEW step \in {"off", "announce", "settings", "magics", "gate", "replay", "listen"},
           Goto(t, step)
    PROVE  pc' \in [Threads -> {"off", "announce", "settings", "magics", "gate", "replay", "listen"}]
BY DEF TypeOK, Goto

LEMMA AckTypes ==
    ASSUME TypeOK, NEW t \in Threads, NEW r \in Replies, ack' = [ack EXCEPT ![t] = r]
    PROVE  ack' \in [Threads -> Replies]
BY DEF TypeOK

\* A section that was applied is taken out of the reply; the rest stays.
LEMMA AppliedTypes ==
    ASSUME TypeOK, NEW t \in Threads,
           \/ Applied(t, [ack[t] EXCEPT !.blocked = None, !.stale = FALSE])
           \/ Applied(t, [ack[t] EXCEPT !.magics = None])
    PROVE  /\ ack' \in [Threads -> Replies]
           /\ \A u \in Threads : ack'[u].retry = ack[u].retry /\ (u # t => ack'[u] = ack[u])
<1> DEFINE first == [ack[t] EXCEPT !.blocked = None, !.stale = FALSE]
           second == [ack[t] EXCEPT !.magics = None]
<1>1. ack[t] \in Replies
  BY DEF TypeOK
<1>2. /\ first \in Replies /\ first.retry = ack[t].retry
      /\ second \in Replies /\ second.retry = ack[t].retry
  BY <1>1 DEF Replies
<1>3. ack' = [ack EXCEPT ![t] = first] \/ ack' = [ack EXCEPT ![t] = second]
  BY DEF Applied
<1> HIDE DEF first, second
<1> QED
  BY <1>2, <1>3, AckTypes DEF TypeOK

LEMMA DeliverTypes ==
    ASSUME TypeOK, NEW m \in Signals \cup BOOLEAN, Deliver(m)
    PROVE  queue' \in Seq(Signals \cup BOOLEAN)
BY DEF TypeOK, Deliver

LEMMA TypeStep == TypeOK /\ [Next]_vars => TypeOK'
<1> SUFFICES ASSUME TypeOK, [Next]_vars PROVE TypeOK'
  OBVIOUS
<1> USE DEF linkVars, brokerVars, tableVars, threadVars, signalHistory, settingHistory
<1>1. trouble' \in 0..MaxTrouble
  BY TroubleTypes, Bound
     DEF Next, vars, publish_signal, change_settings, subscribe, publisher_reconnects,
         connection_lost, _announce_worker_connected, handshake_refused, Handshake,
         _apply_worker_settings, _apply_strategy_magic_map, _replay_blocked_reason,
         _apply_retry_signals, handshake_done, ProcessSignal, signal_gate, entry_guards,
         handle_filled, handle_refused, handle_raised, log_position, insert_position,
         update_position_status, Listen, _set_signals_blocked, _process_message, Crash
<1>2. ASSUME NEW s \in Signals, publish_signal(s) PROVE TypeOK'
  <2>1. published' \in Seq(Signals) /\ queue' \in Seq(Signals \cup BOOLEAN)
    BY <1>2 DEF publish_signal, Deliver, TypeOK
  <2>2. missed' \subseteq Signals
    BY <1>2 DEF publish_signal, TypeOK
  <2> QED
    BY <1>1, <1>2, <2>1, <2>2 DEF publish_signal, TypeOK
<1>3. CASE change_settings
  <2>1. queue' \in Seq(Signals \cup BOOLEAN) /\ intent' \in BOOLEAN
    <3>1. PICK b \in BOOLEAN : b = ~intent
      OBVIOUS
    <3>2. Deliver(b) /\ intent' = b
      BY <1>3, <3>1 DEF change_settings
    <3> QED
      BY <3>2, DeliverTypes
  <2>2. ack' \in [Threads -> Replies]
    <3>1. ASSUME NEW r \in Replies PROVE [r EXCEPT !.stale = TRUE] \in Replies
      BY DEF Replies
    <3> QED
      BY <1>3, <3>1 DEF change_settings, TypeOK
  <2>3. pushMissed' \in BOOLEAN /\ superseded' \in BOOLEAN
    BY <1>3 DEF change_settings, TypeOK
  <2> QED
    BY <1>1, <1>3, <2>1, <2>2, <2>3 DEF change_settings, TypeOK
<1>4. CASE subscribe
  BY <1>1, <1>4 DEF subscribe, TypeOK
<1>5. CASE publisher_reconnects
  <2>1. pc' \in [Threads -> {"off", "announce", "settings", "magics", "gate", "replay", "listen"}]
    BY <1>5 DEF publisher_reconnects, TypeOK, Threads
  <2> QED
    BY <1>1, <1>5, <2>1 DEF publisher_reconnects, TypeOK
<1>6. CASE connection_lost
  BY <1>1, <1>6 DEF connection_lost, TypeOK
<1>7. ASSUME NEW t \in Threads, _announce_worker_connected(t) PROVE TypeOK'
  <2>1. PICK raw \in {"mapped", "without", "garbled", "absent"}, b \in {intent, None} :
          /\ ack' = [ack EXCEPT ![t] = [blocked |-> b, stale |-> FALSE,
                                        magics |-> _salvage_magic_map(raw),
                                        retry |-> published]]
          /\ pushMissed' = (pushMissed /\ b = None)
    BY <1>7 DEF _announce_worker_connected
  <2>2. _salvage_magic_map(raw) \in BOOLEAN \cup {None}
    BY <2>1 DEF _salvage_magic_map
  <2>3. [blocked |-> b, stale |-> FALSE, magics |-> _salvage_magic_map(raw),
         retry |-> published] \in Replies
    BY <2>2 DEF TypeOK, Replies
  <2>4. pushMissed' \in BOOLEAN /\ superseded' \in BOOLEAN
    BY <1>7, <2>1 DEF _announce_worker_connected, TypeOK
  <2>5. ack' \in [Threads -> Replies]
    BY <2>1, <2>3, AckTypes
  <2>6. pc' \in [Threads -> {"off", "announce", "settings", "magics", "gate", "replay", "listen"}]
    BY <1>7, GotoTypes DEF _announce_worker_connected
  <2> QED
    BY <1>1, <1>7, <2>4, <2>5, <2>6 DEF _announce_worker_connected, TypeOK
<1>8. ASSUME NEW t \in Threads, handshake_refused(t) PROVE TypeOK'
  <2>1. pc' \in [Threads -> {"off", "announce", "settings", "magics", "gate", "replay", "listen"}]
    BY <1>8, GotoTypes DEF handshake_refused, Done
  <2> QED
    BY <1>1, <1>8, <2>1 DEF handshake_refused, TypeOK
<1>9. ASSUME NEW t \in Threads, _apply_worker_settings(t) PROVE TypeOK'
  <2>1. pc' \in [Threads -> {"off", "announce", "settings", "magics", "gate", "replay", "listen"}]
    BY <1>9, GotoTypes DEF _apply_worker_settings
  <2>2. ack[t].blocked \in BOOLEAN \cup {None} /\ ack[t].stale \in BOOLEAN
    BY DEF TypeOK, Replies
  <2>3. blocked' \in BOOLEAN
    BY <1>9, <2>2 DEF _apply_worker_settings, TypeOK
  <2>4. superseded' \in BOOLEAN
    BY <1>9 DEF _apply_worker_settings, TypeOK
  <2>5. ack' \in [Threads -> Replies]
    BY <1>9, AppliedTypes DEF _apply_worker_settings
  <2> QED
    BY <1>1, <1>9, <2>1, <2>3, <2>4, <2>5 DEF _apply_worker_settings, TypeOK
<1>10. ASSUME NEW t \in Threads, _apply_strategy_magic_map(t) PROVE TypeOK'
  <2>1. pc' \in [Threads -> {"off", "announce", "settings", "magics", "gate", "replay", "listen"}]
    BY <1>10, GotoTypes DEF _apply_strategy_magic_map
  <2>2. ack[t].magics \in BOOLEAN \cup {None}
    BY DEF TypeOK, Replies
  <2>3. magics' \in BOOLEAN
    BY <1>10, <2>2 DEF _apply_strategy_magic_map, TypeOK
  <2>4. ack' \in [Threads -> Replies]
    BY <1>10, AppliedTypes DEF _apply_strategy_magic_map
  <2> QED
    BY <1>1, <1>10, <2>1, <2>3, <2>4 DEF _apply_strategy_magic_map, TypeOK
<1>11. ASSUME NEW t \in Threads, _replay_blocked_reason(t) PROVE TypeOK'
  <2>1. pc' \in [Threads -> {"off", "announce", "settings", "magics", "gate", "replay", "listen"}]
    BY <1>11, GotoTypes DEF _replay_blocked_reason, Done
  <2>2. {ack[t].retry[i] : i \in DOMAIN ack[t].retry} \subseteq Signals
    <3>1. ack[t].retry \in Seq(Signals)
      BY DEF TypeOK, Replies
    <3> QED
      BY <3>1
  <2>3. handled' \subseteq Signals
    BY <1>11, <2>2 DEF _replay_blocked_reason, TypeOK
  <2>4. ack' \in [Threads -> Replies]
    <3>1. NoReply \in Replies
      BY DEF NoReply, Replies
    <3> QED
      BY <1>11, <3>1, AckTypes DEF _replay_blocked_reason, TypeOK
  <2> QED
    BY <1>1, <1>11, <2>1, <2>3, <2>4 DEF _replay_blocked_reason, TypeOK
<1>12. ASSUME NEW t \in Threads, _apply_retry_signals(t) PROVE TypeOK'
  <2>1. ack[t] \in Replies /\ ack[t].retry \in Seq(Signals) /\ ack[t].retry # <<>>
    BY <1>12 DEF _apply_retry_signals, Replaying, TypeOK, Replies
  <2>2. Head(ack[t].retry) \in Signals /\ Tail(ack[t].retry) \in Seq(Signals)
    BY <2>1
  <2>3. [ack[t] EXCEPT !.retry = Tail(ack[t].retry)] \in Replies
    BY <2>1, <2>2 DEF Replies
  <2>4. ack' \in [Threads -> Replies]
    BY <1>12, <2>3, AckTypes DEF _apply_retry_signals, NextReplay
  <2>5. /\ handled' \subseteq Signals /\ excused' \in [Signals -> Nat]
        /\ work' \in [Threads -> Work \cup {None}]
    <3>1. CASE TakeUp(t, Head(ack[t].retry)) /\ UNCHANGED handled
      BY <2>2, <3>1, TakeUpTypes DEF TypeOK
    <3>2. CASE handled' = handled \cup {Head(ack[t].retry)} /\ UNCHANGED <<work, excused>>
      BY <2>2, <3>2 DEF TypeOK
    <3> QED
      BY <1>12, <3>1, <3>2 DEF _apply_retry_signals
  <2> QED
    BY <1>1, <1>12, <2>4, <2>5 DEF _apply_retry_signals, TypeOK
<1>13. ASSUME NEW t \in Threads, handshake_done(t) PROVE TypeOK'
  <2>1. pc' \in [Threads -> {"off", "announce", "settings", "magics", "gate", "replay", "listen"}]
    BY <1>13, GotoTypes DEF handshake_done, Done
  <2>2. NoReply \in Replies
    BY DEF NoReply, Replies
  <2>3. ack' \in [Threads -> Replies]
    BY <1>13, <2>2, AckTypes DEF handshake_done
  <2> QED
    BY <1>1, <1>13, <2>1, <2>3 DEF handshake_done, TypeOK
<1>14. ASSUME NEW t \in Threads, signal_gate(t) PROVE TypeOK'
  <2>1. work' \in [Threads -> Work \cup {None}] /\ handled' \subseteq Signals
    <3>1. CASE Finish(t)
      BY <1>14, <3>1, FinishTypes DEF signal_gate
    <3>2. CASE UNCHANGED handled /\ \E step \in {"guards", "handle"} : Advance(t, step)
      BY <1>14, <3>2, AdvanceTypes DEF signal_gate, Steps, TypeOK
    <3> QED
      BY <1>14, <3>1, <3>2 DEF signal_gate
  <2> QED
    BY <1>1, <1>14, <2>1 DEF signal_gate, TypeOK
<1>15. ASSUME NEW t \in Threads, entry_guards(t) PROVE TypeOK'
  <2>1. At(t, "guards") /\ work[t] \in Work /\ work[t].signal \in Signals
    BY <1>15 DEF entry_guards, At, TypeOK, Work
  <2>2. /\ work' \in [Threads -> Work \cup {None}] /\ handled' \subseteq Signals
        /\ logged' \subseteq Signals /\ excused' \in [Signals -> Nat]
    <3>1. CASE Finish(t) /\ logged' = logged \cup {work[t].signal} /\ UNCHANGED excused
      BY <2>1, <3>1, FinishTypes DEF TypeOK
    <3>2. CASE Advance(t, "handle") /\ UNCHANGED <<logged, handled>>
               /\ (UNCHANGED excused \/ Excuse(work[t].signal))
      <4>1. work' \in [Threads -> Work \cup {None}]
        BY <2>1, <3>2, AdvanceTypes DEF Steps
      <4> QED
        BY <2>1, <3>2, <4>1 DEF TypeOK, Excuse
    <3> QED
      BY <1>15, <3>1, <3>2 DEF entry_guards
  <2> QED
    BY <1>1, <1>15, <2>2 DEF entry_guards, TypeOK
<1>16. ASSUME NEW t \in Threads, handle_filled(t) PROVE TypeOK'
  <2>1. work' \in [Threads -> Work \cup {None}] /\ work[t].signal \in Signals
    BY <1>16, AdvanceTypes DEF handle_filled, Steps
  <2>2. executed' \in [Signals -> Nat]
    BY <1>16, <2>1 DEF handle_filled, TypeOK
  <2> QED
    BY <1>1, <1>16, <2>1, <2>2 DEF handle_filled, TypeOK
<1>17. ASSUME NEW t \in Threads, handle_refused(t) PROVE TypeOK'
  <2>1. /\ work' \in [Threads -> Work \cup {None}] /\ work[t].signal \in Signals
        /\ handled' \subseteq Signals
    BY <1>17, FinishTypes DEF handle_refused
  <2> QED
    BY <1>1, <1>17, <2>1 DEF handle_refused, TypeOK
<1>18. ASSUME NEW t \in Threads, handle_raised(t) PROVE TypeOK'
  <2>1. work' \in [Threads -> Work \cup {None}] /\ handled' \subseteq Signals
    BY <1>18, FinishTypes DEF handle_raised, Raised
  <2> QED
    BY <1>1, <1>18, <2>1 DEF handle_raised, Raised, TypeOK
<1>19. ASSUME NEW t \in Threads, log_position(t) PROVE TypeOK'
  <2>1. work' \in [Threads -> Work \cup {None}] /\ work[t].signal \in Signals
    BY <1>19, AdvanceTypes DEF log_position, Steps
  <2>2. logged' \subseteq Signals /\ excused' \in [Signals -> Nat]
    BY <1>19, <2>1 DEF log_position, Excuse, TypeOK
  <2> QED
    BY <1>1, <1>19, <2>1, <2>2 DEF log_position, TypeOK
<1>20. ASSUME NEW t \in Threads, insert_position(t) PROVE TypeOK'
  <2>1. work' \in [Threads -> Work \cup {None}] /\ handled' \subseteq Signals /\ ack' = ack
    BY <1>20, FinishTypes DEF insert_position, Raised
  <2>2. open' \subseteq Entries
    BY <1>20 DEF insert_position, TypeOK
  <2> QED
    BY <1>1, <1>20, <2>1, <2>2 DEF insert_position, TypeOK
<1>21. ASSUME NEW t \in Threads, update_position_status(t) PROVE TypeOK'
  <2>1. work' \in [Threads -> Work \cup {None}] /\ handled' \subseteq Signals
    BY <1>21, FinishTypes DEF update_position_status
  <2>2. open' \subseteq Entries
    BY <1>21 DEF update_position_status, TypeOK
  <2> QED
    BY <1>1, <1>21, <2>1, <2>2 DEF update_position_status, TypeOK
<1>22. CASE _set_signals_blocked
  <2>1. queue # <<>> /\ queue \in Seq(Signals \cup BOOLEAN)
    BY <1>22 DEF _set_signals_blocked, Listening, TypeOK
  <2>2. Tail(queue) \in Seq(Signals \cup BOOLEAN)
    BY <2>1
  <2> QED
    BY <1>1, <1>22, <2>2 DEF _set_signals_blocked, TypeOK
<1>23. CASE _process_message
  <2>1. queue # <<>> /\ queue \in Seq(Signals \cup BOOLEAN) /\ Head(queue) \in Signals
    BY <1>23 DEF _process_message, Listening, TypeOK
  <2>2. Tail(queue) \in Seq(Signals \cup BOOLEAN) /\ Listener \in Threads
    BY <2>1 DEF Threads
  <2>3. /\ work' \in [Threads -> Work \cup {None}] /\ excused' \in [Signals -> Nat]
        /\ late' \subseteq Signals /\ handled' \subseteq Signals
    <3>1. CASE TakeUp(Listener, Head(queue))
      BY <1>23, <2>1, <2>2, <3>1, TakeUpTypes DEF _process_message, TypeOK
    <3>2. CASE UNCHANGED <<work, excused, late>>
      BY <1>23, <2>1, <3>2 DEF _process_message, TypeOK
    <3> QED
      BY <1>23, <3>1, <3>2 DEF _process_message
  <2> QED
    BY <1>1, <1>23, <2>2, <2>3 DEF _process_message, TypeOK
<1>24. CASE Crash
  <2>1. pc' \in [Threads -> {"off", "announce", "settings", "magics", "gate", "replay", "listen"}]
    BY <1>24 DEF Crash
  <2>2. NoReply \in Replies
    BY DEF NoReply, Replies
  <2>3. ack' \in [Threads -> Replies] /\ work' \in [Threads -> Work \cup {None}]
    BY <1>24, <2>2 DEF Crash
  <2>4. excused' \in [Signals -> Nat]
    <3>1. IsFiniteSet(Threads)
      BY Distinct, FS_AddElement DEF Threads
    <3>2. ASSUME NEW s \in Signals
          PROVE  Cardinality({t \in Threads : At(t, "log") /\ work[t].signal = s}) \in Nat
      <4>1. IsFiniteSet({t \in Threads : At(t, "log") /\ work[t].signal = s})
        BY <3>1, FS_Subset
      <4> QED
        BY <4>1, FS_CardinalityType
    <3>3. \A s \in Signals : excused[s] +
             Cardinality({t \in Threads : At(t, "log") /\ work[t].signal = s}) \in Nat
      <4>1. \A s \in Signals : excused[s] \in Nat
        BY DEF TypeOK
      <4> QED
        BY <3>2, <4>1
    <3> QED
      BY <1>24, <3>3 DEF Crash
  <2>5. missed' \subseteq Signals
    <3>1. Sent \subseteq Signals
      BY DEF Sent, TypeOK
    <3> QED
      BY <1>24, <3>1 DEF Crash
  <2>6. queue' \in Seq(Signals \cup BOOLEAN)
    BY <1>24 DEF Crash
  <2> QED
    BY <1>1, <1>24, <2>1, <2>3, <2>4, <2>5, <2>6 DEF Crash, TypeOK
<1>25. CASE UNCHANGED vars
  BY <1>1, <1>25 DEF vars, TypeOK
<1> QED
  BY <1>2, <1>3, <1>4, <1>5, <1>6, <1>7, <1>8, <1>9, <1>10, <1>11, <1>12, <1>13, <1>14,
     <1>15, <1>16, <1>17, <1>18, <1>19, <1>20, <1>21, <1>22, <1>23, <1>24, <1>25
     DEF Next, Handshake, ProcessSignal, Listen

\* Every variable keeps its type: whatever the broker replies and however the
\* threads interleave, the queue holds signals and pushes, and each thread is at
\* a step of the handshake or of one signal (BaseSignalProcessor).
THEOREM TypeCorrect == Spec => []TypeOK
BY TypeStart, TypeStep, PTL DEF Spec

-----------------------------------------------------------------------------
(* Each signal is delivered live once *)

LiveOnce ==
    /\ \A i, j \in 1..Len(queue) : queue[i] \in Signals /\ queue[i] = queue[j] => i = j
    /\ \A i \in 1..Len(queue) : queue[i] \in Signals => queue[i] \in Sent \ late
    /\ late \subseteq Sent

LEMMA LiveOnceStart == Init => LiveOnce
BY DEF Init, LiveOnce

LEMMA TailKeepsLiveOnce ==
    ASSUME TypeOK, LiveOnce, queue # <<>>, queue' = Tail(queue), published' = published,
           late' = late \/ (Head(queue) \in Signals /\ late' = late \cup {Head(queue)})
    PROVE  LiveOnce'
<1>1. /\ queue \in Seq(Signals \cup BOOLEAN) /\ Len(queue) \in Nat /\ Len(queue) > 0
      /\ Len(queue') = Len(queue) - 1
      /\ \A i \in 1..Len(queue') : queue'[i] = queue[i + 1] /\ i + 1 \in 1..Len(queue)
      /\ Head(queue) = queue[1] /\ 1 \in 1..Len(queue)
  BY DEF TypeOK
<1>2. Sent' = Sent
  BY DEF Sent
<1>3. ASSUME NEW i \in 1..Len(queue'), queue'[i] \in Signals PROVE queue'[i] \notin late'
  <2>1. queue'[i] = queue[i + 1] /\ i + 1 \in 1..Len(queue) /\ i + 1 # 1 /\ i \in Int
    BY <1>1, <1>3
  <2>2. queue[i + 1] # queue[1]
    BY <1>1, <1>3, <2>1 DEF LiveOnce
  <2> QED
    BY <1>1, <1>3, <2>1, <2>2 DEF LiveOnce
<1>4. ASSUME NEW i \in 1..Len(queue'), NEW j \in 1..Len(queue'), queue'[i] \in Signals,
             queue'[i] = queue'[j]
      PROVE  i = j
  <2>1. i + 1 = j + 1
    BY <1>1, <1>4 DEF LiveOnce
  <2> QED
    BY <2>1
<1> QED
  BY <1>1, <1>2, <1>3, <1>4 DEF LiveOnce

LEMMA LiveOnceStep == TypeOK /\ LiveOnce /\ [Next]_vars => LiveOnce'
<1> SUFFICES ASSUME TypeOK, LiveOnce, [Next]_vars PROVE LiveOnce'
  OBVIOUS
<1> USE DEF linkVars, brokerVars, tableVars, threadVars, signalHistory, settingHistory
<1>1. CASE UNCHANGED <<queue, published, late>>
  BY <1>1 DEF LiveOnce, Sent
<1>2. ASSUME NEW m \in Signals \cup BOOLEAN, Deliver(m), late' = late, Sent \subseteq Sent',
             m \in Signals => m \notin Sent /\ m \in Sent'
      PROVE  LiveOnce'
  <2>1. CASE queue' = queue
    BY <1>2, <2>1 DEF LiveOnce
  <2>2. CASE queue' = Append(queue, m)
    <3>1. /\ Len(queue) \in Nat /\ Len(queue') = Len(queue) + 1
          /\ queue'[Len(queue) + 1] = m
          /\ \A i \in 1..Len(queue) : queue'[i] = queue[i]
      BY <2>2 DEF TypeOK
    <3>2. \A i \in 1..Len(queue') : i \in 1..Len(queue) \/ i = Len(queue) + 1
      BY <3>1
    <3>3. \A i \in 1..Len(queue) : queue'[i] \in Signals => queue'[i] # m
      BY <1>2, <3>1 DEF LiveOnce
    <3>4. ASSUME NEW i \in 1..Len(queue'), NEW j \in 1..Len(queue'), queue'[i] \in Signals,
                 queue'[i] = queue'[j]
          PROVE  i = j
      BY <3>1, <3>2, <3>3, <3>4 DEF LiveOnce
    <3>5. ASSUME NEW i \in 1..Len(queue'), queue'[i] \in Signals
          PROVE  queue'[i] \in Sent' \ late'
      BY <1>2, <3>1, <3>2, <3>5 DEF LiveOnce
    <3> QED
      BY <1>2, <3>4, <3>5 DEF LiveOnce
  <2> QED
    BY <1>2, <2>1, <2>2 DEF Deliver
<1>3. ASSUME NEW s \in Signals, publish_signal(s) PROVE LiveOnce'
  <2>1. published \in Seq(Signals) /\ published' = Append(published, s)
    BY <1>3 DEF publish_signal, TypeOK
  <2>2. /\ Len(published') = Len(published) + 1 /\ Len(published) \in Nat
        /\ published'[Len(published) + 1] = s
        /\ \A i \in 1..Len(published) : published'[i] = published[i]
    BY <2>1
  <2>3. Sent \subseteq Sent' /\ s \in Sent'
    BY <2>1, <2>2 DEF Sent
  <2> QED
    BY <1>2, <1>3, <2>3 DEF publish_signal
<1>4. CASE change_settings
  <2>1. PICK b \in BOOLEAN : b = ~intent
    OBVIOUS
  <2>2. Deliver(b) /\ late' = late /\ Sent' = Sent
    BY <1>4, <2>1 DEF change_settings, Sent
  <2> QED
    BY <1>2, <2>2, Distinct
<1>5. CASE Listen
  BY <1>5, TailKeepsLiveOnce
     DEF Listen, _set_signals_blocked, _process_message, Listening
<1>6. CASE Crash
  BY <1>6 DEF Crash, LiveOnce, Sent
<1> QED
  BY <1>1, <1>3, <1>4, <1>5, <1>6
     DEF Next, vars, subscribe, publisher_reconnects, connection_lost,
         _announce_worker_connected, handshake_refused, Handshake, _apply_worker_settings,
         _apply_strategy_magic_map, _replay_blocked_reason, _apply_retry_signals,
         handshake_done, ProcessSignal, signal_gate, entry_guards, handle_filled,
         handle_refused, handle_raised, log_position, insert_position, update_position_status

-----------------------------------------------------------------------------
(* Each signal is executed once *)

\* w has s in hand and the broker has not filled it; or it has, and no trace of
\* it is in position_logs yet.
InHand(w, s) == w # None /\ w.signal = s /\ w.step \in {"gate", "guards", "handle"}
Traceless(w, s) == w # None /\ w.signal = s /\ w.step = "log"

Busy(s) == {t \in Threads : InHand(work[t], s)}
Filled(s) == {t \in Threads : Traceless(work[t], s)}

Allowed(s) == 1 + excused[s] + (IF s \in late THEN 1 ELSE 0)

\* The replay takes up only what position_logs does not know: such a signal,
\* held by nobody, has a fill to spare.
Once(s) ==
    /\ executed[s] + Cardinality(Busy(s)) <= Allowed(s)
    /\ s \notin logged /\ Busy(s) = {} /\ Filled(s) = {} => executed[s] < Allowed(s)

LEMMA ThreadsFinite ==
    ASSUME NEW S \in SUBSET Threads
    PROVE  IsFiniteSet(S) /\ Cardinality(S) \in Nat /\ (S # {} => Cardinality(S) >= 1)
<1>1. IsFiniteSet(Threads)
  BY Distinct, FS_AddElement DEF Threads
<1>2. IsFiniteSet(S)
  BY <1>1, FS_Subset
<1>3. Cardinality(S) \in Nat /\ (Cardinality(S) = 0 <=> S = {})
  BY <1>2, FS_CardinalityType, FS_EmptySet
<1> QED
  BY <1>2, <1>3

\* What one thread's step does to the threads that have s in hand.
LEMMA HandsMove ==
    ASSUME TypeOK, NEW t \in Threads, NEW w, work' = [work EXCEPT ![t] = w], NEW s
    PROVE  /\ Cardinality(Busy(s)) \in Nat /\ Cardinality(Busy(s)') \in Nat
           /\ InHand(w, s) /\ ~InHand(work[t], s) =>
                Cardinality(Busy(s)') = Cardinality(Busy(s)) + 1
           /\ ~InHand(w, s) /\ InHand(work[t], s) =>
                Cardinality(Busy(s)') = Cardinality(Busy(s)) - 1
           /\ (InHand(w, s) <=> InHand(work[t], s)) => Busy(s)' = Busy(s)
           /\ (Traceless(w, s) <=> Traceless(work[t], s)) => Filled(s)' = Filled(s)
           /\ InHand(w, s) => Busy(s)' # {}
           /\ Traceless(w, s) => Filled(s)' # {}
<1>1. \A u \in Threads : work'[u] = IF u = t THEN w ELSE work[u]
  BY DEF TypeOK
<1>2. Busy(s) \in SUBSET Threads /\ Busy(s)' \in SUBSET Threads
  BY DEF Busy
<1>3. Busy(s)' = {u \in Threads : InHand(work'[u], s)}
  BY DEF Busy
<1>4. InHand(w, s) => Busy(s)' = Busy(s) \cup {t}
  BY <1>1, <1>3 DEF Busy
<1>5. ~InHand(w, s) => Busy(s)' = Busy(s) \ {t}
  BY <1>1, <1>3 DEF Busy
<1>6. t \in Busy(s) <=> InHand(work[t], s)
  BY DEF Busy
<1>7. Filled(s)' = {u \in Threads : Traceless(work'[u], s)}
  BY DEF Filled
<1>8. /\ (Traceless(w, s) <=> Traceless(work[t], s)) => Filled(s)' = Filled(s)
      /\ Traceless(w, s) => t \in Filled(s)'
  BY <1>1, <1>7 DEF Filled
<1>9. IsFiniteSet(Busy(s)) /\ Cardinality(Busy(s)) \in Nat /\ Cardinality(Busy(s)') \in Nat
  BY <1>2, ThreadsFinite
<1>10. InHand(w, s) /\ ~InHand(work[t], s) => Cardinality(Busy(s)') = Cardinality(Busy(s)) + 1
  BY <1>4, <1>6, <1>9, FS_AddElement
<1>11. ~InHand(w, s) /\ InHand(work[t], s) => Cardinality(Busy(s)') = Cardinality(Busy(s)) - 1
  BY <1>5, <1>6, <1>9, FS_RemoveElement
<1>12. (InHand(w, s) <=> InHand(work[t], s)) => Busy(s)' = Busy(s)
  BY <1>4, <1>5, <1>6
<1> QED
  BY <1>4, <1>8, <1>9, <1>10, <1>11, <1>12

LEMMA OnceStart == Init => \A s \in Signals : Once(s)
<1> SUFFICES ASSUME Init, NEW s \in Signals PROVE Once(s)
  OBVIOUS
<1>1. Busy(s) = {} /\ executed[s] = 0 /\ excused[s] = 0 /\ late = {}
  BY DEF Init, Busy, InHand
<1>2. Cardinality(Busy(s)) = 0
  BY <1>1, FS_EmptySet
<1> QED
  BY <1>1, <1>2 DEF Once, Allowed

\* A signal no step concerns.
LEMMA OnceElsewhere ==
    ASSUME NEW s \in Signals, Once(s), executed'[s] = executed[s], excused'[s] = excused[s],
           s \in late' <=> s \in late, logged \subseteq logged',
           Busy(s)' = Busy(s), Filled(s)' = Filled(s)
    PROVE  Once(s)'
BY DEF Once, Allowed

LEMMA OnceTypes ==
    ASSUME TypeOK, NEW s \in Signals
    PROVE  /\ executed[s] \in Nat /\ excused[s] \in Nat /\ Allowed(s) \in Nat
           /\ Allowed(s) >= 1 /\ Cardinality(Busy(s)) \in Nat
           /\ (Busy(s) # {} => Cardinality(Busy(s)) >= 1)
           /\ (Busy(s) = {} => Cardinality(Busy(s)) = 0)
<1>1. Busy(s) \in SUBSET Threads
  BY DEF Busy
<1>2. Cardinality({}) = 0
  BY FS_EmptySet
<1>3. executed[s] \in Nat /\ excused[s] \in Nat
  BY DEF TypeOK
<1> QED
  BY <1>1, <1>2, <1>3, ThreadsFinite DEF Allowed

\* A thread drops the signal it has not executed.
LEMMA OnceDropped ==
    ASSUME TypeOK, NEW t \in Threads, NEW from \in {"gate", "guards", "handle"},
           At(t, from), Finish(t), NEW s \in Signals, Once(s),
           executed' = executed, excused' = excused, late' = late, logged \subseteq logged'
    PROVE  Once(s)'
<1>1. work' = [work EXCEPT ![t] = None] /\ work[t] # None /\ work[t].step = from
  BY FinishTypes DEF At
<1>2. ~InHand(None, s) /\ ~Traceless(None, s) /\ ~Traceless(work[t], s)
  BY <1>1 DEF InHand, Traceless
<1>3. Filled(s)' = Filled(s) /\ Cardinality(Busy(s)') \in Nat
  BY <1>1, <1>2, HandsMove
<1>4. CASE InHand(work[t], s)
  <2>1. Cardinality(Busy(s)') = Cardinality(Busy(s)) - 1
    BY <1>1, <1>2, <1>4, HandsMove
  <2>2. Allowed(s)' = Allowed(s) /\ executed'[s] = executed[s]
    BY DEF Allowed
  <2>3. executed[s] + Cardinality(Busy(s)) <= Allowed(s) /\ Cardinality(Busy(s)) >= 1
    <3>1. t \in Busy(s)
      BY <1>4 DEF Busy
    <3> QED
      BY <3>1, OnceTypes DEF Once
  <2>4. Cardinality(Busy(s))' = Cardinality(Busy(s)')
    OBVIOUS
  <2> QED
    BY <2>1, <2>2, <2>3, <2>4, OnceTypes DEF Once
<1>5. CASE ~InHand(work[t], s)
  <2>1. Busy(s)' = Busy(s)
    BY <1>1, <1>2, <1>5, HandsMove
  <2> QED
    BY <1>3, <2>1, OnceElsewhere
<1> QED
  BY <1>4, <1>5

\* A thread goes on with the signal it has not executed.
LEMMA OncePassedOn ==
    ASSUME TypeOK, NEW t \in Threads, NEW from \in {"gate", "guards"},
           NEW to \in {"guards", "handle"}, At(t, from), Advance(t, to),
           NEW s \in Signals, Once(s), executed' = executed, late' = late,
           logged' = logged, excused' = excused \/ Excuse(work[t].signal)
    PROVE  Once(s)'
<1> DEFINE w == [signal |-> work[t].signal, step |-> to]
<1>1. /\ work' = [work EXCEPT ![t] = w] /\ work[t] # None /\ work[t].step = from
      /\ work[t].signal \in Signals
  BY AdvanceTypes DEF At, Steps
<1>2. w # None
  BY <1>1, NoWork DEF Work, Steps
<1>3. (InHand(w, s) <=> InHand(work[t], s)) /\ (Traceless(w, s) <=> Traceless(work[t], s))
  BY <1>1, <1>2 DEF InHand, Traceless
<1>4. Busy(s)' = Busy(s) /\ Filled(s)' = Filled(s)
  BY <1>1, <1>3, HandsMove
<1>5. excused'[s] \in Nat /\ excused'[s] >= excused[s]
  BY <1>1 DEF Excuse, TypeOK
<1>6. Allowed(s)' \in Nat /\ Allowed(s)' >= Allowed(s)
  BY <1>5, OnceTypes DEF Allowed
<1> QED
  BY <1>4, <1>6, OnceTypes DEF Once

\* A thread begins with a signal: from the replay, which position_logs does not
\* know, or from the queue, which holds one copy of it.
LEMMA OnceTaken ==
    ASSUME TypeOK, NEW t \in Threads, NEW r \in Signals, work[t] = None, TakeUp(t, r),
           executed' = executed, logged' = logged,
           \/ r \notin logged /\ late' = late
           \/ r \notin late /\ late' = IF executed[r] > 0 THEN late \cup {r} ELSE late,
           NEW s \in Signals, Once(s)
    PROVE  Once(s)'
<1> DEFINE w == [signal |-> r, step |-> "gate"]
<1>1. /\ work' = [work EXCEPT ![t] = w]
      /\ excused' = IF Held(t, r) THEN [excused EXCEPT ![r] = excused[r] + 1] ELSE excused
  BY TakeUpTypes
<1>2. w # None
  BY NoWork DEF Work, Steps
<1>3. ~InHand(work[t], s) /\ ~Traceless(work[t], s) /\ ~Traceless(w, s)
  BY DEF InHand, Traceless
<1>4. Filled(s)' = Filled(s)
  BY <1>1, <1>3, HandsMove
<1>5. CASE s # r
  <2>1. ~InHand(w, s)
    BY <1>5 DEF InHand
  <2>2. Busy(s)' = Busy(s)
    BY <1>1, <1>3, <2>1, HandsMove
  <2>3. excused'[s] = excused[s] /\ (s \in late' <=> s \in late)
    BY <1>1, <1>5 DEF TypeOK
  <2> QED
    BY <1>4, <2>2, <2>3, OnceElsewhere
<1>6. CASE s = r
  <2>1. InHand(w, s)
    BY <1>2, <1>6 DEF InHand
  <2>2. Cardinality(Busy(s)') = Cardinality(Busy(s)) + 1 /\ Busy(s)' # {}
    BY <1>1, <1>3, <2>1, HandsMove
  <2>3. executed[s] + Cardinality(Busy(s)) + 1 <= Allowed(s)'
    <3>1. CASE Held(t, r)
      <4>1. excused'[s] = excused[s] + 1
        BY <1>1, <1>6, <3>1 DEF TypeOK
      <4>2. s \in late => s \in late'
        BY <1>6
      <4>3. Allowed(s)' >= Allowed(s) + 1
        BY <4>1, <4>2, OnceTypes DEF Allowed
      <4>4. Allowed(s)' \in Nat
        BY <4>1, OnceTypes DEF Allowed
      <4> QED
        BY <4>3, <4>4, OnceTypes DEF Once
    <3>2. CASE ~Held(t, r)
      <4>1. Busy(s) = {} /\ Filled(s) = {}
        BY <1>6, <3>2 DEF Held, Busy, Filled, InHand, Traceless
      <4>2. excused' = excused
        BY <1>1, <3>2
      <4>3. CASE r \notin logged /\ late' = late
        <5>1. executed[s] < Allowed(s)
          BY <1>6, <4>1, <4>3 DEF Once
        <5>2. Allowed(s)' = Allowed(s)
          BY <4>2, <4>3 DEF Allowed
        <5> QED
          BY <4>1, <5>1, <5>2, OnceTypes
      <4>4. CASE r \notin late /\ late' = IF executed[r] > 0 THEN late \cup {r} ELSE late
        <5>1. Allowed(s)' = Allowed(s) + (IF executed[s] > 0 THEN 1 ELSE 0)
          BY <1>6, <4>2, <4>4, OnceTypes DEF Allowed
        <5>2. executed[s] <= Allowed(s)
          BY <4>1, OnceTypes DEF Once
        <5> QED
          BY <4>1, <5>1, <5>2, OnceTypes
      <4> QED
        BY <4>3, <4>4
    <3> QED
      BY <3>1, <3>2
  <2>4. Cardinality(Busy(s))' = Cardinality(Busy(s)')
    OBVIOUS
  <2>5. executed[s] + Cardinality(Busy(s)') <= Allowed(s)'
    BY <2>2, <2>3, OnceTypes
  <2> QED
    BY <2>2, <2>4, <2>5 DEF Once
<1> QED
  BY <1>5, <1>6

LEMMA OnceFilled ==
    ASSUME TypeOK, NEW t \in Threads, handle_filled(t), NEW s \in Signals, Once(s)
    PROVE  Once(s)'
<1> DEFINE w == [signal |-> work[t].signal, step |-> "log"]
<1>1. /\ work' = [work EXCEPT ![t] = w] /\ work[t] # None /\ work[t].step = "handle"
      /\ work[t].signal \in Signals
  BY AdvanceTypes DEF handle_filled, At, Steps
<1>2. w # None
  BY <1>1, NoWork DEF Work, Steps
<1>3. executed' = [executed EXCEPT ![work[t].signal] = executed[work[t].signal] + 1]
  BY DEF handle_filled
<1>4. excused' = excused /\ late' = late /\ logged' = logged
  BY DEF handle_filled, tableVars
<1>5. ~InHand(w, s) /\ ~Traceless(work[t], s)
  BY <1>1 DEF InHand, Traceless
<1>6. CASE s # work[t].signal
  <2>1. ~InHand(work[t], s) /\ ~Traceless(w, s)
    BY <1>6 DEF InHand, Traceless
  <2>2. Busy(s)' = Busy(s) /\ Filled(s)' = Filled(s)
    BY <1>1, <1>5, <2>1, HandsMove
  <2>3. executed'[s] = executed[s]
    BY <1>3, <1>6 DEF TypeOK
  <2> QED
    BY <1>4, <2>2, <2>3, OnceElsewhere
<1>7. CASE s = work[t].signal
  <2>1. InHand(work[t], s) /\ Traceless(w, s)
    BY <1>1, <1>2, <1>7 DEF InHand, Traceless
  <2>2. Cardinality(Busy(s)') = Cardinality(Busy(s)) - 1 /\ Filled(s)' # {}
    BY <1>1, <1>5, <2>1, HandsMove
  <2>3. executed'[s] = executed[s] + 1
    BY <1>3, <1>7 DEF TypeOK
  <2>4. Allowed(s)' = Allowed(s)
    BY <1>4 DEF Allowed
  <2>5. executed'[s] + Cardinality(Busy(s)') <= Allowed(s)'
    BY <2>2, <2>3, <2>4, OnceTypes DEF Once
  <2> QED
    BY <2>2, <2>5 DEF Once
<1> QED
  BY <1>6, <1>7

LEMMA OnceLogged ==
    ASSUME TypeOK, NEW t \in Threads, log_position(t), NEW s \in Signals, Once(s)
    PROVE  Once(s)'
<1> DEFINE w == [signal |-> work[t].signal, step |-> "persist"]
<1>1. /\ work' = [work EXCEPT ![t] = w] /\ work[t] # None /\ work[t].step = "log"
      /\ work[t].signal \in Signals
  BY AdvanceTypes DEF log_position, At, Steps
<1>2. executed' = executed /\ late' = late
  BY DEF log_position
<1>3. \/ logged' = logged \cup {work[t].signal} /\ excused' = excused
      \/ /\ logged' = logged
         /\ excused' = [excused EXCEPT ![work[t].signal] = excused[work[t].signal] + 1]
  BY DEF log_position, Excuse
<1>4. ~InHand(w, s) /\ ~InHand(work[t], s)
  BY <1>1 DEF InHand
<1>5. Busy(s)' = Busy(s)
  BY <1>1, <1>4, HandsMove
<1>6. CASE s # work[t].signal
  <2>1. Filled(s)' = Filled(s)
    <3>1. ~Traceless(w, s) /\ ~Traceless(work[t], s)
      BY <1>6 DEF Traceless
    <3> QED
      BY <1>1, <3>1, HandsMove
  <2>2. excused'[s] = excused[s]
    BY <1>3, <1>6 DEF TypeOK
  <2> QED
    BY <1>2, <1>3, <1>5, <2>1, <2>2, OnceElsewhere
<1>7. CASE s = work[t].signal
  <2>1. CASE logged' = logged \cup {work[t].signal} /\ excused' = excused
    BY <1>2, <1>5, <1>7, <2>1 DEF Once, Allowed
  <2>2. CASE excused' = [excused EXCEPT ![work[t].signal] = excused[work[t].signal] + 1]
    <3>1. Allowed(s)' = Allowed(s) + 1
      BY <1>2, <1>7, <2>2, OnceTypes DEF Allowed, TypeOK
    <3>2. executed[s] <= Allowed(s)
      BY OnceTypes DEF Once
    <3> QED
      BY <1>2, <1>5, <3>1, <3>2, OnceTypes DEF Once
  <2> QED
    BY <1>3, <2>1, <2>2
<1> QED
  BY <1>6, <1>7

LEMMA OncePersisted ==
    ASSUME TypeOK, NEW t \in Threads, At(t, "persist"), Finish(t), executed' = executed,
           excused' = excused, late' = late, logged' = logged, NEW s \in Signals, Once(s)
    PROVE  Once(s)'
<1>1. work' = [work EXCEPT ![t] = None] /\ work[t].step = "persist"
  BY FinishTypes
<1>2. /\ ~InHand(None, s) /\ ~InHand(work[t], s)
      /\ ~Traceless(None, s) /\ ~Traceless(work[t], s)
  BY <1>1 DEF InHand, Traceless
<1>3. Busy(s)' = Busy(s) /\ Filled(s)' = Filled(s)
  BY <1>1, <1>2, HandsMove
<1> QED
  BY <1>3, OnceElsewhere

LEMMA OnceCrash == ASSUME TypeOK, Crash, NEW s \in Signals, Once(s) PROVE Once(s)'
<1>1. \A t \in Threads : work'[t] = None
  BY DEF Crash
<1>2. Busy(s)' = {} /\ Filled(s)' = {}
  BY <1>1 DEF Busy, Filled, InHand, Traceless
<1>3. Cardinality(Busy(s)') = 0
  BY <1>2, FS_EmptySet
<1>4. excused'[s] = excused[s] + Cardinality(Filled(s))
  <2>1. {t \in Threads : At(t, "log") /\ work[t].signal = s} = Filled(s)
    BY DEF At, Filled, Traceless
  <2> QED
    BY <2>1 DEF Crash
<1>5. Cardinality(Filled(s)) \in Nat /\ (Filled(s) # {} => Cardinality(Filled(s)) >= 1)
  BY ThreadsFinite DEF Filled
<1>6. Allowed(s)' = Allowed(s) + Cardinality(Filled(s))
  <2>1. late' = late
    BY DEF Crash
  <2> QED
    BY <1>4, <1>5, <2>1, OnceTypes DEF Allowed
<1>7. executed' = executed /\ logged' = logged
  BY DEF Crash, tableVars
<1>8. executed[s] <= Allowed(s)
  BY OnceTypes DEF Once
<1>9. s \notin logged => executed[s] < Allowed(s) + Cardinality(Filled(s))
  BY <1>5, <1>8, OnceTypes DEF Once
<1> QED
  BY <1>3, <1>5, <1>6, <1>7, <1>8, <1>9, OnceTypes DEF Once

LEMMA OnceStep ==
    TypeOK /\ LiveOnce /\ (\A s \in Signals : Once(s)) /\ [Next]_vars
        => (\A s \in Signals : Once(s))'
<1> SUFFICES ASSUME TypeOK, LiveOnce, \A s \in Signals : Once(s), [Next]_vars,
                    NEW s \in Signals
             PROVE  Once(s)'
  OBVIOUS
<1> USE DEF linkVars, brokerVars, tableVars, threadVars, signalHistory, settingHistory
<1>1. Once(s)
  OBVIOUS
<1>2. CASE UNCHANGED <<work, executed, excused, late, logged>>
  <2>1. Busy(s)' = Busy(s) /\ Filled(s)' = Filled(s)
    BY <1>2 DEF Busy, Filled
  <2> QED
    BY <1>1, <1>2, <2>1, OnceElsewhere
<1>3. ASSUME NEW t \in Threads, _apply_retry_signals(t) PROVE Once(s)'
  <2>1. ack[t].retry \in Seq(Signals) /\ ack[t].retry # <<>>
    BY <1>3 DEF _apply_retry_signals, Replaying, TypeOK, Replies
  <2>2. PICK r \in Signals : r = Head(ack[t].retry)
    BY <2>1
  <2>3. /\ work[t] = None /\ UNCHANGED <<executed, late, logged>>
        /\ UNCHANGED <<work, excused>> \/ (r \notin logged /\ TakeUp(t, r))
    BY <1>3, <2>2 DEF _apply_retry_signals, Replaying, signal_exists
  <2> QED
    BY <1>1, <1>2, <2>3, OnceTaken
<1>4. CASE _process_message
  <2>1. /\ queue # <<>> /\ queue \in Seq(Signals \cup BOOLEAN) /\ Head(queue) \in Signals
        /\ work[Listener] = None /\ Listener \in Threads
    BY <1>4 DEF _process_message, Listening, TypeOK, Threads
  <2>2. PICK r \in Signals : r = Head(queue)
    BY <2>1
  <2>3. r \notin late
    <3>1. 1 \in 1..Len(queue) /\ r = queue[1]
      BY <2>1, <2>2
    <3> QED
      BY <3>1 DEF LiveOnce
  <2>4. /\ UNCHANGED <<executed, logged>>
        /\ \/ UNCHANGED <<work, excused, late>>
           \/ /\ TakeUp(Listener, r)
              /\ late' = IF executed[r] > 0 THEN late \cup {r} ELSE late
    BY <1>4, <2>2 DEF _process_message
  <2> QED
    BY <1>1, <1>2, <2>1, <2>3, <2>4, OnceTaken
<1>5. ASSUME NEW t \in Threads, ProcessSignal(t) PROVE Once(s)'
  <2>1. CASE signal_gate(t)
    <3>1. At(t, "gate") /\ UNCHANGED <<executed, excused, late, logged>>
      BY <2>1 DEF signal_gate
    <3>2. CASE Finish(t)
      BY <1>1, <3>1, <3>2, OnceDropped
    <3>3. CASE \E to \in {"guards", "handle"} : Advance(t, to)
      BY <1>1, <3>1, <3>3, OncePassedOn
    <3> QED
      BY <2>1, <3>2, <3>3 DEF signal_gate
  <2>2. CASE entry_guards(t)
    <3>1. At(t, "guards") /\ UNCHANGED <<executed, late>>
      BY <2>2 DEF entry_guards
    <3>2. CASE Finish(t) /\ logged' = logged \cup {work[t].signal} /\ UNCHANGED excused
      BY <1>1, <3>1, <3>2, OnceDropped
    <3>3. CASE /\ Advance(t, "handle") /\ UNCHANGED logged
               /\ UNCHANGED excused \/ Excuse(work[t].signal)
      BY <1>1, <3>1, <3>3, OncePassedOn
    <3> QED
      BY <2>2, <3>2, <3>3 DEF entry_guards
  <2>3. CASE handle_filled(t)
    BY <1>1, <2>3, OnceFilled
  <2>4. CASE handle_refused(t) \/ handle_raised(t)
    <3>1. /\ At(t, "handle") /\ Finish(t) /\ UNCHANGED <<executed, excused, late>>
          /\ logged \subseteq logged'
      BY <2>4 DEF handle_refused, handle_raised, Raised
    <3> QED
      BY <1>1, <3>1, OnceDropped
  <2>5. CASE log_position(t)
    BY <1>1, <2>5, OnceLogged
  <2>6. CASE insert_position(t) \/ update_position_status(t)
    <3>1. At(t, "persist") /\ Finish(t) /\ UNCHANGED <<executed, excused, late, logged>>
      BY <2>6 DEF insert_position, update_position_status, Raised
    <3> QED
      BY <1>1, <3>1, OncePersisted
  <2> QED
    BY <1>5, <2>1, <2>2, <2>3, <2>4, <2>5, <2>6 DEF ProcessSignal
<1>6. CASE Crash
  BY <1>1, <1>6, OnceCrash
<1> QED
  BY <1>2, <1>3, <1>4, <1>5, <1>6
     DEF Next, vars, publish_signal, change_settings, subscribe, publisher_reconnects,
         connection_lost, _announce_worker_connected, handshake_refused, Handshake,
         _apply_worker_settings, _apply_strategy_magic_map, _replay_blocked_reason,
         handshake_done, Listen, _set_signals_blocked

\* The broker fills a signal twice only when two threads held it at once, its
\* trace was lost, or its live copy was still queued when the replay executed it
\* (signal_exists before every replayed signal; log_position after every fill).
\* LiveOnce, no second copy in the queue, and Once, a fill to spare for every
\* signal the replay may take up, make the bound inductive.
THEOREM ExecutesOnce == Spec => []ExecutedOnce
<1> DEFINE AllOnce == \A s \in Signals : Once(s)
<1>1. Init => LiveOnce /\ AllOnce
  BY LiveOnceStart, OnceStart
<1>2. TypeOK /\ LiveOnce /\ AllOnce /\ [Next]_vars => LiveOnce' /\ AllOnce'
  BY LiveOnceStep, OnceStep
<1>3. TypeOK /\ AllOnce => ExecutedOnce
  BY OnceTypes DEF Once, Allowed, ExecutedOnce
<1> QED
  BY <1>1, <1>2, <1>3, TypeCorrect, PTL DEF Spec

-----------------------------------------------------------------------------
(* An open trade is not entered again *)

\* Two threads execute the same signal, or one is about to send an entry whose
\* row is open, only when that is excused.
NoReentry ==
    /\ \A t, u \in Threads :
         t # u /\ work[t] # None /\ work[u] # None /\ work[t].signal = work[u].signal
           => excused[work[t].signal] > 0
    /\ \A t \in Threads :
         At(t, "handle") /\ work[t].signal \in open => excused[work[t].signal] > 0

LEMMA NoReentryStart == Init => NoReentry
BY DEF Init, NoReentry, At

\* A thread leaves its signal, keeps it or takes the next step with it.
LEMMA NoReentryKept ==
    ASSUME TypeOK, NoReentry, NEW t \in Threads, NEW w,
           work' = [work EXCEPT ![t] = w],
           w # None => work[t] # None /\ w.signal = work[t].signal,
           \A s \in Signals : excused'[s] \in Nat /\ excused'[s] >= excused[s],
           w # None /\ w.step = "handle" /\ w.signal \in open' => excused'[w.signal] > 0,
           \A u \in Threads \ {t} : At(u, "handle") /\ work[u].signal \in open'
                                      => excused'[work[u].signal] > 0
    PROVE  NoReentry'
<1>1. \A u \in Threads : work'[u] = IF u = t THEN w ELSE work[u]
  BY DEF TypeOK
<1>2. \A u \in Threads : work[u] # None => work[u].signal \in Signals
  BY DEF TypeOK, Work
<1>3. \A s \in Signals : excused[s] > 0 => excused'[s] > 0
  BY DEF TypeOK
<1>4. ASSUME NEW u \in Threads, NEW v \in Threads, u # v, work'[u] # None, work'[v] # None,
             work'[u].signal = work'[v].signal
      PROVE  excused'[work'[u].signal] > 0
  <2>1. /\ work[u] # None /\ work[u].signal = work'[u].signal
        /\ work[v] # None /\ work[v].signal = work'[v].signal
    BY <1>1, <1>4
  <2> QED
    BY <1>2, <1>3, <1>4, <2>1 DEF NoReentry
<1>5. ASSUME NEW u \in Threads, At(u, "handle")', work'[u].signal \in open'
      PROVE  excused'[work'[u].signal] > 0
  BY <1>1, <1>5 DEF At
<1> QED
  BY <1>4, <1>5 DEF NoReentry

LEMMA NoReentryTaken ==
    ASSUME TypeOK, NoReentry, NEW t \in Threads, NEW r \in Signals, work[t] = None,
           TakeUp(t, r), open' = open
    PROVE  NoReentry'
<1> DEFINE w == [signal |-> r, step |-> "gate"]
<1>1. /\ work' = [work EXCEPT ![t] = w]
      /\ excused' = IF Held(t, r) THEN [excused EXCEPT ![r] = excused[r] + 1] ELSE excused
      /\ excused' \in [Signals -> Nat]
  BY TakeUpTypes
<1>2. \A u \in Threads : work'[u] = IF u = t THEN w ELSE work[u]
  BY <1>1 DEF TypeOK
<1>3. \A s \in Signals : excused[s] > 0 => excused'[s] > 0
  BY <1>1 DEF TypeOK
<1>4. Held(t, r) => excused'[r] > 0
  BY <1>1 DEF TypeOK
<1>5. \A u \in Threads : work[u] # None => work[u].signal \in Signals
  BY DEF TypeOK, Work
<1>6. ASSUME NEW u \in Threads, NEW v \in Threads, u # v, work'[u] # None, work'[v] # None,
             work'[u].signal = work'[v].signal
      PROVE  excused'[work'[u].signal] > 0
  <2>1. CASE u # t /\ v # t
    BY <1>2, <1>3, <1>5, <1>6, <2>1 DEF NoReentry
  <2>2. CASE u = t \/ v = t
    <3>1. work'[u].signal = r
      BY <1>2, <1>6, <2>2
    <3>2. Held(t, r)
      BY <1>2, <1>6, <2>2 DEF Held
    <3> QED
      BY <1>4, <3>1, <3>2
  <2> QED
    BY <2>1, <2>2
<1>7. ASSUME NEW u \in Threads, At(u, "handle")', work'[u].signal \in open'
      PROVE  excused'[work'[u].signal] > 0
  BY <1>2, <1>3, <1>5, <1>7 DEF At, NoReentry
<1> QED
  BY <1>6, <1>7 DEF NoReentry

LEMMA NoReentryFinish ==
    ASSUME TypeOK, NoReentry, NEW t \in Threads, NEW from, At(t, from), Finish(t),
           excused' = excused,
           \A u \in Threads \ {t} : At(u, "handle") /\ work[u].signal \in open'
                                      => excused[work[u].signal] > 0
    PROVE  NoReentry'
<1>1. work' = [work EXCEPT ![t] = None]
  BY FinishTypes
<1>2. \A s \in Signals : excused'[s] \in Nat /\ excused'[s] >= excused[s]
  BY DEF TypeOK
<1> QED
  BY <1>1, <1>2, NoReentryKept

LEMMA NoReentryAdvance ==
    ASSUME TypeOK, NoReentry, NEW t \in Threads, NEW from, NEW to \in Steps, At(t, from),
           Advance(t, to), excused' = excused \/ Excuse(work[t].signal), open' = open,
           to = "handle" => \/ work[t].signal \notin open \/ Excuse(work[t].signal)
    PROVE  NoReentry'
<1> DEFINE w == [signal |-> work[t].signal, step |-> to]
<1>1. work' = [work EXCEPT ![t] = w] /\ work[t] # None /\ work[t].signal \in Signals
  BY AdvanceTypes DEF At
<1>2. \A s \in Signals : excused'[s] \in Nat /\ excused'[s] >= excused[s]
  <2>1. CASE excused' = excused
    BY <2>1 DEF TypeOK
  <2>2. CASE Excuse(work[t].signal)
    BY <1>1, <2>2 DEF TypeOK, Excuse
  <2> QED
    BY <2>1, <2>2
<1>3. Excuse(work[t].signal) => excused'[work[t].signal] > 0
  BY <1>1 DEF TypeOK, Excuse
<1>4. \A u \in Threads \ {t} : At(u, "handle") /\ work[u].signal \in open'
                                 => excused'[work[u].signal] > 0
  <2>1. \A u \in Threads : work[u] # None => work[u].signal \in Signals
    BY DEF TypeOK, Work
  <2>2. \A s \in Signals : excused[s] > 0 => excused'[s] > 0
    BY <1>2 DEF TypeOK
  <2> QED
    BY <2>1, <2>2 DEF NoReentry, At
<1>5. w.signal = work[t].signal /\ w.step = to
  OBVIOUS
<1> HIDE DEF w
<1> QED
  BY <1>1, <1>2, <1>3, <1>4, <1>5, NoReentryKept

LEMMA NoReentryStep == TypeOK /\ NoReentry /\ [Next]_vars => NoReentry'
<1> SUFFICES ASSUME TypeOK, NoReentry, [Next]_vars PROVE NoReentry'
  OBVIOUS
<1> USE DEF linkVars, brokerVars, tableVars, threadVars, signalHistory, settingHistory
<1>1. CASE UNCHANGED <<work, excused, open>>
  BY <1>1 DEF NoReentry, At
<1>2. ASSUME NEW t \in Threads, _apply_retry_signals(t) PROVE NoReentry'
  <2>1. ack[t].retry \in Seq(Signals) /\ ack[t].retry # <<>>
    BY <1>2 DEF _apply_retry_signals, Replaying, TypeOK, Replies
  <2>2. PICK r \in Signals : r = Head(ack[t].retry)
    BY <2>1
  <2>3. work[t] = None /\ open' = open /\ (UNCHANGED <<work, excused>> \/ TakeUp(t, r))
    BY <1>2, <2>2 DEF _apply_retry_signals, Replaying
  <2> QED
    BY <1>1, <2>3, NoReentryTaken
<1>3. CASE _process_message
  <2>1. PICK r \in Signals : r = Head(queue)
    BY <1>3 DEF _process_message
  <2>2. /\ work[Listener] = None /\ Listener \in Threads /\ open' = open
        /\ UNCHANGED <<work, excused>> \/ TakeUp(Listener, r)
    BY <1>3, <2>1 DEF _process_message, Listening, Threads
  <2> QED
    BY <1>1, <2>2, NoReentryTaken
<1>4. ASSUME NEW t \in Threads, ProcessSignal(t) PROVE NoReentry'
  <2>1. CASE signal_gate(t)
    <3>1. At(t, "gate") /\ UNCHANGED <<excused, open>>
      BY <2>1 DEF signal_gate
    <3>2. CASE Finish(t)
      BY <3>1, <3>2, NoReentryFinish DEF NoReentry
    <3>3. CASE Advance(t, IF work[t].signal \in Entries THEN "guards" ELSE "handle")
      <4>1. CASE Advance(t, "guards")
        BY <3>1, <4>1, NoReentryAdvance DEF Steps
      <4>2. CASE Advance(t, "handle") /\ work[t].signal \notin Entries
        <5>1. work[t].signal \notin open
          BY <4>2 DEF TypeOK
        <5> QED
          BY <3>1, <4>2, <5>1, NoReentryAdvance DEF Steps
      <4> QED
        BY <3>3, <4>1, <4>2
    <3> QED
      BY <2>1, <3>2, <3>3 DEF signal_gate
  <2>2. CASE entry_guards(t)
    <3>1. At(t, "guards") /\ open' = open
      BY <2>2 DEF entry_guards
    <3>2. CASE Finish(t) /\ UNCHANGED excused
      BY <3>1, <3>2, NoReentryFinish DEF NoReentry
    <3>3. CASE Advance(t, "handle") /\ open = {} /\ UNCHANGED excused
      BY <3>1, <3>3, NoReentryAdvance DEF Steps
    <3>4. CASE Advance(t, "handle") /\ Excuse(work[t].signal)
      BY <3>1, <3>4, NoReentryAdvance DEF Steps
    <3> QED
      BY <2>2, <3>2, <3>3, <3>4 DEF entry_guards, OpenOrderOnSymbol
  <2>3. CASE handle_filled(t)
    BY <2>3, NoReentryAdvance DEF handle_filled, Steps
  <2>4. CASE handle_refused(t) \/ handle_raised(t)
    <3>1. At(t, "handle") /\ Finish(t) /\ UNCHANGED <<excused, open>>
      BY <2>4 DEF handle_refused, handle_raised, Raised
    <3> QED
      BY <3>1, NoReentryFinish DEF NoReentry
  <2>5. CASE log_position(t)
    BY <2>5, NoReentryAdvance DEF log_position, Steps
  <2>6. CASE insert_position(t)
    <3>1. /\ At(t, "persist") /\ Finish(t) /\ UNCHANGED excused
          /\ open' \subseteq open \cup {work[t].signal}
      BY <2>6 DEF insert_position, Raised
    <3>2. \A u \in Threads \ {t} : At(u, "handle") /\ work[u].signal \in open'
                                     => excused[work[u].signal] > 0
      BY <3>1 DEF NoReentry, At
    <3> QED
      BY <3>1, <3>2, NoReentryFinish
  <2>7. CASE update_position_status(t)
    <3>1. At(t, "persist") /\ Finish(t) /\ UNCHANGED excused /\ open' \subseteq open
      BY <2>7 DEF update_position_status
    <3> QED
      BY <3>1, NoReentryFinish DEF NoReentry
  <2> QED
    BY <1>4, <2>1, <2>2, <2>3, <2>4, <2>5, <2>6, <2>7 DEF ProcessSignal
<1>5. CASE Crash
  BY <1>5 DEF Crash, NoReentry, At
<1> QED
  BY <1>1, <1>2, <1>3, <1>4, <1>5
     DEF Next, vars, publish_signal, change_settings, subscribe, publisher_reconnects,
         connection_lost, _announce_worker_connected, handshake_refused, Handshake,
         _apply_worker_settings, _apply_strategy_magic_map, _replay_blocked_reason,
         handshake_done, Listen, _set_signals_blocked

\* While the row of an entry is active no second copy of it, live or replayed,
\* reaches the broker unless two threads held it at once or a read failed:
\* symbol_open_rejection is evaluated before the order, and the row is written
\* by the thread that filled it.
THEOREM NoEntryRepeated == Spec => OpenTradeNotReentered
<1>1. TypeOK /\ NoReentry /\ [Next]_vars
        => [\A s \in Entries :
              s \in open /\ executed'[s] > executed[s] => excused[s] > 0]_vars
  <2> SUFFICES ASSUME TypeOK, NoReentry, [Next]_vars, NEW s \in Entries, s \in open,
                      executed'[s] > executed[s]
               PROVE  excused[s] > 0
    OBVIOUS
  <2>1. executed' # executed
    BY DEF TypeOK, Signals
  <2>2. PICK t \in Threads : handle_filled(t)
    BY <2>1 DEF Next, vars, linkVars, brokerVars, tableVars, threadVars, signalHistory,
         settingHistory, publish_signal, change_settings, subscribe, publisher_reconnects,
         connection_lost, _announce_worker_connected, handshake_refused, Handshake,
         _apply_worker_settings, _apply_strategy_magic_map, _replay_blocked_reason,
         _apply_retry_signals, handshake_done, ProcessSignal, signal_gate, entry_guards,
         handle_refused, handle_raised, log_position, insert_position,
         update_position_status, Listen, _set_signals_blocked, _process_message, Crash
  <2>3. /\ At(t, "handle") /\ work[t].signal \in Signals
        /\ executed' = [executed EXCEPT ![work[t].signal] = executed[work[t].signal] + 1]
    BY <2>2 DEF handle_filled, At, TypeOK, Work
  <2>4. s = work[t].signal
    BY <2>3 DEF TypeOK, Signals
  <2> QED
    BY <2>3, <2>4 DEF NoReentry
<1> QED
  BY <1>1, NoReentryStart, NoReentryStep, TypeCorrect, PTL DEF Spec, OpenTradeNotReentered

-----------------------------------------------------------------------------
(* No signal leaves undecided *)

InReply(r) == {r.retry[i] : i \in DOMAIN r.retry}
Carries(w, s) == w # None /\ w.signal = s

Somewhere(s) ==
    \/ s \in handled \cup missed \cup Queued
    \/ \E t \in Threads : Carries(work[t], s) \/ s \in InReply(ack[t])

\* A thread that announces the worker has no replay left over: its reply may be
\* overwritten.
NoReplayLeft ==
    \A t \in Threads : pc[t] \in {"off", "announce", "listen"} => ack[t].retry = <<>>

NoneUndecided == (\A s \in Sent : Somewhere(s)) /\ NoReplayLeft

LEMMA HeadAndTail ==
    ASSUME NEW S, NEW q \in Seq(S), q # <<>>
    PROVE  {q[i] : i \in DOMAIN q} = {Head(q)} \cup {Tail(q)[i] : i \in DOMAIN Tail(q)}
<1>1. /\ Len(q) \in Nat /\ Len(q) > 0 /\ DOMAIN q = 1..Len(q) /\ Head(q) = q[1]
      /\ Tail(q) \in Seq(S) /\ DOMAIN Tail(q) = 1..(Len(q) - 1)
      /\ \A i \in 1..(Len(q) - 1) : Tail(q)[i] = q[i + 1]
  OBVIOUS
<1>2. \A i \in 1..(Len(q) - 1) : i + 1 \in 1..Len(q)
  BY <1>1
<1>3. \A i \in 1..Len(q) : i = 1 \/ (i - 1 \in 1..(Len(q) - 1) /\ (i - 1) + 1 = i)
  BY <1>1
<1>4. ASSUME NEW i \in DOMAIN q
      PROVE  q[i] = Head(q) \/ \E j \in DOMAIN Tail(q) : q[i] = Tail(q)[j]
  BY <1>1, <1>3
<1>5. ASSUME NEW j \in DOMAIN Tail(q) PROVE \E i \in DOMAIN q : Tail(q)[j] = q[i]
  BY <1>1, <1>2
<1>6. Head(q) \in {q[i] : i \in DOMAIN q}
  BY <1>1
<1> QED
  BY <1>4, <1>5, <1>6

LEMMA OneMoreElement ==
    ASSUME NEW S, NEW q \in Seq(S), NEW x \in S
    PROVE  {Append(q, x)[i] : i \in DOMAIN Append(q, x)} = {q[i] : i \in DOMAIN q} \cup {x}
<1>1. /\ Len(q) \in Nat /\ DOMAIN q = 1..Len(q)
      /\ DOMAIN Append(q, x) = 1..(Len(q) + 1)
      /\ Append(q, x)[Len(q) + 1] = x
      /\ \A i \in 1..Len(q) : Append(q, x)[i] = q[i]
  OBVIOUS
<1>2. \A i \in 1..(Len(q) + 1) : i \in 1..Len(q) \/ i = Len(q) + 1
  BY <1>1
<1>3. 1..Len(q) \subseteq 1..(Len(q) + 1) /\ Len(q) + 1 \in 1..(Len(q) + 1)
  BY <1>1
<1> QED
  BY <1>1, <1>2, <1>3

\* A message is only ever added by the broker.
LEMMA DeliveredIsQueued ==
    ASSUME TypeOK, NEW m \in Signals \cup BOOLEAN, Deliver(m)
    PROVE  Queued \subseteq Queued' /\ (subscriber => m \in Queued')
<1>1. queue \in Seq(Signals \cup BOOLEAN)
  BY DEF TypeOK
<1>2. CASE queue' = Append(queue, m)
  BY <1>1, <1>2, OneMoreElement DEF Queued
<1>3. CASE queue' = queue /\ ~subscriber
  BY <1>3 DEF Queued
<1> QED
  BY <1>2, <1>3 DEF Deliver

\* What a step that only gives a signal up once it is decided does.
LEMMA StaysSomewhere ==
    ASSUME NoneUndecided, UNCHANGED <<published, missed>>, handled \subseteq handled',
           \A s \in Sent : s \in Queued => Somewhere(s)',
           \A s \in Sent, t \in Threads : Carries(work[t], s) => Somewhere(s)',
           \A s \in Sent, t \in Threads : s \in InReply(ack[t]) => Somewhere(s)',
           NoReplayLeft'
    PROVE  NoneUndecided'
<1>1. Sent' = Sent
  BY DEF Sent
<1>2. ASSUME NEW s \in Sent PROVE Somewhere(s)'
  <2>1. s \in handled \cup missed => Somewhere(s)'
    BY DEF Somewhere
  <2> QED
    BY <2>1 DEF NoneUndecided, Somewhere
<1> QED
  BY <1>1, <1>2 DEF NoneUndecided

\* One step of a signal in hand: the signal is passed on, or decided.
LEMMA StepOfSignal ==
    ASSUME TypeOK, NEW t \in Threads, ProcessSignal(t)
    PROVE  /\ UNCHANGED <<pc, ack, queue, published, missed>>
           /\ handled \subseteq handled'
           /\ \A u \in Threads : u # t => work'[u] = work[u]
           /\ \A s : Carries(work[t], s) => Carries(work'[t], s) \/ s \in handled'
<1> USE DEF linkVars, brokerVars, tableVars, threadVars, signalHistory, settingHistory
<1>1. UNCHANGED <<pc, ack, queue, published, missed>>
  BY DEF ProcessSignal, signal_gate, entry_guards, handle_filled, handle_refused,
         handle_raised, Raised, log_position, insert_position, update_position_status
<1>2. \/ Finish(t)
      \/ UNCHANGED handled /\ \E to \in Steps : Advance(t, to)
  BY DEF ProcessSignal, signal_gate, entry_guards, handle_filled, handle_refused,
         handle_raised, Raised, log_position, insert_position, update_position_status, Steps
<1>3. work \in [Threads -> Work \cup {None}]
  BY DEF TypeOK
<1>4. CASE Finish(t)
  BY <1>1, <1>3, <1>4 DEF Finish, Carries
<1>5. ASSUME NEW to \in Steps, Advance(t, to), UNCHANGED handled
      PROVE  /\ \A u \in Threads : u # t => work'[u] = work[u]
             /\ \A s : Carries(work[t], s) => Carries(work'[t], s)
  <2>1. \A u \in Threads : work'[u] = IF u = t THEN [work[t] EXCEPT !.step = to] ELSE work[u]
    BY <1>3, <1>5 DEF Advance
  <2>2. ASSUME work[t] \in Work PROVE [work[t] EXCEPT !.step = to] \in Work
                                    /\ [work[t] EXCEPT !.step = to].signal = work[t].signal
    BY <2>2 DEF Work
  <2> QED
    BY <1>3, <2>1, <2>2, NoWork DEF Carries
<1> QED
  BY <1>1, <1>2, <1>4, <1>5

LEMMA UndecidedStep == TypeOK /\ NoneUndecided /\ [Next]_vars => NoneUndecided'
<1> SUFFICES ASSUME TypeOK, NoneUndecided, [Next]_vars PROVE NoneUndecided'
  OBVIOUS
<1> USE DEF linkVars, brokerVars, tableVars, threadVars, signalHistory, settingHistory
<1>0. /\ ack \in [Threads -> Replies] /\ work \in [Threads -> Work \cup {None}]
      /\ pc \in [Threads -> {"off", "announce", "settings", "magics", "gate", "replay",
                             "listen"}]
      /\ queue \in Seq(Signals \cup BOOLEAN) /\ published \in Seq(Signals)
      /\ \A t \in Threads : ack[t].retry \in Seq(Signals)
      /\ Listener \in Threads /\ InReply(NoReply) = {} /\ NoReply.retry = <<>>
  BY DEF TypeOK, Replies, Threads, InReply, NoReply
<1>1. ASSUME NEW s \in Signals, publish_signal(s) PROVE NoneUndecided'
  <2>1. published' = Append(published, s) /\ Deliver(s) /\ UNCHANGED <<pc, ack, work, handled>>
        /\ missed' = IF subscriber THEN missed ELSE missed \cup {s}
    BY <1>1 DEF publish_signal
  <2>2. Sent' = Sent \cup {s}
    <3>1. {Append(published, s)[i] : i \in DOMAIN Append(published, s)}
            = {published[i] : i \in DOMAIN published} \cup {s}
      <4>1. published \in Seq(Signals)
        BY <1>0
      <4> QED
        BY <4>1, OneMoreElement
    <3> QED
      BY <2>1, <3>1 DEF Sent
  <2>3. Queued \subseteq Queued' /\ (subscriber => s \in Queued')
    BY <2>1, DeliveredIsQueued
  <2>4. \A r \in Sent : Somewhere(r)'
    BY <2>1, <2>3 DEF NoneUndecided, Somewhere
  <2>5. Somewhere(s)'
    BY <2>1, <2>3 DEF Somewhere
  <2>6. NoReplayLeft'
    BY <2>1 DEF NoneUndecided, NoReplayLeft
  <2> QED
    BY <2>2, <2>4, <2>5, <2>6 DEF NoneUndecided
<1>2. CASE change_settings
  <2>1. /\ UNCHANGED <<pc, work, published, handled, missed>>
        /\ \A t \in Threads : ack'[t].retry = ack[t].retry
    <3>1. \A t \in Threads : [ack[t] EXCEPT !.stale = TRUE].retry = ack[t].retry
      BY <1>0 DEF Replies
    <3> QED
      BY <1>2, <3>1 DEF change_settings
  <2>2. Queued \subseteq Queued'
    <3>1. PICK b \in BOOLEAN : b = ~intent
      OBVIOUS
    <3> QED
      BY <1>2, <3>1, DeliveredIsQueued DEF change_settings
  <2>3. \A t \in Threads : InReply(ack[t])' = InReply(ack[t])
    BY <2>1 DEF InReply
  <2>4. NoReplayLeft'
    BY <2>1 DEF NoneUndecided, NoReplayLeft
  <2>5. Sent' = Sent
    BY <2>1 DEF Sent
  <2>6. \A s \in Sent : Somewhere(s)'
    BY <2>1, <2>2, <2>3 DEF NoneUndecided, Somewhere
  <2> QED
    BY <2>4, <2>5, <2>6 DEF NoneUndecided
<1>3. ASSUME UNCHANGED <<queue, work, published, handled, missed>>,
             \A t \in Threads : ack'[t].retry = ack[t].retry,
             \A t \in Threads : pc'[t] \in {"off", "announce", "listen"} =>
                                    pc[t] \in {"off", "announce", "listen"}
      PROVE  NoneUndecided'
  <2>1. Sent' = Sent /\ Queued' = Queued /\ \A t \in Threads : InReply(ack[t])' = InReply(ack[t])
    BY <1>3 DEF Sent, Queued, InReply
  <2>2. NoReplayLeft'
    BY <1>3 DEF NoneUndecided, NoReplayLeft
  <2>3. \A s \in Sent : Somewhere(s)'
    BY <1>3, <2>1 DEF NoneUndecided, Somewhere, Carries
  <2> QED
    BY <2>1, <2>2, <2>3 DEF NoneUndecided
<1>4. CASE subscribe \/ connection_lost \/ UNCHANGED vars
  BY <1>3, <1>4 DEF subscribe, connection_lost, vars
<1>5. CASE publisher_reconnects
  BY <1>0, <1>3, <1>5 DEF publisher_reconnects
<1>6. ASSUME NEW t \in Threads, handshake_refused(t) PROVE NoneUndecided'
  BY <1>0, <1>3, <1>6 DEF handshake_refused, Goto
<1>7. ASSUME NEW t \in Threads, _apply_worker_settings(t) \/ _apply_strategy_magic_map(t)
      PROVE  NoneUndecided'
  <2>1. \A u \in Threads : ack'[u].retry = ack[u].retry
    BY <1>7, AppliedTypes DEF _apply_worker_settings, _apply_strategy_magic_map
  <2> QED
    BY <1>0, <1>3, <1>7, <2>1 DEF _apply_worker_settings, _apply_strategy_magic_map, Goto
<1>8. ASSUME NEW t \in Threads, _announce_worker_connected(t) PROVE NoneUndecided'
  <2>1. \E r \in Replies : ack' = [ack EXCEPT ![t] = r] /\ r.retry = published
    <3>1. PICK raw \in {"mapped", "without", "garbled", "absent"}, b \in {intent, None} :
            ack' = [ack EXCEPT ![t] = [blocked |-> b, stale |-> FALSE,
                                       magics |-> _salvage_magic_map(raw),
                                       retry |-> published]]
      BY <1>8 DEF _announce_worker_connected
    <3>2. _salvage_magic_map(raw) \in BOOLEAN \cup {None}
      BY <3>1 DEF _salvage_magic_map
    <3> DEFINE r == [blocked |-> b, stale |-> FALSE, magics |-> _salvage_magic_map(raw),
                     retry |-> published]
    <3>3. r \in Replies /\ r.retry = published
      BY <1>0, <3>2 DEF Replies, TypeOK
    <3>4. ack' = [ack EXCEPT ![t] = r]
      BY <3>1
    <3> QED
      BY <3>3, <3>4
  <2>2. UNCHANGED published /\ Goto(t, "settings") /\ ack'[t].retry = published
        /\ \A u \in Threads : u # t => ack'[u] = ack[u]
    BY <1>0, <1>8, <2>1 DEF _announce_worker_connected
  <2>3. \A s \in Sent' : s \in InReply(ack'[t])
    BY <2>2 DEF Sent, InReply
  <2>4. NoReplayLeft'
    BY <1>0, <2>2 DEF NoneUndecided, NoReplayLeft, Goto
  <2> QED
    BY <2>3, <2>4 DEF NoneUndecided, Somewhere
<1>9. ASSUME NEW t \in Threads, _replay_blocked_reason(t) PROVE NoneUndecided'
  <2>1. CASE magics
    BY <1>0, <1>3, <1>9, <2>1 DEF _replay_blocked_reason, Goto
  <2>2. CASE ~magics
    <3>1. /\ UNCHANGED <<queue, work, published, missed>> /\ Goto(t, Done(t))
          /\ handled' = handled \cup InReply(ack[t])
          /\ ack' = [ack EXCEPT ![t] = NoReply]
      BY <1>9, <2>2 DEF _replay_blocked_reason, InReply
    <3>2. NoReplayLeft'
      BY <1>0, <3>1 DEF NoneUndecided, NoReplayLeft, Goto
    <3>3. \A u \in Threads : u # t => ack'[u] = ack[u]
      BY <1>0, <3>1
    <3> QED
      BY <3>1, <3>2, <3>3, StaysSomewhere DEF Somewhere, Queued
  <2> QED
    BY <2>1, <2>2
<1>10. ASSUME NEW t \in Threads, _apply_retry_signals(t) PROVE NoneUndecided'
  <2>1. /\ UNCHANGED <<pc, queue, published, missed>> /\ ack[t].retry # <<>>
        /\ work[t] = None /\ pc[t] = "replay"
        /\ ack' = [ack EXCEPT ![t] = [ack[t] EXCEPT !.retry = Tail(ack[t].retry)]]
        /\ \/ handled' = handled \cup {Head(ack[t].retry)} /\ UNCHANGED work
           \/ /\ work' = [work EXCEPT ![t] = [signal |-> Head(ack[t].retry),
                                              step |-> "gate"]]
              /\ UNCHANGED handled
    BY <1>10 DEF _apply_retry_signals, Replaying, NextReplay, TakeUp
  <2>2. /\ \A u \in Threads : u # t => ack'[u] = ack[u] /\ work'[u] = work[u]
        /\ ack'[t].retry = Tail(ack[t].retry)
    BY <1>0, <2>1 DEF Replies
  <2>3. PICK r \in Signals : r = Head(ack[t].retry)
    BY <1>0, <2>1
  <2>4. InReply(ack[t]) = {r} \cup InReply(ack[t])'
    <3>1. {ack[t].retry[i] : i \in DOMAIN ack[t].retry}
            = {Head(ack[t].retry)}
                \cup {Tail(ack[t].retry)[i] : i \in DOMAIN Tail(ack[t].retry)}
      <4>1. ack[t].retry \in Seq(Signals) /\ ack[t].retry # <<>>
        BY <1>0, <2>1
      <4> QED
        BY <4>1, HeadAndTail
    <3> QED
      BY <2>2, <2>3, <3>1 DEF InReply
  <2>5. Somewhere(r)'
    <3>1. CASE handled' = handled \cup {r}
      BY <3>1 DEF Somewhere
    <3>2. CASE work' = [work EXCEPT ![t] = [signal |-> r, step |-> "gate"]]
      <4>1. [signal |-> r, step |-> "gate"] \in Work
        BY DEF Work, Steps
      <4>2. work'[t] = [signal |-> r, step |-> "gate"]
        BY <1>0, <3>2
      <4>3. Carries(work[t], r)'
        BY <4>1, <4>2, NoWork DEF Carries
      <4> QED
        BY <4>3 DEF Somewhere
    <3> QED
      BY <2>1, <2>3, <3>1, <3>2
  <2>6. NoReplayLeft'
    BY <1>0, <2>1, <2>2 DEF NoneUndecided, NoReplayLeft
  <2>7. ASSUME NEW u \in Threads, NEW s \in Sent, Carries(work[u], s) PROVE Somewhere(s)'
    <3>1. Carries(work[u], s)'
      BY <2>1, <2>2, <2>7 DEF Carries
    <3> QED
      BY <3>1 DEF Somewhere
  <2>8. ASSUME NEW u \in Threads, NEW s \in Sent, s \in InReply(ack[u]) PROVE Somewhere(s)'
    <3>1. s = r \/ s \in InReply(ack[u])'
      <4>1. CASE u = t
        BY <2>4, <2>8, <4>1
      <4>2. CASE u # t
        BY <2>2, <2>8, <4>2 DEF InReply
      <4> QED
        BY <4>1, <4>2
    <3> QED
      BY <2>5, <3>1 DEF Somewhere
  <2>9. ASSUME NEW s \in Sent, s \in Queued PROVE Somewhere(s)'
    BY <2>1, <2>9 DEF Somewhere, Queued
  <2>10. handled \subseteq handled'
    BY <2>1
  <2> QED
    BY <2>1, <2>6, <2>7, <2>8, <2>9, <2>10, StaysSomewhere
<1>11. ASSUME NEW t \in Threads, handshake_done(t) PROVE NoneUndecided'
  <2>1. /\ UNCHANGED <<queue, work, published, missed, handled>> /\ Goto(t, Done(t))
        /\ ack[t].retry = <<>> /\ ack' = [ack EXCEPT ![t] = NoReply]
    BY <1>11 DEF handshake_done
  <2>2. InReply(ack[t]) = {} /\ \A u \in Threads : u # t => ack'[u] = ack[u]
    BY <1>0, <2>1 DEF InReply
  <2>3. NoReplayLeft'
    BY <1>0, <2>1 DEF NoneUndecided, NoReplayLeft, Goto
  <2> QED
    BY <2>1, <2>2, <2>3, StaysSomewhere DEF Somewhere, Queued
<1>12. ASSUME NEW t \in Threads, ProcessSignal(t) PROVE NoneUndecided'
  <2>1. /\ UNCHANGED <<pc, ack, queue, published, missed>> /\ handled \subseteq handled'
        /\ \A u \in Threads : u # t => work'[u] = work[u]
        /\ \A s : Carries(work[t], s) => Carries(work'[t], s) \/ s \in handled'
    BY <1>12, StepOfSignal
  <2>2. NoReplayLeft'
    BY <2>1 DEF NoneUndecided, NoReplayLeft
  <2> QED
    BY <2>1, <2>2, StaysSomewhere DEF Somewhere, Queued
<1>13. CASE Listen
  <2>1. /\ queue # <<>> /\ queue' = Tail(queue) /\ UNCHANGED <<pc, ack, published, missed>>
        /\ handled \subseteq handled' /\ work[Listener] = None
    BY <1>13 DEF Listen, _set_signals_blocked, _process_message, Listening
  <2>2. Queued = {Head(queue)} \cup Queued'
    <3>1. {queue[i] : i \in DOMAIN queue}
            = {Head(queue)} \cup {Tail(queue)[i] : i \in DOMAIN Tail(queue)}
      BY <1>0, <2>1, HeadAndTail
    <3> QED
      BY <2>1, <3>1 DEF Queued
  <2>3. NoReplayLeft'
    BY <2>1 DEF NoneUndecided, NoReplayLeft
  <2>4. CASE UNCHANGED work /\ (Head(queue) \in Signals => Head(queue) \in handled')
    <3>1. \A s \in Sent : s \in Signals
      BY <1>0 DEF Sent
    <3> QED
      BY <2>1, <2>2, <2>3, <2>4, <3>1, StaysSomewhere DEF Somewhere
  <2>5. CASE TakeUp(Listener, Head(queue)) /\ Head(queue) \in Signals
    <3>1. work' = [work EXCEPT ![Listener] = [signal |-> Head(queue), step |-> "gate"]]
      BY <2>5 DEF TakeUp
    <3>2. [signal |-> Head(queue), step |-> "gate"] \in Work
      BY <2>5 DEF Work, Steps
    <3>3. Carries(work'[Listener], Head(queue))
      BY <1>0, <3>1, <3>2, NoWork DEF Carries
    <3>4. \A u \in Threads : u # Listener => work'[u] = work[u]
      BY <1>0, <3>1
    <3>5. \A u \in Threads, s \in Sent : Carries(work[u], s) => Somewhere(s)'
      BY <2>1, <3>4 DEF Carries, Somewhere
    <3>6. \A s \in Sent : s \in Queued => Somewhere(s)'
      BY <1>0, <2>2, <3>3 DEF Somewhere
    <3> QED
      BY <2>1, <2>3, <3>5, <3>6, StaysSomewhere DEF Somewhere
  <2> QED
    BY <1>13, <2>4, <2>5, Distinct DEF Listen, _set_signals_blocked, _process_message
<1>14. CASE Crash
  <2>1. UNCHANGED <<published, handled>> /\ missed' = Sent \ handled
        /\ \A t \in Threads : ack'[t] = NoReply
    BY <1>14 DEF Crash
  <2>2. Sent' = Sent
    BY <2>1 DEF Sent
  <2> QED
    BY <1>0, <2>1, <2>2 DEF NoneUndecided, NoReplayLeft, Somewhere
<1> QED
  BY <1>1, <1>2, <1>4, <1>5, <1>6, <1>7, <1>8, <1>9, <1>10, <1>11, <1>12, <1>13, <1>14
     DEF Next, Handshake

\* Through outages, restarts, refused handshakes and failing signals, every signal
\* is decided, on its way to be, or was never delivered to this worker.
THEOREM NoneLeavesUndecided == Spec => []SignalsAccounted
<1>1. Init => NoneUndecided
  BY DEF Init, NoneUndecided, NoReplayLeft, NoReply, Sent
<1>2. NoneUndecided => SignalsAccounted
  BY DEF NoneUndecided, Somewhere, Carries, InReply, SignalsAccounted
<1> QED
  BY <1>1, <1>2, UndecidedStep, TypeCorrect, PTL DEF Spec

-----------------------------------------------------------------------------
(* The operator's block *)

\* A setting is pushed.
LEMMA PushedIsLast ==
    ASSUME TypeOK, NEW b \in BOOLEAN, Deliver(b), subscriber
    PROVE  LastPush(b)'
<1>1. /\ queue \in Seq(Signals \cup BOOLEAN) /\ queue' = Append(queue, b)
      /\ DOMAIN queue' = 1..(Len(queue) + 1) /\ Len(queue) \in Nat
      /\ queue'[Len(queue) + 1] = b
  BY DEF TypeOK, Deliver
<1>2. Len(queue) + 1 \in Pushes'
  BY <1>1 DEF Pushes
<1>3. \A j \in Pushes' : j <= Len(queue) + 1
  BY <1>1 DEF Pushes
<1> QED
  BY <1>1, <1>2, <1>3 DEF LastPush

\* A signal is delivered behind the pushes.
LEMMA SignalIsNoPush ==
    ASSUME TypeOK, NEW s \in Signals, Deliver(s)
    PROVE  Pushes' = Pushes /\ \A b : LastPush(b) => LastPush(b)'
<1>1. CASE queue' = queue
  BY <1>1 DEF Pushes, LastPush
<1>2. CASE queue' = Append(queue, s)
  <2>1. /\ queue \in Seq(Signals \cup BOOLEAN) /\ Len(queue) \in Nat
        /\ DOMAIN queue = 1..Len(queue) /\ DOMAIN queue' = 1..(Len(queue) + 1)
        /\ queue'[Len(queue) + 1] = s /\ \A i \in 1..Len(queue) : queue'[i] = queue[i]
    BY <1>2 DEF TypeOK
  <2>2. s \notin BOOLEAN
    BY Distinct
  <2>3. \A i \in 1..(Len(queue) + 1) : i \in 1..Len(queue) \/ i = Len(queue) + 1
    BY <2>1
  <2>4. Pushes' = Pushes /\ \A i \in Pushes : queue'[i] = queue[i]
    BY <2>1, <2>2, <2>3 DEF Pushes
  <2> QED
    BY <2>4 DEF LastPush
<1> QED
  BY <1>1, <1>2 DEF Deliver

\* The head is taken off the queue: the newest push is still queued, unless it was
\* the head.
LEMMA NewestIsTakenLast ==
    ASSUME TypeOK, queue # <<>>, queue' = Tail(queue)
    PROVE  /\ Pushes = {} => Pushes' = {}
           /\ \A b : LastPush(b) => LastPush(b)' \/ (Pushes' = {} /\ Head(queue) = b)
<1>1. /\ queue \in Seq(Signals \cup BOOLEAN) /\ Len(queue) \in Nat /\ Len(queue) > 0
      /\ DOMAIN queue = 1..Len(queue) /\ DOMAIN queue' = 1..(Len(queue) - 1)
      /\ \A i \in 1..(Len(queue) - 1) : queue'[i] = queue[i + 1]
      /\ Head(queue) = queue[1]
  BY DEF TypeOK
<1>2. \A i \in Pushes' : i + 1 \in Pushes /\ i \in Nat /\ i > 0
  BY <1>1 DEF Pushes
<1>3. \A i \in Pushes : i \in Nat /\ (i > 1 => i - 1 \in Pushes') /\ i >= 1
  BY <1>1 DEF Pushes
<1>4. ASSUME NEW b, LastPush(b) PROVE LastPush(b)' \/ (Pushes' = {} /\ Head(queue) = b)
  <2>1. PICK i \in Pushes : queue[i] = b /\ \A j \in Pushes : j <= i
    BY <1>4 DEF LastPush
  <2>2. CASE i = 1
    BY <1>1, <1>2, <2>1, <2>2
  <2>3. CASE i > 1
    <3>1. i - 1 \in Pushes' /\ queue'[i - 1] = b
      BY <1>1, <1>3, <2>1, <2>3 DEF Pushes
    <3>2. \A j \in Pushes' : j <= i - 1
      BY <1>2, <1>3, <2>1
    <3> QED
      BY <3>1, <3>2 DEF LastPush
  <2> QED
    BY <1>3, <2>2, <2>3
<1> QED
  BY <1>2, <1>4

\* A reply about to be applied carries the setting in force at the broker, unless
\* it is stale; a push behind it corrects a stale one of the listener's.
RepliesAreCurrent ==
    \A t \in Threads : pc[t] = "settings" /\ ~ack[t].stale => ack[t].blocked \in {intent, None}
StaleIsCorrected ==
    pc[Listener] = "settings" /\ ack[Listener].stale
        => pushMissed \/ superseded \/ LastPush(intent)
SettingKept == SettingNotLost /\ RepliesAreCurrent /\ StaleIsCorrected

\* What a step that touches no setting does.
LEMMA SettingUntouched ==
    ASSUME SettingKept, UNCHANGED <<queue, blocked, intent, pushMissed, superseded>>,
           \A t \in Threads : pc[t] = "settings" \/ pc'[t] = "settings"
                                => pc'[t] = pc[t] /\ ack'[t] = ack[t]
    PROVE  SettingKept'
<1>1. Pushes' = Pushes /\ (LastPush(intent)' <=> LastPush(intent))
  BY DEF Pushes, LastPush
<1>2. Listener \in Threads
  BY DEF Threads
<1>3. SettingNotLost'
  BY <1>1 DEF SettingKept, SettingNotLost
<1>4. RepliesAreCurrent'
  BY DEF SettingKept, RepliesAreCurrent
<1>5. StaleIsCorrected'
  BY <1>1, <1>2 DEF SettingKept, StaleIsCorrected
<1> QED
  BY <1>3, <1>4, <1>5 DEF SettingKept

LEMMA SettingStart == Init => SettingKept
<1> SUFFICES ASSUME Init PROVE SettingKept
  OBVIOUS
<1>1. pushMissed /\ \A t \in Threads : pc[t] # "settings"
  BY DEF Init
<1>2. Listener \in Threads
  BY DEF Threads
<1> QED
  BY <1>1, <1>2 DEF SettingKept, SettingNotLost, RepliesAreCurrent, StaleIsCorrected

LEMMA SettingChanged == TypeOK /\ SettingKept /\ change_settings => SettingKept'
<1> SUFFICES ASSUME TypeOK, change_settings PROVE SettingKept'
  OBVIOUS
<1>1. PICK b \in BOOLEAN : b = ~intent
  OBVIOUS
<1>2. intent' = b /\ Deliver(b) /\ pushMissed' = ~subscriber /\ pc' = pc
  BY <1>1 DEF change_settings, threadVars
<1>3. pushMissed' \/ LastPush(intent)'
  <2>1. CASE subscriber
    <3>1. LastPush(b)'
      BY <1>2, <2>1, PushedIsLast
    <3> QED
      BY <1>2, <3>1 DEF LastPush, Pushes
  <2> QED
    BY <1>2, <2>1
<1>4. RepliesAreCurrent'
  <2>1. \A t \in Threads : pc[t] = "settings" => ack'[t] = [ack[t] EXCEPT !.stale = TRUE]
    BY DEF change_settings
  <2>2. ASSUME NEW r \in Replies PROVE [r EXCEPT !.stale = TRUE].stale
    BY DEF Replies
  <2>3. \A t \in Threads : ack[t] \in Replies
    BY DEF TypeOK
  <2> QED
    BY <1>2, <2>1, <2>2, <2>3 DEF RepliesAreCurrent
<1> QED
  BY <1>3, <1>4 DEF SettingKept, SettingNotLost, StaleIsCorrected

LEMMA SettingAnnounced ==
    ASSUME TypeOK, SettingKept, NEW t \in Threads, _announce_worker_connected(t)
    PROVE  SettingKept'
<1>1. PICK raw \in {"mapped", "without", "garbled", "absent"}, b \in {intent, None} :
        /\ ack' = [ack EXCEPT ![t] = [blocked |-> b, stale |-> FALSE,
                                      magics |-> _salvage_magic_map(raw),
                                      retry |-> published]]
        /\ pushMissed' = (pushMissed /\ b = None)
  BY DEF _announce_worker_connected
<1>2. /\ pc[t] = "announce" /\ pc' = [pc EXCEPT ![t] = "settings"]
      /\ UNCHANGED <<queue, blocked, intent>>
      /\ superseded' = (superseded \/ \E u \in Threads \ {t} : pc[u] = "settings" /\ ack[u].stale)
  BY DEF _announce_worker_connected, Goto, brokerVars
<1>3. /\ pc'[t] = "settings" /\ ack'[t].blocked = b /\ ack'[t].stale = FALSE
      /\ \A u \in Threads : u # t => pc'[u] = pc[u] /\ ack'[u] = ack[u]
  BY <1>1, <1>2 DEF TypeOK
<1>4. Pushes' = Pushes /\ (LastPush(intent)' <=> LastPush(intent)) /\ Listener \in Threads
  BY <1>2 DEF Pushes, LastPush, Threads
<1>5. RepliesAreCurrent'
  BY <1>2, <1>3 DEF SettingKept, RepliesAreCurrent
<1>6. StaleIsCorrected'
  <2>1. CASE t = Listener
    BY <1>3, <2>1 DEF StaleIsCorrected
  <2>2. CASE t # Listener /\ pc[Listener] = "settings" /\ ack[Listener].stale
    <3>1. superseded'
      BY <1>2, <1>4, <2>2
    <3> QED
      BY <3>1 DEF StaleIsCorrected
  <2>3. CASE t # Listener /\ ~(pc[Listener] = "settings" /\ ack[Listener].stale)
    BY <1>3, <1>4, <2>3 DEF StaleIsCorrected
  <2> QED
    BY <2>1, <2>2, <2>3
<1>7. SettingNotLost'
  <2>1. CASE b = intent
    BY <1>2, <1>3, <2>1 DEF SettingNotLost
  <2>2. CASE b = None
    <3>1. pushMissed => pushMissed'
      BY <1>1, <2>2
    <3>2. superseded => superseded'
      BY <1>2
    <3>3. \A u \in Threads : pc[u] = "settings" => u # t
      BY <1>2
    <3> QED
      BY <1>2, <1>3, <1>4, <3>1, <3>2, <3>3 DEF SettingKept, SettingNotLost
  <2> QED
    BY <1>1, <2>1, <2>2
<1> QED
  BY <1>5, <1>6, <1>7 DEF SettingKept

LEMMA SettingApplied ==
    ASSUME TypeOK, SettingKept, NEW t \in Threads, _apply_worker_settings(t)
    PROVE  SettingKept'
<1>1. /\ pc[t] = "settings" /\ pc' = [pc EXCEPT ![t] = "magics"]
      /\ blocked' = IF ack[t].blocked = None THEN blocked ELSE ack[t].blocked
      /\ UNCHANGED <<queue, intent, pushMissed>>
      /\ superseded' = (superseded \/ Crossed(t))
  BY DEF _apply_worker_settings, Goto, brokerVars
<1>2. pc'[t] = "magics" /\ \A u \in Threads : u # t => pc'[u] = pc[u] /\ ack'[u] = ack[u]
  BY <1>1, AppliedTypes DEF _apply_worker_settings, TypeOK
<1>3. Pushes' = Pushes /\ (LastPush(intent)' <=> LastPush(intent)) /\ Listener \in Threads
  BY <1>1 DEF Pushes, LastPush, Threads
<1>4. (superseded => superseded') /\ (Crossed(t) => superseded')
  BY <1>1
<1>5. RepliesAreCurrent'
  BY <1>1, <1>2 DEF SettingKept, RepliesAreCurrent
<1>6. StaleIsCorrected'
  BY <1>1, <1>2, <1>3, <1>4 DEF SettingKept, StaleIsCorrected
<1>7. SettingNotLost'
  <2>1. CASE pushMissed \/ superseded \/ Crossed(t) \/ LastPush(intent)
    BY <1>1, <1>3, <1>4, <2>1 DEF SettingNotLost
  <2>2. CASE \E u \in Threads \ {t} :
               pc[u] = "settings" /\ ~ack[u].stale /\ ack[u].blocked = intent
    BY <1>1, <1>2, <2>2 DEF SettingNotLost
  <2>3. CASE ack[t].blocked = None /\ Pushes = {} /\ blocked = intent
    BY <1>1, <1>3, <2>3 DEF SettingNotLost
  <2>4. CASE ack[t].blocked # None /\ ack[t].stale
    <3>1. CASE t = Listener
      BY <1>1, <2>1, <2>4, <3>1 DEF SettingKept, StaleIsCorrected
    <3>2. CASE t # Listener
      BY <2>1, <2>4, <3>2 DEF Crossed
    <3> QED
      BY <3>1, <3>2
  <2>5. CASE ack[t].blocked # None /\ ~ack[t].stale /\ ~Crossed(t)
    <3>1. ack[t].blocked = intent
      BY <1>1, <2>5 DEF SettingKept, RepliesAreCurrent
    <3>2. Pushes = {} \/ LastPush(intent)
      BY <2>5, <3>1 DEF Crossed
    <3>3. blocked' = intent /\ intent' = intent
      BY <1>1, <2>5, <3>1
    <3> QED
      BY <1>3, <2>1, <3>2, <3>3 DEF SettingNotLost
  <2>6. intent # None
    BY Distinct DEF TypeOK
  <2> QED
    BY <2>1, <2>2, <2>3, <2>4, <2>5, <2>6 DEF SettingKept, SettingNotLost
<1> QED
  BY <1>5, <1>6, <1>7 DEF SettingKept

LEMMA SettingListened == TypeOK /\ SettingKept /\ Listen => SettingKept'
<1> SUFFICES ASSUME TypeOK, SettingKept, Listen PROVE SettingKept'
  OBVIOUS
<1>1. /\ queue # <<>> /\ queue' = Tail(queue) /\ pc[Listener] = "listen"
      /\ UNCHANGED <<pc, ack, intent, pushMissed, superseded>>
  BY DEF Listen, _set_signals_blocked, _process_message, Listening, threadVars, brokerVars,
         settingHistory
<1>2. /\ Pushes = {} => Pushes' = {}
      /\ LastPush(intent) => LastPush(intent)' \/ (Pushes' = {} /\ Head(queue) = intent)
  <2>1. ASSUME LastPush(intent) PROVE LastPush(intent)' \/ (Pushes' = {} /\ Head(queue) = intent)
    <3>1. PICK b : b = intent
      OBVIOUS
    <3>2. LastPush(b)' \/ (Pushes' = {} /\ Head(queue) = b)
      BY <1>1, <2>1, <3>1, NewestIsTakenLast
    <3> QED
      BY <1>1, <3>1, <3>2 DEF LastPush
  <2> QED
    BY <1>1, <2>1, NewestIsTakenLast
<1>3. RepliesAreCurrent' /\ StaleIsCorrected'
  BY <1>1 DEF SettingKept, RepliesAreCurrent, StaleIsCorrected
<1>4. CASE Head(queue) \in BOOLEAN /\ blocked' = Head(queue)
  <2>1. Pushes # {}
    <3>1. 1 \in DOMAIN queue /\ queue[1] = Head(queue)
      BY <1>1 DEF TypeOK
    <3> QED
      BY <1>4, <3>1 DEF Pushes
  <2>2. SettingNotLost'
    BY <1>1, <1>2, <1>4, <2>1 DEF SettingKept, SettingNotLost
  <2> QED
    BY <1>3, <2>2 DEF SettingKept
<1>5. CASE Head(queue) \in Signals /\ blocked' = blocked
  <2>1. Head(queue) # intent
    BY <1>5, Distinct DEF TypeOK
  <2>2. SettingNotLost'
    BY <1>1, <1>2, <1>5, <2>1 DEF SettingKept, SettingNotLost
  <2> QED
    BY <1>3, <2>2 DEF SettingKept
<1> QED
  BY <1>4, <1>5 DEF Listen, _set_signals_blocked, _process_message

LEMMA SettingStep == TypeOK /\ SettingKept /\ [Next]_vars => SettingKept'
<1> SUFFICES ASSUME TypeOK, SettingKept, [Next]_vars PROVE SettingKept'
  OBVIOUS
<1> USE DEF linkVars, brokerVars, tableVars, threadVars, signalHistory, settingHistory
<1>0. /\ ack \in [Threads -> Replies]
      /\ pc \in [Threads -> {"off", "announce", "settings", "magics", "gate", "replay",
                             "listen"}]
      /\ Listener \in Threads
  BY DEF TypeOK, Threads
<1>1. ASSUME NEW s \in Signals, publish_signal(s) PROVE SettingKept'
  <2>1. Deliver(s) /\ UNCHANGED <<pc, ack, blocked, intent, pushMissed, superseded>>
    BY <1>1 DEF publish_signal
  <2>2. Pushes' = Pushes /\ (LastPush(intent) => LastPush(intent)')
    <3>1. PICK b : b = intent
      OBVIOUS
    <3>2. Pushes' = Pushes /\ (LastPush(b) => LastPush(b)')
      BY <2>1, SignalIsNoPush
    <3> QED
      BY <2>1, <3>1, <3>2 DEF LastPush
  <2>3. SettingNotLost'
    BY <2>1, <2>2 DEF SettingKept, SettingNotLost
  <2>4. RepliesAreCurrent' /\ StaleIsCorrected'
    BY <2>1, <2>2 DEF SettingKept, RepliesAreCurrent, StaleIsCorrected
  <2> QED
    BY <2>3, <2>4 DEF SettingKept
<1>2. CASE subscribe \/ connection_lost \/ UNCHANGED vars
  BY <1>2, SettingUntouched DEF subscribe, connection_lost, vars
<1>3. CASE publisher_reconnects
  BY <1>0, <1>3, SettingUntouched DEF publisher_reconnects
<1>4. ASSUME NEW t \in Threads, handshake_refused(t) PROVE SettingKept'
  BY <1>0, <1>4, SettingUntouched DEF handshake_refused, Goto, Done
<1>5. ASSUME NEW t \in Threads, _apply_strategy_magic_map(t) PROVE SettingKept'
  <2>1. \A u \in Threads : u # t => ack'[u] = ack[u]
    BY <1>5, AppliedTypes DEF _apply_strategy_magic_map
  <2> QED
    BY <1>0, <1>5, <2>1, SettingUntouched DEF _apply_strategy_magic_map, Goto
<1>6. ASSUME NEW t \in Threads, _replay_blocked_reason(t) PROVE SettingKept'
  BY <1>0, <1>6, SettingUntouched DEF _replay_blocked_reason, Goto, Done
<1>7. ASSUME NEW t \in Threads, _apply_retry_signals(t) PROVE SettingKept'
  BY <1>0, <1>7, SettingUntouched DEF _apply_retry_signals, NextReplay, Replaying
<1>8. ASSUME NEW t \in Threads, handshake_done(t) PROVE SettingKept'
  BY <1>0, <1>8, SettingUntouched DEF handshake_done, Goto, Done
<1>9. ASSUME NEW t \in Threads, ProcessSignal(t) PROVE SettingKept'
  BY <1>9, SettingUntouched
     DEF ProcessSignal, signal_gate, entry_guards, handle_filled, handle_refused,
         handle_raised, Raised, log_position, insert_position, update_position_status
<1>10. CASE Crash
  <2>1. pushMissed' /\ \A t \in Threads : pc'[t] # "settings"
    BY <1>10 DEF Crash
  <2> QED
    BY <1>0, <2>1 DEF SettingKept, SettingNotLost, RepliesAreCurrent, StaleIsCorrected
<1> QED
  BY <1>1, <1>2, <1>3, <1>4, <1>5, <1>6, <1>7, <1>8, <1>9, <1>10, SettingChanged,
     SettingAnnounced, SettingApplied, SettingListened DEF Next, Handshake

\* The operator's block is in force, queued behind every older push, or about to
\* be applied, unless its push was missed or a reply crossed a push
\* (_set_signals_blocked, _apply_worker_settings).  RepliesAreCurrent and
\* StaleIsCorrected make that inductive: what a handshake is about to apply is
\* the broker's setting, or a newer one is queued behind it.
THEOREM SettingIsKept == Spec => []SettingNotLost
<1>1. SettingKept => SettingNotLost
  BY DEF SettingKept
<1> QED
  BY <1>1, SettingStart, SettingStep, TypeCorrect, PTL DEF Spec

\* Neither a signal nor a setting is lost on its way through the worker's queue,
\* the replays and the handshakes of any number of threads.
THEOREM NothingIsLost == Spec => []NothingLost
BY NoneLeavesUndecided, SettingIsKept, PTL DEF NothingLost

=============================================================================
