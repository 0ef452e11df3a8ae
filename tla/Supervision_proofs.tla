------------------------- MODULE Supervision_proofs -------------------------
(***************************************************************************)
(* The threads and processes around a worker, for any number of restarts:  *)
(* one session at a time, and a stop that reaches everything that runs;    *)
(* and the terminal's watchers, for any tickets, magics, attempts,         *)
(* weekends, maps and failures: what the close detector may report and     *)
(* what it may forget.                                                     *)
(***************************************************************************)
EXTENDS Supervision, TerminalWatch, FiniteSetTheorems, TLAPS

-----------------------------------------------------------------------------
\* Workers are spawned in order ...
InOrder ==
    \A v, w \in Workers : v < w /\ worker[w] # "unborn" => worker[v] # "unborn"

\* ... one at a time: the watchdog restarts only while none is alive, and in the
\* end holds the one that is.
OneAlive ==
    /\ \A v, w \in Workers : is_alive(v) /\ is_alive(w) => v = w
    /\ watchdog \in {"restarting", "cleared"} => \A w \in Workers : ~is_alive(w)
    /\ watchdog = "asleep" /\ app = "serving"
         => \A w \in Workers : is_alive(w) => w = current
    /\ watchdog = "spawned" =>
         \E n \in Workers : /\ worker[n] # "unborn"
                            /\ \A v \in Workers : v > n => worker[v] = "unborn"
                            /\ \A v \in Workers : is_alive(v) => v = n

\* Only a living worker has a session; so do, in a child process, the jobs.
HeldByTheLiving ==
    \A w \in Workers :
        /\ w \in sessions => worker[w] \in {"connected", "running", "closing"}
        /\ worker[w] \in {"unborn", "starting"} => jobs[w] = {}
        /\ mode = "process" /\ worker[w] = "dead" => jobs[w] = {}

IInv == TypeOK /\ InOrder /\ OneAlive /\ HeldByTheLiving

\* What the watchdog calls the newest worker is the one it spawned last.
LEMMA NewestIsLast ==
    ASSUME NEW n \in Workers, worker[n] # "unborn",
           \A v \in Workers : v > n => worker[v] = "unborn"
    PROVE  Newest = n
<1>1. \A w \in Workers :
          worker[w] # "unborn" /\ (\A v \in Workers : v > w => worker[v] = "unborn") => w = n
  BY DEF Workers
<1> QED
  BY <1>1 DEF Newest

\* A worker's own step: it was alive and at most dies; the rest stays as it was.
LEMMA WorkerMoves ==
    ASSUME IInv, NEW w \in Workers, is_alive(w),
           NEW s \in {"building", "connected", "running", "closing", "dead"},
           worker' = [worker EXCEPT ![w] = s], UNCHANGED <<watchdog, current>>,
           app' = app \/ app' # "serving"
    PROVE  InOrder' /\ OneAlive'
<1>1. \A v \in Workers : worker'[v] = IF v = w THEN s ELSE worker[v]
  BY DEF IInv, TypeOK
<1>2. \A v \in Workers : (worker'[v] = "unborn") = (worker[v] = "unborn")
  BY <1>1 DEF is_alive
<1>3. \A v \in Workers : is_alive(v)' => is_alive(v)
  BY <1>1 DEF is_alive
<1>4. InOrder'
  BY <1>2 DEF IInv, InOrder
<1>5. watchdog \notin {"restarting", "cleared"}
  BY DEF IInv, OneAlive
<1> QED
  BY <1>2, <1>3, <1>4, <1>5 DEF IInv, OneAlive

\* Spawning while nobody lives.
LEMMA Spawned ==
    ASSUME IInv, NEW w \in Workers, Spawn(w), watchdog \in {"restarting", "cleared"},
           UNCHANGED sessions, UNCHANGED <<mode, jobs>>
    PROVE  /\ worker' \in [Workers -> {"unborn", "starting", "building", "connected",
                                       "running", "closing", "dead"}]
           /\ InOrder'
           /\ worker'[w] # "unborn"
           /\ \A v \in Workers : v > w => worker'[v] = "unborn"
           /\ \A v \in Workers : is_alive(v)' => v = w
           /\ HeldByTheLiving'
<1>1. /\ worker[w] = "unborn" /\ \A v \in Workers : v < w => worker[v] # "unborn"
      /\ \A v \in Workers : worker'[v] = IF v = w THEN "starting" ELSE worker[v]
      /\ \A v \in Workers : ~is_alive(v)
  BY DEF Spawn, IInv, TypeOK, OneAlive
<1>2. \A v \in Workers : v > w => worker[v] = "unborn"
  BY <1>1 DEF IInv, InOrder
<1>3. InOrder'
  BY <1>1, <1>2 DEF IInv, InOrder, Workers
<1>4. HeldByTheLiving'
  BY <1>1 DEF IInv, HeldByTheLiving
<1> QED
  BY <1>1, <1>2, <1>3, <1>4 DEF Spawn, IInv, TypeOK, is_alive, Workers

LEMMA Inductive == IInv /\ [Next]_vars => IInv'
<1> SUFFICES ASSUME IInv, [Next]_vars PROVE IInv'
  OBVIOUS
<1> USE DEF TypeOK
<1>1. ASSUME NEW w \in Workers, WorkerStep(w) \/ Connecting(w) PROVE IInv'
  <2>1. /\ \E s \in {"building", "connected", "running", "closing", "dead"} :
             worker' = [worker EXCEPT ![w] = s]
        /\ is_alive(w) /\ WorkerOnly
    BY <1>1 DEF WorkerStep, Connecting, start_notification_job, no_context, connect,
                connect_fails, start_market_jobs, start_market_jobs_fails, run_returns,
                shutdown, is_alive
  <2>2. InOrder' /\ OneAlive'
    BY <2>1, WorkerMoves DEF WorkerOnly
  <2>3. TypeOK'
    BY <1>1, <2>1 DEF IInv, WorkerStep, Connecting, start_notification_job, no_context,
                connect, connect_fails, start_market_jobs, start_market_jobs_fails,
                run_returns, shutdown, JobsLeftBy, WorkerOnly, JobKinds
  <2>4. HeldByTheLiving'
    <3>1. CASE start_notification_job(w) \/ start_market_jobs(w) \/ start_market_jobs_fails(w)
      BY <3>1 DEF IInv, HeldByTheLiving, start_notification_job, start_market_jobs,
                  start_market_jobs_fails, WorkerOnly
    <3>2. CASE no_context(w) \/ connect(w) \/ connect_fails(w) \/ run_returns(w)
      BY <3>2 DEF IInv, HeldByTheLiving, no_context, connect, connect_fails, run_returns,
                  WorkerOnly
    <3>3. CASE shutdown(w)
      BY <3>3 DEF IInv, HeldByTheLiving, shutdown, JobsLeftBy, WorkerOnly
    <3> QED
      BY <1>1, <3>1, <3>2, <3>3 DEF WorkerStep, Connecting
  <2> QED
    BY <2>2, <2>3, <2>4 DEF IInv
<1>2. ASSUME NEW w \in Workers, Killed(w), is_alive(w), UNCHANGED <<mode, watchdog, current>>,
             app' \in {app, "stopped"}, stop_event' \in BOOLEAN, late' \in BOOLEAN
      PROVE  IInv'
  <2>1. InOrder' /\ OneAlive'
    BY <1>2, WorkerMoves DEF Killed
  <2> QED
    BY <1>2, <2>1 DEF IInv, Killed, HeldByTheLiving, JobKinds
<1>3. ASSUME NEW w \in Workers, ProcessDies(w) PROVE IInv'
  BY <1>3, <1>2 DEF ProcessDies, WorkerOnly, IInv
<1>4. ASSUME NEW w \in Workers, NEW k \in JobKinds, JobStops(w, k) PROVE IInv'
  BY <1>4 DEF JobStops, WorkerOnly, IInv, InOrder, OneAlive, HeldByTheLiving, is_alive
<1>5. CASE watchdog_finds_dead
  BY <1>5 DEF watchdog_finds_dead, IInv, InOrder, OneAlive, HeldByTheLiving, is_alive
<1>6. CASE thread_spawn
  <2>1. PICK w \in Workers : Spawn(w)
    BY <1>6 DEF thread_spawn
  <2>2. UNCHANGED <<mode, app, stop_event, current, jobs, sessions, late>>
        /\ watchdog = "restarting" /\ watchdog' = "spawned"
    BY <1>6 DEF thread_spawn
  <2>3. OneAlive'
    BY <2>1, <2>2, Spawned DEF OneAlive
  <2> QED
    BY <2>1, <2>2, <2>3, Spawned DEF IInv
<1>7. CASE thread_spawned
  <2>1. PICK n \in Workers : /\ worker[n] # "unborn"
                             /\ \A v \in Workers : v > n => worker[v] = "unborn"
                             /\ \A v \in Workers : is_alive(v) => v = n
    BY <1>7 DEF thread_spawned, IInv, OneAlive
  <2>2. Newest = n
    BY <2>1, NewestIsLast
  <2> QED
    BY <1>7, <2>1, <2>2 DEF thread_spawned, IInv, InOrder, OneAlive, HeldByTheLiving, is_alive
<1>8. CASE restart_clears
  BY <1>8 DEF restart_clears, IInv, InOrder, OneAlive, HeldByTheLiving, is_alive
<1>9. CASE restart_spawns
  <2>1. PICK w \in Workers : Spawn(w) /\ current' = w
    BY <1>9 DEF restart_spawns
  <2>2. UNCHANGED <<mode, app, stop_event, jobs, sessions, late>>
        /\ watchdog = "cleared" /\ watchdog' = "asleep"
    BY <1>9 DEF restart_spawns
  <2>3. OneAlive'
    BY <2>1, <2>2, Spawned DEF OneAlive
  <2> QED
    BY <2>1, <2>2, <2>3, Spawned DEF IInv
<1>10. CASE shutdown_begins \/ signal_stop \/ joined
  <2>1. /\ app' # "serving" /\ app' \in {"cancelled", "joining", "stopped"}
        /\ stop_event' \in BOOLEAN /\ late' \in BOOLEAN
        /\ UNCHANGED <<mode, watchdog, current, worker, jobs, sessions>>
    <3>1. CASE shutdown_begins
      BY <3>1 DEF shutdown_begins, OrchestratorOnly, IInv
    <3>2. CASE signal_stop
      BY <3>2 DEF signal_stop, OrchestratorOnly, IInv
    <3>3. CASE joined
      BY <3>3 DEF joined, OrchestratorOnly, IInv
    <3> QED
      BY <1>10, <3>1, <3>2, <3>3
  <2>2. OneAlive'
    BY <2>1 DEF IInv, OneAlive, is_alive
  <2> QED
    BY <2>1, <2>2 DEF IInv, InOrder, HeldByTheLiving
<1>11. CASE join_times_out
  <2>1. CASE mode = "process"
    BY <1>11, <2>1, <1>2 DEF join_times_out, OrchestratorOnly, IInv
  <2>2. CASE mode # "process"
    BY <1>11, <2>2 DEF join_times_out, OrchestratorOnly, IInv, InOrder, OneAlive,
                       HeldByTheLiving, is_alive
  <2> QED
    BY <2>1, <2>2
<1>12. CASE UNCHANGED vars
  BY <1>12 DEF vars, IInv, InOrder, OneAlive, HeldByTheLiving, is_alive
<1> QED
  BY <1>1, <1>3, <1>4, <1>5, <1>6, <1>7, <1>8, <1>9, <1>10, <1>11, <1>12
     DEF Next, Restart, Stop

LEMMA Initially == Init => IInv
<1> SUFFICES ASSUME Init PROVE IInv
  OBVIOUS
<1>1. 1 \in Workers
  BY WorkersAssumption DEF Workers
<1>2. TypeOK /\ HeldByTheLiving
  BY <1>1 DEF Init, TypeOK, HeldByTheLiving, JobKinds
<1>3. InOrder /\ OneAlive
  BY <1>1 DEF Init, InOrder, OneAlive, is_alive, Workers
<1> QED
  BY <1>2, <1>3 DEF IInv

\* Every step of a worker, the watchdog and the shutdown keeps the state well
\* formed; the handle always names a worker.
THEOREM TypeCorrect == Spec => []TypeOK
<1>1. IInv => TypeOK
  BY DEF IInv
<1> QED
  BY Initially, Inductive, <1>1, PTL DEF Spec

LEMMA AtMostOne ==
    ASSUME NEW S, \A v, w \in S : v = w
    PROVE  Cardinality(S) <= 1
<1>1. CASE S = {}
  BY <1>1, FS_EmptySet
<1>2. CASE S # {}
  <2>1. PICK x : x \in S
    BY <1>2
  <2>2. S = {x}
    BY <2>1
  <2> QED
    BY <2>2, FS_Singleton
<1> QED
  BY <1>1, <1>2

\* Whatever fails and whenever the application is stopped, no two workers have a
\* session, and no child process leaves jobs behind.
THEOREM SessionsAreSingle == Spec => []OneSession
<1>1. IInv => OneSession
  <2> SUFFICES ASSUME IInv PROVE OneSession
    OBVIOUS
  <2>1. \A v, w \in sessions : v = w
    BY DEF IInv, TypeOK, OneAlive, HeldByTheLiving, is_alive
  <2>2. mode = "process" => \A v, w \in {x \in Workers : jobs[x] # {}} : v = w
    BY DEF IInv, TypeOK, OneAlive, HeldByTheLiving, is_alive
  <2>3. mode = "process" => Cardinality({x \in Workers : jobs[x] # {}}) <= 1
    BY <2>2, AtMostOne
  <2> QED
    BY <2>1, <2>3, AtMostOne DEF OneSession
<1> QED
  BY Initially, Inductive, <1>1, PTL DEF Spec

-----------------------------------------------------------------------------
(* Stopping *)

\* How far a shutdown has come: a restart that was not under way when it began
\* does not begin any more, the event is set before anything is waited for, and a
\* child process that is waited for is the last one.
Stopping ==
    /\ watchdog = "cleared" => mode = "process"
    /\ watchdog = "spawned" => mode = "thread"
    /\ app # "serving" /\ ~late => watchdog \notin {"restarting", "cleared"}
    /\ app # "serving" /\ mode = "process" /\ ~late =>
         \A w \in Workers : is_alive(w) => w = current
    /\ app \in {"joining", "stopped"} /\ mode = "thread" => stop_event
    /\ app = "joining" /\ ~late => stop_event
    /\ app = "stopped" /\ mode = "process" /\ ~late => \A w \in Workers : ~is_alive(w)

\* What only lets workers end changes nothing of that.
LEMMA EndingKeepsStopping ==
    ASSUME Stopping, UNCHANGED <<mode, app, watchdog, stop_event, current, late>>,
           \A w \in Workers : is_alive(w)' => is_alive(w)
    PROVE  Stopping'
BY DEF Stopping

LEMMA StoppingStep == IInv /\ Stopping /\ [Next]_vars => Stopping'
<1> SUFFICES ASSUME IInv, Stopping, [Next]_vars PROVE Stopping'
  OBVIOUS
<1>1. ASSUME NEW w \in Workers,
             WorkerStep(w) \/ Connecting(w) \/ ProcessDies(w)
      PROVE  Stopping'
  <2>1. /\ is_alive(w) /\ WorkerOnly
        /\ \E s \in {"building", "connected", "running", "closing", "dead"} :
             worker' = [worker EXCEPT ![w] = s]
    <3>1. CASE ProcessDies(w)
      BY <3>1 DEF ProcessDies, Killed
    <3>2. CASE WorkerStep(w) \/ Connecting(w)
      BY <3>2 DEF WorkerStep, Connecting, start_notification_job, no_context, connect,
                  connect_fails, start_market_jobs, start_market_jobs_fails, run_returns,
                  shutdown, is_alive
    <3> QED
      BY <1>1, <3>1, <3>2
  <2>2. \A v \in Workers : is_alive(v)' => is_alive(v)
    BY <2>1 DEF is_alive, IInv, TypeOK
  <2> QED
    BY <2>1, <2>2, EndingKeepsStopping DEF WorkerOnly
<1>2. ASSUME NEW w \in Workers, NEW k \in JobKinds, JobStops(w, k) PROVE Stopping'
  BY <1>2, EndingKeepsStopping DEF JobStops, WorkerOnly, is_alive
<1>3. CASE watchdog_finds_dead
  BY <1>3 DEF watchdog_finds_dead, Stopping
<1>4. CASE thread_spawn
  BY <1>4 DEF thread_spawn, Stopping
<1>5. CASE thread_spawned
  BY <1>5 DEF thread_spawned, Stopping
<1>6. CASE restart_clears
  BY <1>6 DEF restart_clears, Stopping, is_alive
<1>7. CASE restart_spawns
  BY <1>7 DEF restart_spawns, Stopping
<1>8. CASE shutdown_begins
  <2>1. mode = "process" /\ ~late' => watchdog = "asleep"
    BY <1>8 DEF shutdown_begins, IInv, TypeOK, Stopping
  <2> QED
    BY <1>8, <2>1 DEF shutdown_begins, OrchestratorOnly, IInv, OneAlive, Stopping, is_alive
<1>9. CASE signal_stop
  <2>1. mode \in {"thread", "process"}
    BY DEF IInv, TypeOK
  <2>2. UNCHANGED <<mode, watchdog, current, worker, late>> /\ app = "cancelled"
    BY <1>9 DEF signal_stop, OrchestratorOnly
  <2>3. CASE mode = "thread" \/ is_alive(current)
    BY <1>9, <2>2, <2>3 DEF signal_stop, Stopping, is_alive
  <2>4. CASE mode = "process" /\ ~is_alive(current)
    BY <1>9, <2>2, <2>4 DEF signal_stop, Stopping, is_alive
  <2> QED
    BY <2>1, <2>3, <2>4
<1>10. CASE joined
  BY <1>10 DEF joined, OrchestratorOnly, Stopping, is_alive
<1>11. CASE join_times_out
  <2>1. CASE mode = "process"
    <3>1. /\ \A v \in Workers : is_alive(v)' => is_alive(v) /\ v # current
          /\ UNCHANGED <<mode, watchdog, current, stop_event, late>>
          /\ app = "joining" /\ app' = "stopped"
      BY <1>11, <2>1 DEF join_times_out, OrchestratorOnly, Killed, IInv, TypeOK, is_alive
    <3> QED
      BY <2>1, <3>1 DEF Stopping
  <2>2. CASE mode # "process"
    BY <1>11, <2>2 DEF join_times_out, OrchestratorOnly, Stopping, is_alive
  <2> QED
    BY <2>1, <2>2
<1>12. CASE UNCHANGED vars
  BY <1>12, EndingKeepsStopping DEF vars, is_alive
<1> QED
  BY <1>1, <1>2, <1>3, <1>4, <1>5, <1>6, <1>7, <1>8, <1>9, <1>10, <1>11, <1>12
     DEF Next, Restart, Stop

LEMMA StoppingStart == Init => Stopping
BY DEF Init, Stopping

\* What is dead in a child process has left neither jobs nor a session.
LEMMA DeadChildLeavesNothing ==
    ASSUME IInv, mode = "process", \A w \in Workers : ~is_alive(w)
    PROVE  sessions = {} /\ \A w \in Workers : jobs[w] = {}
<1>1. \A w \in Workers : worker[w] \in {"unborn", "dead"}
  BY DEF is_alive
<1> QED
  BY <1>1 DEF IInv, TypeOK, HeldByTheLiving

\* However the watchdog, the dying workers and the shutdown interleave, the stop
\* signal reaches everything that runs, and no child process survives stop().
THEOREM StopIsNotLost == Spec => []StopReachesEveryone
<1>1. ASSUME IInv, Stopping, app \in {"joining", "stopped"}, ~(mode = "process" /\ late),
             ~stop_event
      PROVE  \A w \in Workers : ~is_alive(w) /\ jobs[w] = {}
  <2>1. mode = "process" /\ ~late /\ app = "stopped"
    BY <1>1 DEF IInv, TypeOK, Stopping
  <2> QED
    BY <1>1, <2>1, DeadChildLeavesNothing DEF Stopping
<1>2. ASSUME IInv, Stopping, app = "stopped", mode = "process", ~late
      PROVE  sessions = {} /\ \A w \in Workers : ~is_alive(w) /\ jobs[w] = {}
  BY <1>2, DeadChildLeavesNothing DEF Stopping
<1>3. IInv /\ Stopping => StopReachesEveryone
  BY <1>1, <1>2 DEF StopReachesEveryone
<1> QED
  BY Initially, Inductive, StoppingStart, StoppingStep, <1>3, PTL DEF Spec

-----------------------------------------------------------------------------
(* The terminal: the state of its threads *)

HealthStates ==
    [at: {"wait", "check", "shutdown", "connect", "restart"},
     saw_closed: BOOLEAN, parked: BOOLEAN, restarted: BOOLEAN, attempt: 0..MaxAttempts]

LinkTypes ==
    /\ open \in BOOLEAN /\ server \in BOOLEAN /\ conn \in BOOLEAN
    /\ started \in BOOLEAN /\ fresh \in BOOLEAN

\* A reconnect that is about to try again has an attempt left.
ThreadTypes ==
    /\ health \in HealthStates
    /\ health.at = "shutdown" => health.attempt < MaxAttempts
    /\ listener \in {"idle", "shutdown", "connect"}

\* The account and the table.
BookTypes ==
    /\ owned \subseteq Magics /\ dropped \subseteq Magics
    /\ pos \in [Tickets -> [magic: Magics \cup {"none"}, live: BOOLEAN]]
    /\ last \in [Tickets -> {"none", "expert", "terminal"}]
    /\ row \in [Tickets -> {"none", "OPENED", "TERMINAL_CLOSED"}]
    /\ maps \in 0..MaxMaps

\* The close detector; only the job in the middle of a batch has one.
WatchTypes ==
    /\ seen \subseteq Tickets /\ todo \subseteq Tickets /\ missed \subseteq Tickets
    /\ job \in {"poll", "scan", "handle"}
    /\ job # "handle" => todo = {}
    /\ weekends \in 0..MaxWeekends /\ trouble \in 0..MaxTrouble

\* A ticket that was never opened has neither a row nor been seen.
UnopenedIsUnknown ==
    \A t \in Tickets : pos[t].magic = "none" =>
        ~pos[t].live /\ row[t] = "none" /\ t \notin seen \cup todo

\* Every magic is in the map or was in it once.
OwnedOnce == Magics \subseteq owned \cup dropped

\* What is on its way to a row of its own is as good as recorded.
ClosesAreReal ==
    \A t \in Tickets :
        (t \in todo \/ row[t] = "TERMINAL_CLOSED") /\ pos[t].live => pos[t].magic \in dropped

WatchInv ==
    /\ LinkTypes /\ ThreadTypes /\ BookTypes /\ WatchTypes
    /\ UnopenedIsUnknown /\ OwnedOnce /\ ClosesAreReal

LEMMA WatchStart == WatchInit => WatchInv
<1> SUFFICES ASSUME WatchInit PROVE WatchInv
  OBVIOUS
<1>1. LinkTypes
  BY DEF WatchInit, LinkTypes
<1>2. ThreadTypes
  BY WatchAssumption DEF WatchInit, ThreadTypes, HealthStates, Resting
<1>3. BookTypes
  BY WatchAssumption DEF WatchInit, BookTypes
<1>4. WatchTypes
  BY WatchAssumption DEF WatchInit, WatchTypes
<1>5. UnopenedIsUnknown /\ OwnedOnce /\ ClosesAreReal
  BY DEF WatchInit, UnopenedIsUnknown, OwnedOnce, ClosesAreReal
<1> QED
  BY <1>1, <1>2, <1>3, <1>4, <1>5 DEF WatchInv

\* What the threads do with the connection touches neither the account nor the
\* detector.
LEMMA ThreadsKeepTypes ==
    ASSUME LinkTypes, ThreadTypes,
           \/ Health \/ Reconnect \/ ensure_gateway_connected
    PROVE  LinkTypes' /\ ThreadTypes' /\ UNCHANGED <<book, watch, weekends, trouble>>
<1>0. MaxAttempts \in Nat \ {0} /\ Resting \in HealthStates
  BY WatchAssumption DEF Resting, HealthStates
<1>1. CASE health_waits
  BY <1>1 DEF health_waits, LinkTypes, ThreadTypes, HealthStates, link
<1>2. CASE health_checks
  <2>1. LinkTypes' /\ listener' \in {"idle", "shutdown", "connect"}
    BY <1>2 DEF health_checks, LinkTypes, ThreadTypes
  <2>2. \/ health' = [Resting EXCEPT !.parked = TRUE]
        \/ health' = Resting
        \/ health' = [Resting EXCEPT !.at = "shutdown"]
    BY <1>2 DEF health_checks, AfterCheck
  <2>3. health' \in HealthStates
    BY <1>0, <2>2 DEF HealthStates
  <2>4. health'.attempt = 0
    BY <2>2 DEF Resting
  <2> QED
    BY <1>0, <1>2, <2>1, <2>3, <2>4 DEF health_checks, ThreadTypes
<1>3. CASE health_shutdown
  <2>1. LinkTypes' /\ listener' \in {"idle", "shutdown", "connect"}
    BY <1>3 DEF health_shutdown, LinkTypes, ThreadTypes
  <2>2. health.attempt + 1 \in 0..MaxAttempts /\ health \in HealthStates
    BY <1>0, <1>3 DEF health_shutdown, ThreadTypes, HealthStates
  <2>3. health' = [health EXCEPT !.at = "connect", !.attempt = health.attempt + 1]
    BY <1>3 DEF health_shutdown
  <2>4. health' \in HealthStates /\ health'.at = "connect"
    BY <2>2, <2>3 DEF HealthStates
  <2> QED
    BY <1>3, <2>1, <2>4 DEF health_shutdown, ThreadTypes
<1>4. CASE health_connect
  <2>1. LinkTypes' /\ listener' \in {"idle", "shutdown", "connect"}
    BY <1>4 DEF health_connect, LinkTypes, ThreadTypes
  <2>2. health.attempt \in 0..MaxAttempts /\ server \in BOOLEAN
    BY DEF ThreadTypes, HealthStates, LinkTypes
  <2>3. \/ health' = Resting
        \/ health' = [health EXCEPT !.at = "shutdown"] /\ health.attempt < MaxAttempts
        \/ health' = [health EXCEPT !.at = "restart"]
    BY <1>0, <1>4, <2>2 DEF health_connect, AfterAttempt
  <2>4. health' \in HealthStates
        /\ (health'.at = "shutdown" => health'.attempt < MaxAttempts)
    BY <1>0, <2>3 DEF ThreadTypes, HealthStates, Resting
  <2> QED
    BY <1>4, <2>1, <2>4 DEF health_connect, ThreadTypes
<1>5. CASE restart_terminal
  <2>1. LinkTypes' /\ listener' \in {"idle", "shutdown", "connect"}
    BY <1>5 DEF restart_terminal, LinkTypes, ThreadTypes
  <2>2. \/ health' = Resting
        \/ health' = [health EXCEPT !.at = "shutdown", !.restarted = TRUE, !.attempt = 0]
    BY <1>5 DEF restart_terminal
  <2>3. health \in HealthStates /\ 0 \in 0..MaxAttempts
    BY <1>0 DEF ThreadTypes
  <2>4. CASE health' = Resting
    BY <1>0, <1>5, <2>1, <2>4 DEF restart_terminal, ThreadTypes, Resting
  <2>5. CASE health' = [health EXCEPT !.at = "shutdown", !.restarted = TRUE, !.attempt = 0]
    <3>1. health' = [at |-> "shutdown", saw_closed |-> health.saw_closed,
                     parked |-> health.parked, restarted |-> TRUE, attempt |-> 0]
      BY <2>3, <2>5 DEF HealthStates
    <3>2. health' \in HealthStates /\ health'.attempt = 0
      BY <2>3, <3>1 DEF HealthStates
    <3> QED
      BY <1>0, <1>5, <2>1, <3>2 DEF restart_terminal, ThreadTypes
  <2> QED
    BY <2>2, <2>4, <2>5
<1>6. CASE Reconnect
  BY <1>6 DEF Reconnect, listener_shutdown, listener_connect, LinkTypes, ThreadTypes
<1>7. CASE ensure_gateway_connected
  BY <1>7 DEF ensure_gateway_connected, LinkTypes, ThreadTypes, link
<1> QED
  BY <1>1, <1>2, <1>3, <1>4, <1>5, <1>6, <1>7 DEF Health

\* A step that leaves the account, the table and the detector alone keeps what
\* is said of them.
LEMMA BookAndWatchStay ==
    ASSUME WatchInv, LinkTypes', ThreadTypes', UNCHANGED <<book, watch>>,
           weekends' \in 0..MaxWeekends, trouble' \in 0..MaxTrouble
    PROVE  WatchInv'
BY DEF WatchInv, BookTypes, WatchTypes, UnopenedIsUnknown, OwnedOnce, ClosesAreReal,
       book, watch

LEMMA TroubleTypes ==
    ASSUME trouble \in 0..MaxTrouble, Trouble PROVE trouble' \in 0..MaxTrouble
BY WatchAssumption DEF Trouble

\* What a scan misses among the tickets it saw is closed or no longer the map's.
LEMMA GoneFromScan ==
    ASSUME WatchInv, NEW t \in seen \ SeenNow, pos[t].live
    PROVE  pos[t].magic \in dropped
<1>1. t \in Tickets /\ t \notin Current /\ pos[t].magic \in Magics
  BY DEF SeenNow, WatchInv, WatchTypes, UnopenedIsUnknown, BookTypes
<1>2. pos[t].magic \notin owned
  BY <1>1 DEF Current
<1> QED
  BY <1>1, <1>2 DEF WatchInv, OwnedOnce

LEMMA ScanStep ==
    ASSUME WatchInv, scan_terminal_closed_positions PROVE WatchInv'
<1> USE DEF scan_terminal_closed_positions
<1>1. LinkTypes' /\ ThreadTypes' /\ BookTypes'
  BY DEF WatchInv, LinkTypes, ThreadTypes, BookTypes, link, book
<1>2. seen' = SeenNow /\ todo' \subseteq seen \ SeenNow /\ UNCHANGED book
  OBVIOUS
<1>3. seen' \subseteq Tickets /\ todo' \subseteq Tickets
  BY <1>2 DEF WatchInv, WatchTypes, SeenNow, Current
<1>4. missed' \subseteq Tickets /\ trouble' \in 0..MaxTrouble
  BY TroubleTypes DEF WatchInv, WatchTypes, Gone
<1>5. job' \in {"poll", "scan", "handle"} /\ (job' # "handle" => todo' = {})
  OBVIOUS
<1>6. WatchTypes'
  BY <1>3, <1>4, <1>5 DEF WatchInv, WatchTypes
<1>7. \A t \in seen' : t \in seen \/ pos[t].live
  BY <1>2 DEF SeenNow, Current
<1>8. UnopenedIsUnknown'
  BY <1>2, <1>7 DEF WatchInv, UnopenedIsUnknown, book
<1>9. OwnedOnce' /\ ClosesAreReal'
  BY <1>2, GoneFromScan DEF WatchInv, OwnedOnce, ClosesAreReal, book
<1> QED
  BY <1>1, <1>6, <1>8, <1>9 DEF WatchInv

LEMMA HandleStep == ASSUME WatchInv, handle PROVE WatchInv'
<1>0. PICK t \in todo :
         \/ /\ row' = [row EXCEPT ![t] = "TERMINAL_CLOSED"] /\ todo' = todo \ {t}
            /\ UNCHANGED <<missed, trouble>>
         \/ /\ Trouble
            /\ missed' = missed \cup ({t} \cap Gone) /\ todo' = RestOfBatch(t)
            /\ UNCHANGED row
  BY DEF handle
<1>1. LinkTypes' /\ ThreadTypes'
  BY DEF handle, WatchInv, LinkTypes, ThreadTypes, link
<1>2. t \in Tickets /\ todo' = todo \ {t} /\ seen' = seen
  BY <1>0 DEF handle, WatchInv, WatchTypes, RestOfBatch
<1>3. BookTypes'
  BY <1>0, <1>2 DEF handle, WatchInv, BookTypes
<1>4. missed' \subseteq Tickets /\ trouble' \in 0..MaxTrouble
  BY <1>0, <1>2, TroubleTypes DEF WatchInv, WatchTypes
<1>5. WatchTypes'
  BY <1>2, <1>4 DEF handle, WatchInv, WatchTypes
<1>6. \A u \in Tickets : row'[u] = row[u] \/ (u = t /\ row'[u] = "TERMINAL_CLOSED")
  BY <1>0, <1>2 DEF WatchInv, BookTypes
<1>7. UNCHANGED <<pos, owned, dropped>>
  BY DEF handle
<1>8. UnopenedIsUnknown'
  BY <1>2, <1>6, <1>7 DEF WatchInv, UnopenedIsUnknown
<1>9. OwnedOnce' /\ ClosesAreReal'
  BY <1>2, <1>6, <1>7 DEF WatchInv, OwnedOnce, ClosesAreReal
<1> QED
  BY <1>1, <1>3, <1>5, <1>8, <1>9 DEF WatchInv

\* The account changes: a position is opened, or a deal closes one.
LEMMA PositionStep == ASSUME WatchInv, open_position \/ deal PROVE WatchInv'
<1>1. LinkTypes' /\ ThreadTypes' /\ WatchTypes' /\ OwnedOnce'
  BY DEF open_position, deal, WatchInv, LinkTypes, ThreadTypes, WatchTypes, OwnedOnce,
         link, watch
<1>2. CASE open_position
  <2>1. PICK t \in Tickets, m \in owned :
           /\ pos[t].magic = "none"
           /\ pos' = [pos EXCEPT ![t] = [magic |-> m, live |-> TRUE]]
           /\ row' = [row EXCEPT ![t] = "OPENED"]
    BY <1>2 DEF open_position
  <2>2. m \in Magics /\ m # "none"
    BY WatchAssumption DEF WatchInv, BookTypes
  <2>3. UNCHANGED <<seen, todo, owned, dropped, last, maps>>
    BY <1>2 DEF open_position, watch
  <2>4. BookTypes'
    BY <2>1, <2>2, <2>3 DEF WatchInv, BookTypes
  <2>5. /\ pos'[t].magic = m /\ row'[t] = "OPENED" /\ t \notin todo
        /\ \A u \in Tickets \ {t} : pos'[u] = pos[u] /\ row'[u] = row[u]
    BY <2>1 DEF WatchInv, BookTypes, UnopenedIsUnknown
  <2>6. UnopenedIsUnknown'
    BY <2>2, <2>3, <2>5 DEF WatchInv, UnopenedIsUnknown
  <2>7. ClosesAreReal'
    BY <2>3, <2>5 DEF WatchInv, ClosesAreReal
  <2> QED
    BY <1>1, <2>4, <2>6, <2>7 DEF WatchInv
<1>3. CASE deal
  <2>1. PICK t \in Tickets, by \in {"expert", "terminal"}, rest \in BOOLEAN :
           /\ pos[t].live
           /\ last' = [last EXCEPT ![t] = by]
           /\ pos' = [pos EXCEPT ![t].live = rest]
    BY <1>3 DEF deal
  <2>2. UNCHANGED <<seen, todo, owned, dropped, row, maps>>
    BY <1>3 DEF deal, watch
  <2>3. BookTypes'
    BY <2>1, <2>2 DEF WatchInv, BookTypes
  <2>4. \A u \in Tickets : pos'[u].magic = pos[u].magic /\ (pos'[u].live => pos[u].live)
    BY <2>1 DEF WatchInv, BookTypes
  <2>5. UnopenedIsUnknown' /\ ClosesAreReal'
    BY <2>2, <2>4 DEF WatchInv, UnopenedIsUnknown, ClosesAreReal
  <2> QED
    BY <1>1, <2>3, <2>5 DEF WatchInv
<1> QED
  BY <1>2, <1>3

\* A new magic map: what it leaves out is remembered.
LEMMA MapStep == ASSUME WatchInv, push_magic_map PROVE WatchInv'
<1>1. LinkTypes' /\ ThreadTypes' /\ WatchTypes' /\ UnopenedIsUnknown'
  BY DEF push_magic_map, WatchInv, LinkTypes, ThreadTypes, WatchTypes, UnopenedIsUnknown,
         link, watch
<1>2. BookTypes'
  BY WatchAssumption DEF push_magic_map, WatchInv, BookTypes
<1>3. OwnedOnce' /\ ClosesAreReal'
  BY DEF push_magic_map, WatchInv, OwnedOnce, ClosesAreReal, watch
<1> QED
  BY <1>1, <1>2, <1>3 DEF WatchInv

LEMMA CrashStep == ASSUME WatchInv, Crash PROVE WatchInv'
<1>1. LinkTypes' /\ ThreadTypes'
  <2>1. Resting \in HealthStates /\ Resting.at = "wait"
    BY WatchAssumption DEF Resting, HealthStates
  <2> QED
    BY <2>1 DEF Crash, WatchInv, LinkTypes, ThreadTypes
<1>2. WatchTypes'
  BY TroubleTypes DEF Crash, WatchInv, WatchTypes, Gone
<1>3. BookTypes' /\ UnopenedIsUnknown' /\ OwnedOnce' /\ ClosesAreReal'
  BY DEF Crash, WatchInv, BookTypes, UnopenedIsUnknown, OwnedOnce, ClosesAreReal, book
<1> QED
  BY <1>1, <1>2, <1>3 DEF WatchInv

LEMMA WatchStep == WatchInv /\ [WatchNext]_watch_vars => WatchInv'
<1> SUFFICES ASSUME WatchInv, [WatchNext]_watch_vars PROVE WatchInv'
  OBVIOUS
<1>0. weekends \in 0..MaxWeekends /\ trouble \in 0..MaxTrouble
  BY DEF WatchInv, WatchTypes
<1>1. CASE Health \/ Reconnect \/ ensure_gateway_connected
  BY <1>0, <1>1, ThreadsKeepTypes, BookAndWatchStay DEF WatchInv
<1>2. CASE platform_ready
  BY <1>2 DEF platform_ready, WatchInv, LinkTypes, ThreadTypes, BookTypes, WatchTypes,
              UnopenedIsUnknown, OwnedOnce, ClosesAreReal, link, book
<1>3. CASE scan_terminal_closed_positions
  BY <1>3, ScanStep
<1>4. CASE handle
  BY <1>4, HandleStep
<1>5. CASE open_position \/ deal
  BY <1>5, PositionStep
<1>6. CASE push_magic_map
  BY <1>6, MapStep
<1>7. CASE market_closes \/ market_opens \/ connection_drops \/ server_returns
  <2>1. LinkTypes' /\ ThreadTypes' /\ UNCHANGED <<book, watch>>
    BY <1>7 DEF market_closes, market_opens, connection_drops, server_returns, WatchInv,
                LinkTypes, ThreadTypes
  <2>2. weekends' \in 0..MaxWeekends /\ trouble' \in 0..MaxTrouble
    BY <1>0, <1>7, TroubleTypes, WatchAssumption
       DEF market_closes, market_opens, connection_drops, server_returns
  <2> QED
    BY <2>1, <2>2, BookAndWatchStay
<1>8. CASE Crash
  BY <1>8, CrashStep
<1>9. CASE UNCHANGED watch_vars
  BY <1>9 DEF watch_vars, link, book, watch, WatchInv, LinkTypes, ThreadTypes, BookTypes,
              WatchTypes, UnopenedIsUnknown, OwnedOnce, ClosesAreReal
<1> QED
  BY <1>1, <1>2, <1>3, <1>4, <1>5, <1>6, <1>7, <1>8, <1>9 DEF WatchNext, EventJob

\* Every state the three threads reach is well typed.
THEOREM WatchTypeCorrect == WatchSpec => []WatchTypeOK
<1>1. WatchInv => WatchTypeOK
  BY DEF WatchInv, WatchTypeOK, LinkTypes, ThreadTypes, HealthStates, BookTypes, WatchTypes
<1> QED
  BY WatchStart, WatchStep, <1>1, PTL DEF WatchSpec

\* A position is never reported closed while it is open and its strategy has
\* always been in the map: not by a lost connection, a weekend break, a restart
\* or a scan between two maps, for any number of each.
THEOREM ClosedRowsLostTheirPosition == WatchSpec => []ClosedRowsAreGone
<1>1. WatchInv => ClosedRowsAreGone
  BY DEF WatchInv, ClosesAreReal, ClosedRowsAreGone
<1> QED
  BY WatchStart, WatchStep, <1>1, PTL DEF WatchSpec

\* The detector lets go of a closed ticket only with its row written, its close
\* the worker's own, or this ticket's report failed.
THEOREM ClosesAreNotForgotten == WatchSpec => CloseNotForgotten
<1>1. WatchInv /\ [WatchNext]_watch_vars =>
        [\A t \in (seen \cup todo) \cap Gone :
             t \notin (seen \cup todo)' =>
                 \/ row'[t] = "TERMINAL_CLOSED"
                 \/ last[t] # "terminal"
                 \/ t \in missed']_watch_vars
  <2> SUFFICES ASSUME WatchInv, WatchNext, NEW t \in (seen \cup todo) \cap Gone,
                      t \notin (seen \cup todo)'
               PROVE  \/ row'[t] = "TERMINAL_CLOSED" \/ last[t] # "terminal" \/ t \in missed'
    OBVIOUS
  <2>1. ~UNCHANGED <<seen, todo>>
    OBVIOUS
  <2>2. CASE scan_terminal_closed_positions
    <3>1. todo = {}
      BY <2>2 DEF scan_terminal_closed_positions, WatchInv, WatchTypes
    <3>2. t \in seen \ SeenNow /\ t \notin todo'
      BY <2>2, <3>1 DEF scan_terminal_closed_positions
    <3> QED
      BY <2>2, <3>2 DEF scan_terminal_closed_positions, Reported
  <2>3. CASE handle
    <3>1. PICK u \in todo :
             \/ /\ row' = [row EXCEPT ![u] = "TERMINAL_CLOSED"] /\ todo' = todo \ {u}
             \/ /\ missed' = missed \cup ({u} \cap Gone) /\ todo' = RestOfBatch(u)
      BY <2>3 DEF handle
    <3>2. u = t /\ t \in Tickets
      BY <2>3, <3>1 DEF handle, RestOfBatch, Gone
    <3> QED
      BY <3>1, <3>2 DEF WatchInv, BookTypes
  <2>4. CASE Crash
    BY <2>4 DEF Crash
  <2>5. scan_terminal_closed_positions \/ handle \/ Crash
    BY <2>1 DEF WatchNext, EventJob, Health, Reconnect, health_waits, health_checks,
       health_shutdown, health_connect, restart_terminal, listener_shutdown,
       listener_connect, ensure_gateway_connected, platform_ready, open_position, deal,
       push_magic_map, market_closes, market_opens, connection_drops, server_returns, watch
  <2> QED
    BY <2>2, <2>3, <2>4, <2>5
<1> QED
  BY WatchStart, WatchStep, <1>1, PTL DEF WatchSpec, CloseNotForgotten

=============================================================================
