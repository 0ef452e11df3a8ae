----------------------------- MODULE Supervision -----------------------------
(***************************************************************************)
(* How a worker is started, watched, restarted and shut down:              *)
(*                                                                         *)
(*   - run_worker (worker/worker_runtime.py), the worker's life;           *)
(*   - ThreadGatewayOrchestrator (CRYPTO: the worker is a thread of the    *)
(*     application) and GatewayProcessOrchestrator with                    *)
(*     WorkerProcessManager (FOREX: a child process), worker/market.py and *)
(*     worker/process_manager.py.                                          *)
(*                                                                         *)
(* A worker's jobs are daemon threads that end only when they see the      *)
(* shared stop event, or with their process.                               *)
(***************************************************************************)
EXTENDS Naturals, FiniteSets

CONSTANT MaxWorkers     \* bound: workers spawned, numbered in their order

ASSUME WorkersAssumption == MaxWorkers \in Nat \ {0}

Workers == 1..MaxWorkers

VARIABLES
    mode,         \* "thread" (CRYPTO) or "process" (FOREX)
    app,          \* the orchestrator
    watchdog,     \* what the watchdog awaits in a thread of its own
    stop_event,
    current,      \* self._thread, self._process
    worker,       \* per worker: where run_worker is
    jobs,         \* per worker: its running jobs
    sessions,     \* workers with an open broker session and NATS clients
    late          \* history: a restart was under way when shutdown began

vars == <<mode, app, watchdog, stop_event, current, worker, jobs, sessions, late>>

-----------------------------------------------------------------------------
JobKinds == {"outbox", "market"}

TypeOK ==
    /\ mode \in {"thread", "process"}
    /\ app \in {"serving", "cancelled", "joining", "stopped"}
    /\ watchdog \in {"asleep", "restarting", "cleared", "spawned"}
    /\ stop_event \in BOOLEAN
    /\ current \in Workers
    /\ worker \in [Workers -> {"unborn", "starting", "building", "connected",
                               "running", "closing", "dead"}]
    /\ jobs \in [Workers -> SUBSET JobKinds]
    /\ sessions \subseteq Workers
    /\ late \in BOOLEAN

\* startup: the first worker is spawned, the watchdog task created.
Init ==
    /\ mode \in {"thread", "process"}
    /\ app = "serving"
    /\ watchdog = "asleep"
    /\ stop_event = FALSE
    /\ current = 1
    /\ worker = [w \in Workers |-> IF w = 1 THEN "starting" ELSE "unborn"]
    /\ jobs = [w \in Workers |-> {}]
    /\ sessions = {}
    /\ late = FALSE

is_alive(w) == worker[w] \notin {"unborn", "dead"}

-----------------------------------------------------------------------------
(* run_worker *)

WorkerOnly == UNCHANGED <<mode, app, watchdog, stop_event, current, late>>

\* A dead child process takes its daemon threads with it, a dead thread
\* does not.
JobsLeftBy(w) == [jobs EXCEPT ![w] = IF mode = "process" THEN {} ELSE @]

start_notification_job(w) ==
    /\ worker[w] = "starting"
    /\ worker' = [worker EXCEPT ![w] = "building"]
    /\ jobs' = [jobs EXCEPT ![w] = @ \cup {"outbox"}]
    /\ UNCHANGED sessions
    /\ WorkerOnly

\* WorkerContext raises, which is outside the try block.
no_context(w) ==
    /\ worker[w] = "starting"
    /\ worker' = [worker EXCEPT ![w] = "dead"]
    /\ UNCHANGED <<jobs, sessions>>
    /\ WorkerOnly

connect(w) ==
    /\ worker[w] = "building"
    /\ worker' = [worker EXCEPT ![w] = "connected"]
    /\ sessions' = sessions \cup {w}
    /\ UNCHANGED jobs
    /\ WorkerOnly

\* The processor is not built, connect() answers False or raises half-way.
connect_fails(w) ==
    /\ worker[w] = "building"
    /\ worker' = [worker EXCEPT ![w] = "closing"]
    /\ \E opened \in BOOLEAN : sessions' = IF opened THEN sessions \cup {w} ELSE sessions
    /\ UNCHANGED jobs
    /\ WorkerOnly

start_market_jobs(w) ==
    /\ worker[w] = "connected"
    /\ worker' = [worker EXCEPT ![w] = "running"]
    /\ jobs' = [jobs EXCEPT ![w] = @ \cup {"market"}]
    /\ UNCHANGED sessions
    /\ WorkerOnly

\* PositionCDC is started, a broker job is not.
start_market_jobs_fails(w) ==
    /\ worker[w] = "connected"
    /\ worker' = [worker EXCEPT ![w] = "closing"]
    /\ jobs' = [jobs EXCEPT ![w] = @ \cup {"market"}]
    /\ UNCHANGED sessions
    /\ WorkerOnly

\* The listener sees the stop event.
run_returns(w) ==
    /\ worker[w] = "running" /\ stop_event
    /\ worker' = [worker EXCEPT ![w] = "closing"]
    /\ UNCHANGED <<jobs, sessions>>
    /\ WorkerOnly

\* Mutation: the exit path forgets the broker session.
shutdown_subscriber_only(w) ==
    /\ worker[w] = "closing"
    /\ worker' = [worker EXCEPT ![w] = "dead"]
    /\ jobs' = JobsLeftBy(w)
    /\ sessions' = IF mode = "process" THEN sessions \ {w} ELSE sessions
    /\ WorkerOnly

\* The finally block: processor.shutdown(), and run_worker returns.
shutdown(w) ==
    /\ worker[w] = "closing"
    /\ worker' = [worker EXCEPT ![w] = "dead"]
    /\ jobs' = JobsLeftBy(w)
    /\ sessions' = sessions \ {w}
    /\ WorkerOnly

\* The child process is killed, or the MetaTrader5 extension takes it down.
Killed(w) ==
    /\ worker' = [worker EXCEPT ![w] = "dead"]
    /\ jobs' = [jobs EXCEPT ![w] = {}]
    /\ sessions' = sessions \ {w}

ProcessDies(w) ==
    /\ mode = "process" /\ is_alive(w)
    /\ Killed(w)
    /\ WorkerOnly

\* A job's loop sees the stop event.
JobStops(w, k) ==
    /\ stop_event /\ k \in jobs[w]
    /\ jobs' = [jobs EXCEPT ![w] = @ \ {k}]
    /\ UNCHANGED <<worker, sessions>>
    /\ WorkerOnly

-----------------------------------------------------------------------------
(* The watchdog *)

Spawn(w) ==
    /\ worker[w] = "unborn"
    /\ \A v \in Workers : v < w => worker[v] # "unborn"
    /\ worker' = [worker EXCEPT ![w] = "starting"]

\* Mutation: the watchdog task ends with its first restart.
watchdog_restarts_once ==
    /\ app = "serving" /\ watchdog = "asleep"
    /\ ~stop_event
    /\ ~is_alive(current) /\ current = 1
    /\ watchdog' = "restarting"
    /\ UNCHANGED <<mode, app, stop_event, current, worker, jobs, sessions, late>>

\* The loop wakes and finds the worker dead; manager.restart or _spawn runs in
\* a thread that a cancelled task does not stop.
watchdog_finds_dead ==
    /\ app = "serving" /\ watchdog = "asleep"
    /\ ~stop_event
    /\ ~is_alive(current)
    /\ watchdog' = "restarting"
    /\ UNCHANGED <<mode, app, stop_event, current, worker, jobs, sessions, late>>

\* Mutation: the thread is restarted as the process is, with a cleared event.
thread_spawn_cleared ==
    /\ mode = "thread" /\ watchdog = "restarting"
    /\ \E w \in Workers : Spawn(w)
    /\ watchdog' = "spawned"
    /\ stop_event' = FALSE
    /\ UNCHANGED <<mode, app, current, jobs, sessions, late>>

\* ThreadGatewayOrchestrator._spawn
thread_spawn ==
    /\ mode = "thread" /\ watchdog = "restarting"
    /\ \E w \in Workers : Spawn(w)
    /\ watchdog' = "spawned"
    /\ UNCHANGED <<mode, app, stop_event, current, jobs, sessions, late>>

Newest == CHOOSE w \in Workers :
    worker[w] # "unborn" /\ \A v \in Workers : v > w => worker[v] = "unborn"

\* self._thread = await ...: not assigned when the task was cancelled.
thread_spawned ==
    /\ watchdog = "spawned"
    /\ current' = IF app = "serving" THEN Newest ELSE current
    /\ watchdog' = "asleep"
    /\ UNCHANGED <<mode, app, stop_event, worker, jobs, sessions, late>>

\* WorkerProcessManager.restart clears the event, then spawns.
restart_clears ==
    /\ mode = "process" /\ watchdog = "restarting"
    /\ watchdog' = "cleared"
    /\ stop_event' = FALSE
    /\ UNCHANGED <<mode, app, current, worker, jobs, sessions, late>>

restart_spawns ==
    /\ watchdog = "cleared"
    /\ \E w \in Workers : Spawn(w) /\ current' = w
    /\ watchdog' = "asleep"
    /\ UNCHANGED <<mode, app, stop_event, jobs, sessions, late>>

-----------------------------------------------------------------------------
(* The orchestrator's shutdown *)

OrchestratorOnly == UNCHANGED <<mode, watchdog, current>>

\* The watchdog task is cancelled and awaited; what it awaited runs on.
shutdown_begins ==
    /\ app = "serving"
    /\ app' = "cancelled"
    /\ late' = (watchdog \in {"restarting", "cleared"})
    /\ UNCHANGED <<stop_event, worker, jobs, sessions>>
    /\ OrchestratorOnly

\* ThreadGatewayOrchestrator sets the event in any case;
\* WorkerProcessManager.stop only for a process that is alive.
signal_stop ==
    /\ app = "cancelled"
    /\ IF mode = "thread" \/ is_alive(current)
       THEN app' = "joining" /\ stop_event' = TRUE
       ELSE app' = "stopped" /\ UNCHANGED stop_event
    /\ UNCHANGED <<worker, jobs, sessions, late>>
    /\ OrchestratorOnly

joined ==
    /\ app = "joining" /\ ~is_alive(current)
    /\ app' = "stopped"
    /\ UNCHANGED <<stop_event, worker, jobs, sessions, late>>
    /\ OrchestratorOnly

\* Mutation: a process that does not end in time is left to itself.
join_gives_up ==
    /\ app = "joining" /\ is_alive(current)
    /\ app' = "stopped"
    /\ UNCHANGED <<worker, jobs, sessions, stop_event, late>>
    /\ OrchestratorOnly

\* join(15) gives up; a process is then terminated and killed.
join_times_out ==
    /\ app = "joining" /\ is_alive(current)
    /\ app' = "stopped"
    /\ IF mode = "process" THEN Killed(current) ELSE UNCHANGED <<worker, jobs, sessions>>
    /\ UNCHANGED <<stop_event, late>>
    /\ OrchestratorOnly

-----------------------------------------------------------------------------
Restart == thread_spawn \/ thread_spawned \/ restart_clears \/ restart_spawns

Stop == signal_stop \/ joined \/ join_times_out

\* The steps a worker takes by itself; connecting is apart, because the FOREX
\* broker is tried without limit (reconnect(max_attempts=0)).
WorkerStep(w) ==
    \/ start_notification_job(w) \/ no_context(w)
    \/ start_market_jobs(w) \/ start_market_jobs_fails(w)
    \/ run_returns(w) \/ shutdown(w)

Connecting(w) == connect(w) \/ connect_fails(w)

Next ==
    \/ \E w \in Workers :
         \/ WorkerStep(w) \/ Connecting(w) \/ ProcessDies(w)
         \/ \E k \in JobKinds : JobStops(w, k)
    \/ watchdog_finds_dead \/ Restart
    \/ shutdown_begins \/ Stop

Spec == Init /\ [][Next]_vars

\* Threads run, the loop wakes, join's timeout passes.
FairSpec ==
    /\ Spec
    /\ \A w \in Workers :
         /\ WF_vars(WorkerStep(w))
         /\ WF_vars(mode = "thread" /\ Connecting(w))
         /\ \A k \in JobKinds : WF_vars(JobStops(w, k))
    /\ WF_vars(watchdog_finds_dead) /\ WF_vars(Restart) /\ WF_vars(Stop)

-----------------------------------------------------------------------------
(* Properties *)

\* Two sessions would execute every signal twice: through restarts, failing
\* starts and a shutdown that races a restart, at most one worker has a broker
\* session and NATS clients; and a child process leaves no second set of jobs.
OneSession ==
    /\ Cardinality(sessions) <= 1
    /\ mode = "process" => Cardinality({w \in Workers : jobs[w] # {}}) <= 1

\* The stop signal cannot be lost: once the orchestrator waits for the worker,
\* the event is set or nothing is left that would have to see it, whatever the
\* watchdog's thread was doing when its task was cancelled
\* (ThreadGatewayOrchestrator.shutdown).  When WorkerProcessManager.stop has
\* returned, no child process is alive, works or holds a session: neither one that
\* hangs nor one the watchdog had just replaced.  The child process of a restart
\* that outlives the shutdown is the exception.
StopReachesEveryone ==
    /\ app \in {"joining", "stopped"} /\ ~(mode = "process" /\ late) =>
         stop_event \/ \A w \in Workers : ~is_alive(w) /\ jobs[w] = {}
    /\ app = "stopped" /\ mode = "process" /\ ~late =>
         sessions = {} /\ \A w \in Workers : ~is_alive(w) /\ jobs[w] = {}

\* A worker that died while the application serves is replaced (the watchdog
\* restarts it).
DeadWorkerReplaced ==
    (app = "serving" /\ ~is_alive(current))
        ~> (app # "serving" \/ is_alive(current) \/ worker[MaxWorkers] # "unborn")

\* After shutdown everything ends: the worker, one that a cancelled watchdog
\* was still spawning, and the jobs earlier workers left behind.  A child
\* process restarted by a thread the cancellation did not stop is the one
\* exception: stop() may have found the old one dead and returned.
ShutdownIsFinal ==
    app = "stopped" ~>
        \/ mode = "process" /\ late
        \/ \A w \in Workers : ~is_alive(w) /\ jobs[w] = {}

=============================================================================
