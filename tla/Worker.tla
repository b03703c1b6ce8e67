-------------------------------- MODULE Worker --------------------------------
(***************************************************************************)
(* The check worker (releasepulse/worker/runner.py): the scheduler's jobs, *)
(* reconcile, which keeps them in step with the registry, and the life of  *)
(* a check, from the tick of its job to its row.  Checks and the alert     *)
(* dispatcher are coroutines of one event loop; reconcile and evaluate_due *)
(* are plain functions, which the scheduler runs in threads.  All use one  *)
(* connection pool, and taking a connection blocks: in a thread that       *)
(* thread, in a coroutine the whole loop, with every check that holds a    *)
(* connection while it awaits its answer.                                  *)
(***************************************************************************)
EXTENDS Naturals, FiniteSets

CONSTANTS
  Endpoint,   \* ids of endpoints
  Slot,       \* distinguishes the checks of one endpoint
  Thread,     \* threads that use the pool: evaluate_due's, those of /readyz
  Dispatcher, \* dispatch_alerts's coroutine
  NULL,       \* the loop is not blocked
  PoolSize,   \* connections: QueuePool's 5 and 10 of overflow
  HeartbeatMaxAge, \* how old it may be, in reconcile intervals: 3
  MaxFaults   \* bound on database errors, pool timeouts and worker deaths

RECONCILE_JOB_ID == "reconcile"
EVALUATE_JOB_ID == "evaluate_due"
ALERT_JOB_ID == "dispatch_alerts"
PERIODIC_JOB_IDS == {RECONCILE_JOB_ID, EVALUATE_JOB_ID, ALERT_JOB_ID}

Check == Endpoint \X Slot

ASSUME WorkerAssumption ==
  /\ IsFiniteSet(Endpoint)
  /\ IsFiniteSet(Slot)
  /\ IsFiniteSet(Thread)
  /\ PoolSize \in Nat \ {0}
  /\ HeartbeatMaxAge \in Nat /\ HeartbeatMaxAge >= 3
  /\ MaxFaults \in Nat
  /\ Endpoint \cap PERIODIC_JOB_IDS = {}
  /\ {NULL, Dispatcher} \cap Check = {}

VARIABLES
  row,        \* what the registry says of an endpoint
  jobs,       \* ids of the scheduler's jobs
  started,    \* main has called scheduler.start()
  reconcile,  \* where reconcile is
  wanted,     \* ids of the rows it read
  queued,     \* checks whose task is created and has not loaded its row
  fetching,   \* checks that await their answer, a connection in hand
  loop,       \* who blocks the event loop in the pool
  holding,    \* threads with a connection
  age,        \* intervals begun since the heartbeat, up to HeartbeatMaxAge
  missed,     \* history: reconciles since then that failed or were skipped,
              \* up to 2
  late,       \* checks recorded since their endpoint was last monitored
  faults      \* faults so far

process == <<jobs, started, reconcile, wanted, queued, fetching, loop, holding>>
heart == <<age, missed>>
vars == <<row, process, heart, late, faults>>

RowState == {"absent", "enabled", "disabled", "deleted"}

Monitored(e) == row[e] = "enabled"

TypeOK ==
  /\ row \in [Endpoint -> RowState]
  /\ jobs \subseteq Endpoint \cup PERIODIC_JOB_IDS
  /\ started \in BOOLEAN
  /\ reconcile \in {"idle", "connecting", "selecting", "scheduling"}
  /\ wanted \subseteq Endpoint
  /\ queued \subseteq Check
  /\ fetching \subseteq Check
  /\ queued \cap fetching = {}
  /\ loop \in queued \cup {NULL, Dispatcher}
  /\ holding \subseteq Thread
  /\ age \in 0..HeartbeatMaxAge
  /\ missed \in 0..2
  /\ late \in [Endpoint -> Nat]
  /\ faults \in 0..MaxFaults

(***************************************************************************)
(* A process that starts: main has added the reconcile job and calls       *)
(* reconcile itself, before the scheduler runs.                            *)
(***************************************************************************)
Init ==
  /\ row \in [Endpoint -> RowState]
  /\ jobs = {RECONCILE_JOB_ID}
  /\ started = FALSE
  /\ reconcile = "connecting"
  /\ wanted = {}
  /\ queued = {} /\ fetching = {}
  /\ loop = NULL
  /\ holding = {}
  /\ age = HeartbeatMaxAge  \* no heartbeat yet
  /\ missed = 0
  /\ late = [e \in Endpoint |-> 0]
  /\ faults = 0

-----------------------------------------------------------------------------
(***************************************************************************)
(* The registry.  Each handler is one commit here; only an endpoint that   *)
(* is not deleted can be changed.                                          *)
(***************************************************************************)
Live(e) == row[e] \in {"enabled", "disabled"}

\* A monitored endpoint has no late checks.
Write(e, state) ==
  /\ row' = [row EXCEPT ![e] = state]
  /\ late' = IF state = "enabled" THEN [late EXCEPT ![e] = 0] ELSE late
  /\ UNCHANGED <<process, heart, faults>>

create_endpoint(e) ==
  /\ row[e] = "absent"
  /\ \E state \in {"enabled", "disabled"} : Write(e, state)

update_endpoint(e) ==
  /\ Live(e)
  /\ \E state \in {"enabled", "disabled"} : Write(e, state)

delete_endpoint(e) == Live(e) /\ Write(e, "deleted")

-----------------------------------------------------------------------------
(***************************************************************************)
(* The pool, as db.py creates it.                                          *)
(***************************************************************************)
InUse ==
  Cardinality(fetching) + Cardinality(holding)
    + (IF reconcile = "selecting" THEN 1 ELSE 0)

Free == InUse < PoolSize

LoopRuns == started /\ loop = NULL

\* A thread handed its job or request takes connections for it, one at a
\* time, whether the loop still runs or waits for one itself.
TakeConnection(t) ==
  /\ started
  /\ t \notin holding
  /\ Free
  /\ holding' = holding \cup {t}
  /\ UNCHANGED <<row, heart, jobs, started, reconcile, wanted, queued, fetching,
                 loop, late, faults>>

ReleaseConnection(t) ==
  /\ t \in holding
  /\ holding' = holding \ {t}
  /\ UNCHANGED <<row, heart, jobs, started, reconcile, wanted, queued, fetching,
                 loop, late, faults>>

-----------------------------------------------------------------------------
(***************************************************************************)
(* reconcile: one session for the rows, then the scheduler's own jobs.     *)
(***************************************************************************)
IntervalPasses == age' = IF age < HeartbeatMaxAge THEN age + 1 ELSE age

OneMissed == missed' = IF missed < 2 THEN missed + 1 ELSE missed

StartReconcile ==
  /\ LoopRuns
  /\ RECONCILE_JOB_ID \in jobs
  /\ reconcile = "idle"
  /\ reconcile' = "connecting"
  /\ IntervalPasses
  /\ UNCHANGED <<row, jobs, started, wanted, queued, fetching, loop, holding,
                 missed, late, faults>>

\* The job is due while it still runs (max_instances), or while the loop
\* waits (misfire_grace_time, one second): the scheduler skips it.
SkipReconcile ==
  /\ started
  /\ RECONCILE_JOB_ID \in jobs
  /\ reconcile # "idle" \/ loop # NULL
  /\ IntervalPasses
  /\ OneMissed
  /\ UNCHANGED <<row, process, late, faults>>

Connect ==
  /\ reconcile = "connecting"
  /\ Free
  /\ reconcile' = "selecting"
  /\ UNCHANGED <<row, heart, jobs, started, wanted, queued, fetching, loop,
                 holding, late, faults>>

\* Mutant: the condition on enabled is missing.
RowsNotDeleted == {e \in Endpoint : row[e] \in {"enabled", "disabled"}}

\* enabled IS TRUE and deleted_at IS NULL
RowsToCheck == {e \in Endpoint : row[e] = "enabled"}

Select ==
  /\ reconcile = "selecting"
  /\ wanted' = RowsToCheck
  /\ reconcile' = "scheduling"
  /\ UNCHANGED <<row, heart, jobs, started, queued, fetching, loop, holding,
                 late, faults>>

\* Mutant: the periodic jobs count as endpoints' jobs.
AllJobs == jobs

\* existing: the jobs reconcile may remove
Existing == jobs \ PERIODIC_JOB_IDS

\* The job starts with a check at once (next_run_time=now).
Schedule(e) ==
  /\ reconcile = "scheduling"
  /\ e \in wanted \ Existing
  /\ jobs' = jobs \cup {e}
  /\ UNCHANGED <<row, heart, started, reconcile, wanted, queued, fetching, loop,
                 holding, late, faults>>

Unschedule(j) ==
  /\ reconcile = "scheduling"
  /\ wanted \subseteq Existing
  /\ j \in Existing \ wanted
  /\ jobs' = jobs \ {j}
  /\ UNCHANGED <<row, heart, started, reconcile, wanted, queued, fetching, loop,
                 holding, late, faults>>

\* Mutant: only the first reconcile, main's own, beats.
EndReconcileQuietly ==
  /\ reconcile = "scheduling"
  /\ Existing = wanted
  /\ reconcile' = "idle"
  /\ wanted' = {}
  /\ age' = IF started THEN age ELSE 0
  /\ missed' = 0
  /\ UNCHANGED <<row, jobs, started, queued, fetching, loop, holding, late,
                 faults>>

\* reconcile_and_beat: the beat follows a reconcile that has done all its work.
EndReconcile ==
  /\ reconcile = "scheduling"
  /\ Existing = wanted
  /\ reconcile' = "idle"
  /\ wanted' = {}
  /\ age' = 0 /\ missed' = 0
  /\ UNCHANGED <<row, jobs, started, queued, fetching, loop, holding, late,
                 faults>>

\* main goes on after its own reconcile; the Telegram channel is configured.
StartScheduler ==
  /\ ~started
  /\ reconcile = "idle"
  /\ jobs' = jobs \cup {EVALUATE_JOB_ID, ALERT_JOB_ID}
  /\ started' = TRUE
  /\ UNCHANGED <<row, heart, reconcile, wanted, queued, fetching, loop, holding,
                 late, faults>>

-----------------------------------------------------------------------------
(***************************************************************************)
(* A check: _run_check, and check_and_record in it.                        *)
(***************************************************************************)
ChecksOf(e) == {c \in queued \cup fetching : c[1] = e}

FreeSlots(e) == {s \in Slot : <<e, s>> \notin queued \cup fetching}

Begin(e) ==
  /\ FreeSlots(e) # {}
  /\ queued' = queued \cup {<<e, CHOOSE s \in FreeSlots(e) : TRUE>>}
  /\ UNCHANGED <<row, heart, jobs, started, reconcile, wanted, fetching, loop,
                 holding, late, faults>>

\* Mutant: a job fires although its last check is under way.
FireAgain(e) ==
  /\ LoopRuns
  /\ e \in jobs
  /\ Begin(e)

\* The job's interval has passed; max_instances=1.
Fire(e) ==
  /\ LoopRuns
  /\ e \in jobs
  /\ ChecksOf(e) = {}
  /\ Begin(e)

\* Mutant: the check trusts its job.
ToBeCheckedAlways(e) == TRUE

\* Whether the row a check loads is still to be checked.
ToBeChecked(e) == row[e] = "enabled"

\* session.get with a connection at hand: go on, or return at once.
LoadRow(c) ==
  /\ Free
  /\ queued' = queued \ {c}
  /\ fetching' = IF ToBeChecked(c[1]) THEN fetching \cup {c} ELSE fetching
  /\ loop' = NULL
  /\ UNCHANGED <<row, heart, jobs, started, reconcile, wanted, holding, late,
                 faults>>

Load(c) == LoopRuns /\ c \in queued /\ LoadRow(c)

\* The pool is empty: the loop stands still until a connection comes back.
BlockLoop(who) ==
  /\ LoopRuns
  /\ ~Free
  /\ loop' = who
  /\ UNCHANGED <<row, heart, jobs, started, reconcile, wanted, queued, fetching,
                 holding, late, faults>>

LoadBlocks(c) == c \in queued /\ BlockLoop(c)

\* The check that blocked the loop gets a connection.
Unblock(c) == loop = c /\ LoadRow(c)

\* The answer, or the HTTP client's timeout, is recorded as a row.
Record(c) ==
  /\ LoopRuns
  /\ c \in fetching
  /\ fetching' = fetching \ {c}
  /\ late' = IF Monitored(c[1]) THEN late ELSE [late EXCEPT ![c[1]] = @ + 1]
  /\ UNCHANGED <<row, heart, jobs, started, reconcile, wanted, queued, loop,
                 holding, faults>>

(***************************************************************************)
(* dispatch_alerts commits before it awaits, which returns its connection: *)
(* of its use of the pool only the waiting is left.                        *)
(***************************************************************************)
DispatchBlocks == ALERT_JOB_ID \in jobs /\ BlockLoop(Dispatcher)

DispatchUnblocks ==
  /\ loop = Dispatcher
  /\ Free
  /\ loop' = NULL
  /\ UNCHANGED <<row, heart, jobs, started, reconcile, wanted, queued, fetching,
                 holding, late, faults>>

-----------------------------------------------------------------------------
(***************************************************************************)
(* What goes wrong.                                                        *)
(***************************************************************************)
Fault == faults < MaxFaults /\ faults' = faults + 1

\* A database error, or 30 s without a connection.
ReconcileFails ==
  /\ Fault
  /\ started
  /\ reconcile \in {"connecting", "selecting"}
  /\ reconcile' = "idle"
  /\ OneMissed
  /\ UNCHANGED <<row, jobs, started, wanted, queued, fetching, loop, holding,
                 age, late>>

\* Mutant: a failed check is put back and keeps its session.
CheckFailsAgain(c) ==
  /\ Fault
  /\ LoopRuns
  /\ c \in queued \cup fetching
  /\ queued' = queued \cup {c}
  /\ UNCHANGED <<row, heart, jobs, started, reconcile, wanted, fetching, loop,
                 holding, late>>

\* The session closes without a row.
CheckFails(c) ==
  /\ Fault
  /\ LoopRuns
  /\ c \in queued \cup fetching
  /\ queued' = queued \ {c}
  /\ fetching' = fetching \ {c}
  /\ UNCHANGED <<row, heart, jobs, started, reconcile, wanted, loop, holding,
                 late>>

\* The pool gives up after 30 s and the waiting job ends with an exception.
PoolTimeout ==
  /\ Fault
  /\ loop # NULL
  /\ queued' = queued \ {loop}
  /\ loop' = NULL
  /\ UNCHANGED <<row, heart, jobs, started, reconcile, wanted, fetching,
                 holding, late>>

\* The scheduler's jobs are in memory.  A reconcile that fails in main ends
\* the process as well.
WorkerDies ==
  /\ Fault
  /\ jobs' = {RECONCILE_JOB_ID}
  /\ started' = FALSE
  /\ reconcile' = "connecting"
  /\ wanted' = {}
  /\ queued' = {} /\ fetching' = {}
  /\ loop' = NULL
  /\ holding' = {}
  /\ age' = HeartbeatMaxAge /\ missed' = 0
  /\ UNCHANGED <<row, late>>

-----------------------------------------------------------------------------
Registry ==
  \E e \in Endpoint :
    create_endpoint(e) \/ update_endpoint(e) \/ delete_endpoint(e)

Reconcile ==
  \/ StartReconcile \/ Connect \/ Select \/ EndReconcile
  \/ \E e \in Endpoint : Schedule(e)
  \/ \E j \in jobs : Unschedule(j)

Checks ==
  \/ \E e \in Endpoint : Fire(e)
  \/ \E c \in Check :
       Load(c) \/ LoadBlocks(c) \/ Unblock(c) \/ Record(c) \/ CheckFails(c)

Pool ==
  \/ \E t \in Thread : TakeConnection(t) \/ ReleaseConnection(t)
  \/ DispatchBlocks \/ DispatchUnblocks \/ PoolTimeout

Next ==
  \/ Registry \/ Reconcile \/ SkipReconcile \/ StartScheduler \/ Checks \/ Pool
  \/ ReconcileFails \/ WorkerDies

Spec == Init /\ [][Next]_vars

\* The blocked coroutine gets a connection.
Unblocks == DispatchUnblocks \/ \E c \in Check : Unblock(c)

\* One endpoint's checks, one after the other.
CheckGoesOn(e) ==
  Fire(e) \/ \E s \in Slot : Load(<<e, s>>) \/ Record(<<e, s>>)

(***************************************************************************)
(* The loop runs what is ready in turn, the scheduler fires due jobs, the  *)
(* HTTP client ends a request at its timeout, and a thread that waits for  *)
(* a connection is woken when one comes back: hence the strong fairness of *)
(* steps that others may disable for a while.  Nothing is assumed of the   *)
(* registry, and nothing of how often threads and the dispatcher use the   *)
(* pool.                                                                   *)
(***************************************************************************)
FairSpec ==
  /\ Spec
  /\ SF_vars(Reconcile \/ StartScheduler)
  /\ SF_vars(Unblocks)
  /\ \A e \in Endpoint : SF_vars(CheckGoesOn(e))
  /\ \A t \in Thread : WF_vars(ReleaseConnection(t))

-----------------------------------------------------------------------------
(***************************************************************************)
(* Safety.  With fewer endpoints than connections, the loop never waits    *)
(* for a connection that only its own coroutines could give back, which    *)
(* they cannot while it waits (runner.py:90 takes one, and it is kept      *)
(* across the await): whenever it waits, a thread holds one.               *)
(***************************************************************************)
LoopWaitsOnlyForThreads ==
  Cardinality(Endpoint) < PoolSize /\ loop # NULL
    => holding # {} \/ reconcile = "selecting" \/ Free

(***************************************************************************)
(* However stale its job and its task, an endpoint that was disabled or    *)
(* deleted gets at most the check that was on its way (runner.py:91).      *)
(***************************************************************************)
AtMostOneLateCheck == \A e \in Endpoint : late[e] <= 1

(***************************************************************************)
(* reconcile never sweeps up the periodic jobs that share the scheduler    *)
(* (test_reconcile_preserves_periodic_jobs), whatever it read.             *)
(***************************************************************************)
PeriodicJobsSurvive == started => PERIODIC_JOB_IDS \subseteq jobs

\* /readyz may find the heartbeat older than its maximum: that many ticks of
\* the job have passed since.  With one less it is younger for sure.
HeartbeatMayBeStale == age = HeartbeatMaxAge

(***************************************************************************)
(* A worker that runs is not flagged for one slow, failed or skipped       *)
(* reconcile (runner.py:43): it takes two in a row without a heartbeat.    *)
(***************************************************************************)
OneHiccupIsTolerated == started /\ HeartbeatMayBeStale => missed >= 2

(***************************************************************************)
(* Liveness.  Endpoints registered or removed are picked up without a      *)
(* restart (runner.py:3): when an endpoint's row stays as it is, its job   *)
(* is there for good, or gone for good and with it every check.            *)
(***************************************************************************)
JobsFollowRegistry ==
  \A e \in Endpoint :
    /\ <>[]Monitored(e) => <>[](e \in jobs)
    /\ <>[]~Monitored(e) => <>[](e \notin jobs /\ ChecksOf(e) = {})

(***************************************************************************)
(* An endpoint that stays monitored is checked again and again, through    *)
(* failed reconciles, lost connections and a restart.                      *)
(***************************************************************************)
ChecksKeepComing ==
  \A e \in Endpoint :
    <>[]Monitored(e) => []<><<\E s \in Slot : Record(<<e, s>>)>>_vars

=============================================================================
