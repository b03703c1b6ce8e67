# ReleasePulse: a TLA+ model

ReleasePulse watches HTTP endpoints, is told of deployments by signed webhooks,
compares the checks before and after each deployment, opens an incident when an
endpoint regressed and sends one alert per incident. These modules model the
parts of it whose correctness depends on what happens at the same time, twice,
late, or not at all, and the one pure algorithm everything hangs on, the
verdict.

## The system

| part | state | operations | talks to |
|---|---|---|---|
| Deployment webhook (`api/routers/deployments.py`, `api/webhook_auth.py`, `scripts/notify_releasepulse.sh`) | `deployments`, `webhook_deliveries`, a webhook counter in each process | `POST /webhooks/deployments` | senders (CI, ArgoCD), database |
| Registry API (`api/routers/services.py`, `endpoints.py`) | `services`, `endpoints` | create, PATCH, soft delete, list | operators, database |
| Check worker (`worker/runner.py`, `worker/check.py`) | scheduler jobs, `checks`, the heartbeat | reconcile jobs with endpoints, run a check | monitored services, database |
| Verdict (`detector/core.py`) | none | `evaluate_endpoint` | called by the orchestration |
| Detector orchestration (`detector/service.py`, `ingestion.py`) | `deployment_endpoint_evaluations`, `deployments.evaluation_status`, `incidents` | `evaluate_due_deployments`, `evaluate_deployment` | reads `checks`, `endpoints`, `deployments` |
| Alert outbox (`alerting/dispatch.py`, `sender.py`) | `alerts` | `dispatch_pending_alerts` | Telegram |
| Worker health (`worker/http.py`) | reads the heartbeat | probes | Kubernetes |
| SSRF guard, configuration, metrics, demo, charts, dashboards | none that others rely on | | |

The parts share one PostgreSQL database at READ COMMITTED and nothing else: an
API replica, the worker's event loop and the worker's threads meet only in
its rows. The API may run in several replicas; the worker is one process
(`worker-deployment.yaml`: one replica, `Recreate`) with one event loop, on
which checks and the alert dispatcher are coroutines, and a thread pool, in
which the evaluator and reconcile run.

What is hard:

* **Racing webhooks.** Replicas handle retries, replays and reruns of one
  deployment at once; two unique keys are taken in one transaction, in which an
  INSERT may wait for another replica's or fail because of it.
* **Racing admins.** PATCH and DELETE read a row, commit what they change and
  read again, in threads of any number of replicas; a deleted row keeps its unique
  key.
* **The outbox.** A run loads its rows once and then awaits one HTTP call
  after another between commits, while operators and the detector write; it
  may be cut off anywhere, and an answer may be lost.
* **Moving windows.** A verdict reads the next deployment, the endpoints and
  the checks in separate statements, while all three change, and deployments
  may be reported hours late, or in the future.
* **One loop, one pool.** Every check holds a pooled connection while it awaits
  its answer, and taking a connection blocks the loop that would let the others
  return theirs; reconcile works on the scheduler from a thread, on a snapshot.
* **Numbers at their edge.** Medians of no, one, or an even number of
  measurements; rates exactly at a threshold; thresholds of zero; rounding.

What would make each part correct:

| part | correct when |
|---|---|
| webhook | one row and one 201 per deployment, an answer that is durable, a lost race that is explained, counters that count deployments and not requests |
| registry | one endpoint per URL for good, no lost update, no deletion undone |
| worker | jobs that follow the registry, a loop that never waits for itself, no check of what was taken away but the one under way, a heartbeat that outlives one hiccup |
| verdict | no blame without a change, no silent outage, no threshold mistaken for another |
| orchestration | no check that counts for two releases, no verdict on an unfinished window, a verdict and its incident together and once |
| outbox | bounded duplicates, no false "sent", no forgotten incident |
| the whole | one verdict per deployment, messages about the blamed only, boundedly many, none after one is confirmed; no deployment forgotten |

## The modules

| module | models | proved in |
|---|---|---|
| `ReleaseWatch` | what the whole promises about each deployment | |
| `ReleasePulse` | the whole: `DeploymentLedger`, `Detector` and `AlertDispatch` over the tables they share | `ReleasePulseProofs` |
| `DeploymentLedger` | what the webhook promises its senders | |
| `Ingestion` | the webhook handler, statement by statement, on every replica; implements `DeploymentLedger` | `IngestionProofs`, `LedgerProofs` |
| `Registry` | services and endpoints under concurrent registrations, PATCHes and deletes | `RegistryProofs` |
| `AlertDispatch` | a run of the outbox, commit by commit | `AlertDispatchProofs` |
| `DetectorCore` | the verdict on two windows, as operators | |
| `EndpointVerdict` | what `evaluate_endpoint` promises, called once on windows of recorded checks with an endpoint's overrides; uses `DetectorCore`, `PerformCheck` | `EndpointVerdictProofs` |
| `Detector` | the orchestration beside checks, webhooks, endpoint changes and time; uses `DetectorCore` | `DetectorProofs` |
| `PerformCheck` | what becomes of the ways a request of a check may end, as operators | |
| `Worker` | the scheduler's jobs, reconcile, the heartbeat, the life of a check, the connection pool | `WorkerProofs` |
| `MC*` | the instances TLC checks | |

Definitions whose comment starts with "Mutant" are plausible bugs: replacing
the definition after them by them makes one property fail, which shows that
the property depends on that piece of code. They take no part in the
specifications.

### Ingestion and DeploymentLedger

`sent[r]` is what HTTP request `r` carries (a retry is another request with the
same event); `pc[p]`, `handling[p]` and `deployment[p]` are the next statement, the
request and the local variable of the handler replica `p` runs; `tx[p]` holds
the rows of its open transaction; `deployments` and `deliveries` are committed
rows; `reply[r]` is the answer. `webhooks_total[p]` is the counter in the memory of `p`'s process, and
`answered[p]` is history: the requests that process answered since it started. The handler never
awaits after the body is read and its driver is synchronous, so a replica runs
one handler at a time; only replicas interleave. One action is one statement:

`Admit` (signature and schema passed) → `FindService` → `ReplayGuard` →
`FindOrBuild` → `FlushDeployment` | `FlushConflict` → `InsertDelivery` |
`DeliveryConflict` → `Commit` → `Respond`, and after a conflict `Rollback` →
`RefindDelivery` → `RefindDeployment`.

`DeploymentKeyBusy` and `DeliveryKeyBusy` are PostgreSQL's unique indexes: an INSERT
whose key an open transaction holds waits. `Crash` and `DatabaseError` may
strike at any statement; at `commit` they may strike before or after the
COMMIT took effect. `Crash` may also strike between two requests; the process restarts with its
counter at 0, and `answered` is emptied with it. A delivery's identity determines the deployment it is about
(`KeyOf`), as both shipped senders do it.

`DeploymentLedger` has no replicas: a deployment is recorded once, by the request
told "created"; another is told "duplicate", and only after that; a
request that fails may or may not have recorded it. `Ingestion!Ledger` maps the
committed rows to `recorded` and the answers to `outcome`: the `Commit` of the first
row is `Record`, `Respond` is `Confirm` or `Acknowledge`, everything before is a
stutter.

### Registry

A request is `Submit` → `FindService` | `Load` → `create_service`,
`create_endpoint`, `update_endpoint` or `delete_endpoint` → `Refresh`. An INSERT or UPDATE and its
COMMIT are one step: the index and the row lock make a concurrent writer
wait for the COMMIT and act on its result. `loaded[r]` is the row the session holds:
SQLAlchemy writes the columns that differ from it (`Dirty`) into the row as it
is by then (`WriteColumns`). An explicit `null` passes `EndpointUpdate` for every
column; for a NOT NULL one the IntegrityError is caught by nobody (`Forbidden`, a 500),
and the row must stay whole. `met` is history: which requests committed since
this one loaded its row.

### AlertDispatch

`status` and `attempts` are the columns of an incident's row; `batch` and `loaded`
are what the run's session read and has not come to; `current` is the incident
whose call is awaited; `delivered` counts messages that reached the chat, whatever
the code knows of it. `Attempt` ends with the first commit, `Deliver`, `Reject` and
`DeliverUnconfirmed` are the ways the call ends, `MarkSent` and `MarkFailed` the second
commit. `AbortRun` is a worker that dies, is stopped during the await
(`CancelledError` is not an `Exception`), or fails a commit. An operator
(`alerts-not-firing.md`) acts in two steps: `NoteStuck` reads a row at the limit, and
`ResetAttempts` is the runbook's UPDATE, any time later. It names the row and asks nothing of
it, so a row noted while its last call was under way and sent since is reopened and
announced again, which `SentIsFinal` says and excepts. `noted` is what operators
have read and not yet acted on: one reading is one UPDATE, and a row is noted only when stuck,
as the runbook has it (line 57).

### DetectorCore, EndpointVerdict, PerformCheck and Detector

`DetectorCore` keeps medians doubled and rates as fractions in integers, so the
comparisons are exact. `Outcome` is the cascade of guards and the two dimensions.
`PerformCheck` says what a check records for each way its request may end; the
samples in `EndpointVerdict`'s windows are its results, so that a failure with
a latency (an answer of an unexpected status) is one of them. `EndpointVerdict` has one
step, the call that `evaluate_deployment` makes for an endpoint, on any two windows with any
overrides the schemas let an endpoint have; its properties are about what goes in and what
comes out.

In `Detector`, `effective`, `status`, `rows` and `incidents` are the tables for one service
and environment; `checks` are committed checks and `stamped` the one that has its
`checked_at` and is on its way: the event loop does both in one stretch, the
evaluator's thread may read in between. An evaluation is `Pick` → `ReadHorizon`
→ `ReadEndpoints` → `JudgeEndpoint` for each endpoint → `CommitVerdict`, or
`LoseRace`, `EvaluationFails`, `WorkerCrashes`. `known` and `judged` are history: what the
evaluator had seen when it fixed the end of the window, for the properties only.

### Worker

`row` is what the registry says of an endpoint; `jobs` the ids in the scheduler, the
three periodic ones among them; `reconcile` and `wanted` where reconcile is and what it
read; `queued` the checks whose task exists, `fetching` those that await their answer
with a connection in hand; `holding` the threads with one; `loop` who blocks the
event loop in the pool. `late` is history.

A process starts with `Connect` → `Select` → `Schedule`/`Unschedule` → `EndReconcile` in `main`
itself, then `StartScheduler`; afterwards `StartReconcile` begins each reconcile, in a
thread. A check is `Fire` → `Load` (or `LoadBlocks` → `Unblock`) → `Record`. `dispatch_alerts` commits
before it awaits and so holds nothing then; only its waiting is modelled.
`CheckFails`, `ReconcileFails`, `PoolTimeout` and `WorkerDies` are what goes wrong. The pool is
SQLAlchemy's default for `db.py:58`, five connections and ten of overflow.

`age` is the heartbeat in intervals of reconcile: `EndReconcile` beats, each tick of the
job (`StartReconcile`, or `SkipReconcile` when the last one still runs or the loop stands
still) makes it older, up to `HeartbeatMaxAge`, the three intervals of `runner.py:43`, at which
`/readyz` may find it stale. `missed` is history: the reconciles since the beat that
failed or were skipped.

### ReleasePulse and ReleaseWatch

`ReleasePulse` composes the webhook as its senders see it (`DeploymentLedger`, which
`Ingestion` implements), `Detector` and `AlertDispatch`, instantiated with variables of one
name where they share a table. Three steps are joint: `Report` is the ledger's `Record` and the
detector's `Ingest`, since the commit of a deployment is the detector's new row;
`Judge` is the detector's `CommitVerdict` and, when it opens an incident, the outbox's
`OpenIncident`; `WorkerDies` is the end of an evaluation, of the check being committed
and of a run of the outbox at once, for they live in one process. Everything
else interleaves.

`ReleaseWatch` has no worker, window or table: a deployment is reported, gets one
verdict for good, and messages arrive only about the blamed, at most `Limit` for
each time an operator grants new attempts, none after one is confirmed until the next grant.
A grant concerns one that is blamed and takes its confirmation back: the operator may have
decided on it before.
`ReleasePulse!Watch` maps `evaluation_status` to the verdict, the messages that arrived, the
rows that say "sent" and the manual resets. `Report` is `Report`, `Judge` is `Judge`, `Deliver`
and `DeliverUnconfirmed` are `Announce`, `MarkSent` is `Confirm`, `ResetAttempts` is `Grant`, all else (`NoteStuck` too) is a stutter.

## What is checked

| run | instance | shows |
|---|---|---|
| `ingestion` | 2 replicas that may restart at any time, 3 requests, 2 deliveries of 1 deployment, all forms of request, a service registered at any time; 412 000 states | type correctness; `RowsAreUnique`, `CreatedOnce`, `AnswerIsDurable`, `DeliveriesMatchDeployments`; `RecoveryFindsWinner` (the bare `raise` is dead code), `CreatorWinsItsDelivery` (the keys are taken in one order); `ReceivedCountsDeployments`; `EveryRequestAnswered`; `ImplementsLedger` |
| `registry` | 3 requests about 1 URL, 2 ids, a NOT NULL and a nullable column; 158 000 states | `OneEndpointPerIdentity`, `AppliedChangesHold`, `DeletionHolds` |
| `alerts` | 2 incidents, 3 attempts, 2 faults, 1 reset per row; 144 000 states | `MessagesWithinAttempts`, `SentWasDelivered`, `BatchIsFresh`, `SentIsFinal`, `EveryIncidentSettles` |
| `verdict` | every pair of windows of up to 4 checks over 4 latencies and both kinds of failure, without an override and with one of 0; 2 million states | `OutageIsReported`, `UnchangedIsNotBlamed`, `ZeroOverridesReport` |
| `detector` | 2 deployments, 1 endpoint, 6 instants, 1 fault; 3 million states | `MissesAtMostOneCheck`, `NoCheckServesTwoReleases`, `SupersededHasSuccessor`, `ShortfallIsExplained`, `IncidentMatchesVerdict`, `VerdictIsFinal` |
| `detector_race` | 2 evaluators, 1 deployment, 2 endpoints, shortest windows, failing checks only; 225 000 states | `OneRowPerEndpoint`: the unique constraint and the rollback suffice |
| `worker` | 2 endpoints, 3 connections, 1 thread besides reconcile's, 2 faults; 131 000 states | `LoopWaitsOnlyForThreads`, `AtMostOneLateCheck`, `OneHiccupIsTolerated`, `JobsFollowRegistry`, `ChecksKeepComing` |
| `pulse` | 2 requests, 1 deployment, 1 endpoint, 3 instants, 1 attempt, 1 fault of each part, 1 reset; 535 000 states | `MessagesHaveFindings`, `ImplementsReleaseWatch`, `EveryReleaseIsSettled` |

Why the bounds are enough. Webhooks interact only through the two unique keys:
two replicas and three requests give a winner, a loser of each key, and a late
retry; more of anything is covered by the proofs. In the registry three requests
are a PATCH, one that it overtakes, and a third that undoes either, or a
registration, its deletion and another registration; the URL may also be there
from the start. In the outbox one incident
waits while another is sent; two faults and a reset reach every mix of a lost
answer, a death and a manual retry, and the limit of three is reached. In the
detector two deployments overlap in every order, including reports of the past
(`MaxPast`) and of the future (`MaxFuture`); windows of one or two instants with a
minimum of one check are the code's windows with the time between checks as
the unit. A deployment whose window would close after `MaxTime` is left out so that the
last one can be judged. In the verdict latencies of 0, 20, 100 and 145 ms lie on both sides
of each threshold, and four checks make a median of two middle ones. In the
worker three connections are the fewest that satisfy
the condition of `LoopWaitsOnlyForThreads` with two endpoints, and one check, one thread and
reconcile empty them, so that the loop does wait; two faults combine a restart
with a timeout or a failed reconcile. In `pulse` one deployment with two
requests passes through all three components under a death of the worker at any
place, a lost answer and a reset; what two deployments do to each other is
the matter of `detector`, and `ImplementsReleaseWatch` is proved for any number. Bounds that are
artefacts of checking: `MaxFaults`,
`MaxResets`, `MaxTime`, `MaxChecks`, the cap of `missed`, and the finite sets of requests, incidents
and deployments.

Fairness. `Ingestion!FairSpec`: a replica that can take a step of its handler
takes one, since the handler does not await and the database wakes a waiting
INSERT; nothing is assumed of senders, operators or crashes. `AlertDispatch!FairSpec`:
the scheduler keeps firing the job and the HTTP client bounds the call;
nothing is assumed of the channel. `ReleasePulse!FairSpec`: time passes, the
evaluator's job and the dispatcher's keep running; nothing is assumed of checks,
webhooks, endpoints, operators and the channel.
`Worker!FairSpec`: strong fairness of reconcile, of a blocked coroutine and of each
endpoint's checks, whose steps others disable for a while, since the loop runs what is
ready in turn and the pool wakes who waits; threads return their
connections; nothing is assumed of the registry.
Faults are bounded in the runs that count them: with a fault at every step
nothing could be promised.

### Disagreements between code and documents

| run | the document | the code |
|---|---|---|
| `ingestion_logged` | `models.py:318`: one row per accepted delivery | `deployments.py:136`: the loser of a race on the deployment is accepted with 200 and not logged |
| `alerts_restored` | `failure-simulations.md:84`: restore the token and the outbox retries | `dispatch.py:46`: not after five attempts, 2.5 minutes |
| `verdict_recorded` | `false-positive-regression.md:24`: the row has the actual numbers the detector compared | `core.py:125`: it has them rounded |
| `detector_late` | `service.py:103`: a newer deployment inside the window truncates it | `service.py:106`: not if it is reported after the verdict |

Things the models show that no run refutes a document with:

* `LoopWaitsOnlyForThreads` needs fewer endpoints than connections. With as many, all of
  them slow, the dispatcher's query finds the pool empty and blocks the loop on
  which every holder runs; nothing moves, `/healthz` included, until the pool
  gives up after 30 seconds. With the defaults that takes fifteen endpoints.
* `ReceivedCountsDeployments` speaks of one process at a time, since it started, and of the label
  `received` only: `webhooks_total` lives in the process (`metrics.py:65`), so the sum over the replicas
  falls behind the rows with every restart. A webhook answered 422 or 404 is
  counted nowhere (`deployments.py:72`, `82`), although `metrics.py:64` speaks of every
  webhook and `slos.md:36` counts an unknown service as `rejected`; nor is a deployment
  whose creator dies, or whose `db.refresh` fails, between the COMMIT and the answer.
* An operator's reset is not conditional (`alerts-not-firing.md:62`): an alert that the last attempt delivers
  while the operator looks at it is announced twice.
* A death during the last attempt leaves a row `pending` with its attempts used up for good
  (`dispatch.py:60`). `EveryIncidentSettles` counts attempts used up as settled, for no later run takes the row.
* `UnchangedIsNotBlamed` excepts an `error_delta` of 0, which the schema allows: it is met by no
  rise at all, so that a deployment that changed nothing is blamed once it has
  `min_failures` failed checks; and a `latency_floor_ms` of 0 where the median is 0 ms,
  since `check.py:80` rounds latencies and half more than nothing is nothing.
* A `DETECTOR_MIN_SAMPLES` of 0 lets an empty window pass the guards; its rate is None and
  comparing it raises. `VerdictAssumption` excludes it.
* A PATCH with an explicit `null` for a NOT NULL column is a 500.

## What is proved

The theorems hold for every value of the constants that satisfies the named
assumptions: `SenderAssumption` and `NoneAssumption` in `Ingestion` (an event is
about one deployment, a deployment is of one service; NULL is no value),
`RegistryAssumption` and `NullAssumption` in `Registry` (a URL has one service, bodies respect the schemas),
`DispatchAssumption` in `AlertDispatch` (at least one attempt), `DetectorAssumption` in `Detector` (windows
and times are numbers, NULL is none), `WorkerAssumption` in `Worker` (finite sets, a pool that is not
empty, endpoint ids that are not the periodic ones, a heartbeat that may be three
intervals old), `VerdictAssumption` in `EndpointVerdict` (windows hold checks that
`perform_check` records, thresholds are numbers, overrides respect the schemas). `PulseAssumption` in
`ReleasePulse` is the detector's and the outbox's.

**`IngestionProofs`** proves the type invariant and the seven other safety properties the run
checks. None of them is inductive. `IInv` adds to the types:

* `HandlingInv`: a request is handled by at most one replica, and is then
  submitted, signed and unanswered; an idle replica holds nothing;
* `TxInv`: what a replica's transaction and its local variable are at each
  statement, e.g. at `insert_delivery` the row held is either committed or
  the transaction's own;
* `ApartInv`: two open transactions hold no common key, which is what the waiting
  INSERT buys;
* `RowInv`: committed rows are unique, belong to each other, and were created by
  requests that are either answered or at `refresh`;
* `AnswerInv`: 200 and 201 name committed rows, and 201 only the request's own.

One step per action shows each conjunct preserved. The two surprising facts fall
out: a handler reaches `refind_deployment` only after a conflict with a committed
row of its own key, and deployments are never deleted, so the `raise` cannot be
reached; a handler whose transaction holds a deployment is the only one that can
hold a delivery of that deployment, so it never waits. For the counter, `CountInv` says that the
rows whose creator a process told 201 since it started are finitely many and as many as its
`received`, and `AnsweredInv` that what it answered has a reply: the
creator's answer adds its own row to them, which `RowInv` shows to be the only one with
its id, a restart empties both sides, and no other step adds or takes one.

**`LedgerProofs`** proves `Spec => ImplementsLedger` from that invariant: `Init` maps to
`Init`, and every action to a ledger step or a stutter.

**`RegistryProofs`** proves the type invariant, `OneEndpointPerIdentity`, `AppliedChangesHold` and
`DeletionHolds`. The strengthening is `Fresh`: between its two statements a PATCH is wrong only about
columns that a PATCH it has met wrote; and `Holds`: a row that was loaded is never
removed.

**`AlertDispatchProofs`** proves the type invariant, `MessagesWithinAttempts`, `SentWasDelivered`,
`BatchIsFresh` and `SentIsFinal`. Its `IInv` relates `delivered` to `attempts` at each place of
the run (one attempt is already counted and may not have arrived while a call
is awaited), and a waiting row's loaded attempts to the row. `NotedInv` is why an UPDATE cannot
come between the two: a row an operator has noted is at the limit until the UPDATE, for
the batch holds none that is and only the batch is attempted.

**`DetectorProofs`** proves, for any number of evaluators, the type invariant, `OneRowPerEndpoint`,
`SupersededHasSuccessor` and `NoCheckServesTwoReleases`. `IInv` says what an evaluator may count on while the tables
change under it: its deployment's window is over (`Over`), the end it read is the full
window's or that of a successor, and no later than any successor it knew (`Window`); each
row it holds was judged on the checks of that window, all but the one in flight
(`RowOK`). Since checks are stamped with the present and windows are over, no later check
enters one. That a verdict is given once needs one evaluator: two of them may judge a
deployment without endpoints twice, for no row of theirs conflicts
(`service.py:149`). Under `OneEvaluator`, which the chart's `Recreate` and the job's
`max_instances=1` provide, `SingleInv` adds that what is being judged is pending, and
`IncidentMatchesVerdict`, `ShortfallIsExplained`, `MissesAtMostOneCheck` and `VerdictIsFinal` follow.

**`EndpointVerdictProofs`** proves `OutageIsReported`, `UnchangedIsNotBlamed` and `ZeroOverridesReport` for
windows of any length. What they rest on is the median. `KthSmallest` is a CHOOSE: `KthExists` finds
the number it means (the least latency that as many measurements do not exceed), `KthUnique`
shows by counting that there is no other, and `MedianIsMiddle` says of the result that at least half
of the measurements are on either side of it. Two windows with equal measurements have equal
counts below every number (`SameCounts` puts together a bijection for each latency), hence
equal medians; with as many failures they get equal verdicts (`OrderIsIrrelevant`), which is why
`service.py:187` can do without an ORDER BY. The rest is arithmetic on the two rules
(`RegressionOutcome`).

**`WorkerProofs`** proves the type invariant, `LoopWaitsOnlyForThreads`, `AtMostOneLateCheck`, `PeriodicJobsSurvive` and
`OneHiccupIsTolerated`. (`PeriodicJobsSurvive` is a part of `IInv` and is in no run: `ChecksKeepComing` fails
without it.) `IInv` also has `OneCheck` (an endpoint has at most one check,
queued or awaited, also when its job is removed and added again), `LateInv`
(the late check was the one in flight, and `Load` starts no other) and `HeartInv` (every interval
since the heartbeat but the last has a missed reconcile). `ChecksBounded`
turns `OneCheck` into a bound on connections: the map from checks to endpoints
is an injection.

**`ReleasePulseProofs`** proves `ImplementsReleaseWatch` and `MessagesHaveFindings` for the whole, again with one
evaluator. It proves nothing about a part twice: `Alerts` and `Judged` are instances of
`AlertDispatchProofs` and `DetectorProofs` over the variables of the whole, and so are their lemmas.
`OutboxMoves`, `DetectorMoves` and `LedgerMoves` show every step of the whole to be a step of each
part or none of its business; with them `PartsRunWithinTheWhole` gives the whole every safety
property of the ledger, the detector and the outbox. The prover takes the operators
of two instances of a module for different ones, so `SameOutbox` and `SameDetector` first show
those of the proofs to be those `ReleasePulse` is composed of. `PulseInv` is the outbox's `IInv`, the
detector's `SingleInv` and, to tie them, `AlertInv`: the outbox touches and announces only
incidents. What ReleaseWatch needs to know of the detector follows (`WatchFacts`). `StepIsSeen`
then maps each step: a message is one of those granted because `CountInv` has counted it,
a confirmation has a message because `DeliveredInv` says so, and a verdict is given to a
pending deployment only. `NoMessageWithoutFinding` goes from the message to the incident by `AlertInv`,
and from the incident to its row and its window by the detector's invariant.

Only model-checked:

* liveness, which depends on fairness and is out of the prover's reach: `EveryRequestAnswered`,
  `EveryIncidentSettles`, `EveryReleaseIsSettled`, `JobsFollowRegistry`, `ChecksKeepComing`.

## Not modelled

* The seconds of things: check intervals, and with them the interval of a job that
  a PATCH does not change (`runner.py:126` leaves existing jobs alone); a tick of any
  job may come at any time.
* Doubles. TLC's integers have 32 bits; a difference of rates exactly on `error_delta` (`core.py:150`), or
  a median exactly `1 + latency_pct` times the other where that product is not exact
  (`core.py:145`: 1.1 is not, the default 1.5 is), is compared exactly here and may fall on
  either side there.
* HMAC, time stamps of signatures, JSON, the text of messages, `error_detail`,
  `evaluation_reason`, summaries, logs and all counters but the webhook's: data no
  property tells apart.
* The status `invalid` and the incident statuses `acknowledged` and `resolved`:
  no code sets them.
* Of `worker/http.py` and `api/main.py` everything but the heartbeat and the counter: probes are
  reads of the moment, the rest sets up servers.
* The listings, the SSRF guard, configuration, the demo service: stateless and sequential.
  `validate_url` is a choice in `Registry` and `PerformCheck`.
* Dashboards, migrations and the cluster's jobs: I/O and layout. Retention deletes checks
  months older than any window reads; that the migration job runs before the
  processes start is assumed.
