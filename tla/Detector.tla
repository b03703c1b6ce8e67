------------------------------- MODULE Detector -------------------------------
(***************************************************************************)
(* The detector's database side (releasepulse/detector/service.py) for one *)
(* service and environment: the worker's evaluate_due job runs in a thread *)
(* of its own, one SQL statement at a time at READ COMMITTED, while the    *)
(* event loop commits checks, the API commits deployments and endpoint     *)
(* changes, and time passes.  Every query of the evaluator filters by      *)
(* service and environment, so pairs of them do not interact.              *)
(***************************************************************************)
EXTENDS DetectorCore, FiniteSetsExt, SequencesExt

CONSTANTS
  Deployment,  \* deployments that may be reported
  Endpoint,    \* the endpoints of the service in the environment
  Evaluator,   \* callers of evaluate_due_deployments; the worker has one
  Defaults,    \* thresholds_from_settings: the windows and the thresholds
  Overrides,   \* each endpoint's threshold overrides
  Sample,      \* what a check may find: [success, latency_ms]
  MaxPast,     \* DEFAULT_MAX_PAST
  MaxFuture,   \* DEFAULT_MAX_FUTURE
  MaxTime,     \* bound on the clock
  MaxFaults    \* bound on crashes and failed evaluations

VARIABLES
  now,        \* the clock
  effective,  \* effective_deployed_at, NULL before the row is committed
  status,     \* evaluation_status
  rows,       \* table deployment_endpoint_evaluations
  incidents,  \* deployments with a row in incidents
  enabled,    \* endpoints that are enabled and not deleted
  checks,     \* table checks
  stamped,    \* the check that has its checked_at and is being committed
  pc,         \* where an evaluator is
  due,        \* ids of its batch it has not come to
  current,    \* the deployment it evaluates
  horizon,    \* its obs_end
  todo,       \* selected endpoints it has not judged
  results,    \* rows it has added to its session
  known,      \* history: deployments committed when the horizon was read
  judged,     \* history: what each verdict was based on
  faults      \* faults so far

tables == <<effective, status, rows, incidents, judged>>
writes == <<checks, stamped>>
locals == <<pc, due, current, horizon, todo, results, known>>
vars == <<now, tables, enabled, writes, locals, faults>>

Time == 0..MaxTime

OutcomeValues == RegressionOutcomes \cup
  {"no_regression", "insufficient_baseline", "insufficient_observation",
   "insufficient_successful_baseline", "baseline_degraded", "superseded"}

Verdicts == {"evaluated_regression", "evaluated_no_regression", "superseded",
             "insufficient_baseline"}

Check == [endpoint : Endpoint, checked_at : Time, success : BOOLEAN,
          latency_ms : Nat \cup {NULL}]
Row == [deployment : Deployment, endpoint : Endpoint, outcome : OutcomeValues,
        observed_samples : Nat]
Basis == [obs_end : Nat, known : SUBSET Deployment]

ASSUME DetectorAssumption ==
  /\ NULL \notin Nat \cup Check \cup Basis
  /\ Sample \subseteq [success : BOOLEAN, latency_ms : Nat \cup {NULL}]
  /\ Defaults.warmup \in Nat /\ Defaults.observation_window \in Nat
  /\ MaxTime \in Nat /\ MaxFaults \in Nat

TypeOK ==
  /\ now \in Time
  /\ effective \in [Deployment -> Time \cup {NULL}]
  /\ status \in [Deployment -> Verdicts \cup {"pending"}]
  /\ rows \subseteq Row
  /\ incidents \subseteq Deployment
  /\ enabled \subseteq Endpoint
  /\ checks \subseteq Check
  /\ stamped \in Check \cup {NULL}
  /\ pc \in [Evaluator -> {"idle", "pick", "horizon", "endpoints", "judge"}]
  /\ due \in [Evaluator -> SUBSET Deployment]
  /\ current \in [Evaluator -> Deployment \cup {NULL}]
  /\ horizon \in [Evaluator -> Nat]
  /\ todo \in [Evaluator -> SUBSET Endpoint]
  /\ results \in [Evaluator -> SUBSET Row]
  /\ known \in [Evaluator -> SUBSET Deployment]
  /\ judged \in [Deployment -> Basis \cup {NULL}]
  /\ faults \in 0..MaxFaults

Init ==
  /\ now = 0
  /\ effective = [d \in Deployment |-> NULL]
  /\ status = [d \in Deployment |-> "pending"]
  /\ rows = {}
  /\ incidents = {}
  /\ enabled = Endpoint
  /\ checks = {}
  /\ stamped = NULL
  /\ pc = [v \in Evaluator |-> "idle"]
  /\ due = [v \in Evaluator |-> {}]
  /\ current = [v \in Evaluator |-> NULL]
  /\ horizon = [v \in Evaluator |-> 0]
  /\ todo = [v \in Evaluator |-> {}]
  /\ results = [v \in Evaluator |-> {}]
  /\ known = [v \in Evaluator |-> {}]
  /\ judged = [d \in Deployment |-> NULL]
  /\ faults = 0

-----------------------------------------------------------------------------

(* The API and the checks. *)

(* compute_effective_deployed_at: the reported time is trusted only within *)
(* [received - MaxPast, received + MaxFuture].                             *)
EffectiveDeployedAt(reported, received) ==
  IF reported # NULL /\ reported <= received + MaxFuture /\ reported >= received - MaxPast
    THEN reported ELSE received

(* When the observation window of a deployment at t closes. *)
WindowCloses(t) == t + Defaults.warmup + Defaults.observation_window

(* Mutant: a newer deployment marks the older ones superseded at once. *)
IngestSupersedes(d, reported) ==
  LET t == EffectiveDeployedAt(reported, now) IN
  /\ effective[d] = NULL
  /\ WindowCloses(t) <= MaxTime
  /\ effective' = [effective EXCEPT ![d] = t]
  /\ status' = [c \in Deployment |->
                  IF effective[c] # NULL /\ effective[c] < t /\ t < WindowCloses(effective[c])
                    THEN "superseded" ELSE status[c]]
  /\ UNCHANGED <<now, rows, incidents, judged, enabled, writes, locals, faults>>

(* The webhook commits a deployment.  Times whose window closes after      *)
(* MaxTime are left out.                                                   *)
Ingest(d, reported) ==
  LET t == EffectiveDeployedAt(reported, now) IN
  /\ effective[d] = NULL
  /\ WindowCloses(t) <= MaxTime
  /\ effective' = [effective EXCEPT ![d] = t]
  /\ UNCHANGED <<now, status, rows, incidents, judged, enabled, writes, locals, faults>>

(* A PATCH of enabled, a DELETE or a new registration: what the evaluator  *)
(* can see of the endpoints API.                                           *)
ChangeEndpoint(e) ==
  /\ enabled' = IF e \in enabled THEN enabled \ {e} ELSE enabled \cup {e}
  /\ UNCHANGED <<now, tables, writes, locals, faults>>

(* check_and_record stamps a finished check and commits it, in one stretch *)
(* of the event loop: one check is in flight at a time.  The endpoint was  *)
(* enabled when the check began, not necessarily now.  One check of an     *)
(* endpoint per instant.                                                   *)
StampCheck(e, sample) ==
  /\ stamped = NULL
  /\ \A c \in checks : c.endpoint = e => c.checked_at # now
  /\ stamped' = [endpoint |-> e, checked_at |-> now, success |-> sample.success,
                 latency_ms |-> sample.latency_ms]
  /\ UNCHANGED <<now, tables, enabled, checks, locals, faults>>

CommitCheck ==
  /\ stamped # NULL
  /\ checks' = checks \cup {stamped}
  /\ stamped' = NULL
  /\ UNCHANGED <<now, tables, enabled, locals, faults>>

ClockAdvances ==
  /\ now < MaxTime
  /\ now' = now + 1
  /\ UNCHANGED <<tables, enabled, writes, locals, faults>>

-----------------------------------------------------------------------------

(* evaluate_due_deployments. *)

(* Mutant: due_before leaves the warmup out. *)
DueEarly == {d \in Deployment :
  /\ effective[d] # NULL
  /\ status[d] = "pending"
  /\ effective[d] <= now - Defaults.observation_window}

(* Mutant: only the deployments whose window closes now. *)
DueThisInstant == {d \in Deployment :
  /\ effective[d] # NULL
  /\ status[d] = "pending"
  /\ effective[d] = now - (Defaults.warmup + Defaults.observation_window)}

Due == {d \in Deployment :
  /\ effective[d] # NULL
  /\ status[d] = "pending"
  /\ effective[d] <= now - (Defaults.warmup + Defaults.observation_window)}

(* The tick: the due ids are read in a session of their own.  A tick with  *)
(* nothing due changes nothing.                                            *)
StartBatch(v) ==
  /\ pc[v] = "idle"
  /\ Due # {}
  /\ due' = [due EXCEPT ![v] = Due]
  /\ pc' = [pc EXCEPT ![v] = "pick"]
  /\ UNCHANGED <<now, tables, enabled, writes, current, horizon, todo, results,
                 known, faults>>

(* The next id, in a new session; a deployment no longer pending is left   *)
(* alone.                                                                  *)
Pick(v, d) ==
  /\ pc[v] = "pick"
  /\ d \in due[v]
  /\ due' = [due EXCEPT ![v] = @ \ {d}]
  /\ \/ /\ status[d] = "pending"
        /\ current' = [current EXCEPT ![v] = d]
        /\ pc' = [pc EXCEPT ![v] = "horizon"]
     \/ /\ status[d] # "pending"
        /\ UNCHANGED <<current, pc>>
  /\ UNCHANGED <<now, tables, enabled, writes, horizon, todo, results, known, faults>>

EndBatch(v) ==
  /\ pc[v] = "pick"
  /\ due[v] = {}
  /\ pc' = [pc EXCEPT ![v] = "idle"]
  /\ UNCHANGED <<now, tables, enabled, writes, due, current, horizon, todo,
                 results, known, faults>>

-----------------------------------------------------------------------------

(* evaluate_deployment. *)

NewerTimes(t) == {effective[d] : d \in {x \in Deployment : effective[x] # NULL
                                                           /\ effective[x] > t}}

(* Mutant: overlapping deployments are not looked for. *)
ObservationEndUntruncated(t) == WindowCloses(t)

(* obs_end: the window closes early at the next deployment. *)
ObservationEnd(t) ==
  IF NewerTimes(t) # {} /\ Min(NewerTimes(t)) < WindowCloses(t)
    THEN Min(NewerTimes(t)) ELSE WindowCloses(t)

Truncated(v) == horizon[v] < WindowCloses(effective[current[v]])

ReadHorizon(v) ==
  /\ pc[v] = "horizon"
  /\ horizon' = [horizon EXCEPT ![v] = ObservationEnd(effective[current[v]])]
  /\ known' = [known EXCEPT ![v] = {d \in Deployment : effective[d] # NULL}]
  /\ pc' = [pc EXCEPT ![v] = "endpoints"]
  /\ UNCHANGED <<now, tables, enabled, writes, due, current, todo, results, faults>>

ReadEndpoints(v) ==
  /\ pc[v] = "endpoints"
  /\ todo' = [todo EXCEPT ![v] = enabled]
  /\ results' = [results EXCEPT ![v] = {}]
  /\ pc' = [pc EXCEPT ![v] = "judge"]
  /\ UNCHANGED <<now, tables, enabled, writes, due, current, horizon, known, faults>>

(* _window_samples: the half-open window [start, end). *)
WindowChecks(e, start, end) ==
  {c \in checks : c.endpoint = e /\ c.checked_at >= start /\ c.checked_at < end}

(* Mutant: a shortfall of a truncated window stays an insufficiency. *)
RowForUnsuperseded(v, e) ==
  LET d == current[v]
      t0 == effective[d]
      baseline == WindowChecks(e, t0 - Defaults.baseline_window, t0)
      observation == WindowChecks(e, t0 + Defaults.warmup, horizon[v])
      thresholds == MergeThresholds(Defaults, Overrides[e])
  IN  [deployment |-> d, endpoint |-> e,
       outcome |-> Outcome(SetToSeq(baseline), SetToSeq(observation), thresholds),
       observed_samples |-> Cardinality(observation)]

(* Mutant: any shortfall of observations is called a supersession. *)
RowForShortIsSuperseded(v, e) ==
  LET row == RowForUnsuperseded(v, e) IN
  IF row.outcome = "insufficient_observation"
    THEN [row EXCEPT !.outcome = "superseded"] ELSE row

(* The row of one endpoint.  Its two windows are read by two SELECTs; they *)
(* are one step here because a check of the baseline, older than the       *)
(* warmup and the observation window, is long committed.                   *)
RowFor(v, e) ==
  LET d == current[v]
      t0 == effective[d]
      baseline == WindowChecks(e, t0 - Defaults.baseline_window, t0)
      observation == WindowChecks(e, t0 + Defaults.warmup, horizon[v])
      thresholds == MergeThresholds(Defaults, Overrides[e])
      outcome == Outcome(SetToSeq(baseline), SetToSeq(observation), thresholds)
  IN  [deployment |-> d, endpoint |-> e,
       outcome |-> IF Truncated(v) /\ outcome = "insufficient_observation"
                     THEN "superseded" ELSE outcome,
       observed_samples |-> Cardinality(observation)]

(* UNIQUE (deployment_id, endpoint_id): another evaluator committed a row  *)
(* this session also holds.                                                *)
RowTaken(v) ==
  \E r \in results[v], s \in rows : r.deployment = s.deployment /\ r.endpoint = s.endpoint

(* Reading the windows flushes the rows added before (autoflush). *)
JudgeEndpoint(v, e) ==
  /\ pc[v] = "judge"
  /\ e \in todo[v]
  /\ ~ RowTaken(v)
  /\ results' = [results EXCEPT ![v] = @ \cup {RowFor(v, e)}]
  /\ todo' = [todo EXCEPT ![v] = @ \ {e}]
  /\ UNCHANGED <<now, tables, enabled, writes, pc, due, current, horizon, known, faults>>

Found(found, outcomes) == \E r \in found : r.outcome \in outcomes

(* Mutant: an endpoint's outcome is stored as the deployment's status. *)
VerdictIsOutcome(found) ==
  IF Found(found, RegressionOutcomes)
    THEN (CHOOSE r \in found : r.outcome \in RegressionOutcomes).outcome
    ELSE "insufficient_baseline"

(* Mutant: whatever is not fine is a finding. *)
VerdictBlamesTheRest(found) ==
  IF Found(found, OutcomeValues \ {"no_regression"}) THEN "evaluated_regression"
  ELSE IF Found(found, {"no_regression"}) THEN "evaluated_no_regression"
  ELSE "insufficient_baseline"

(* The deployment's status, given its endpoints' rows. *)
Verdict(found) ==
  IF Found(found, RegressionOutcomes) THEN "evaluated_regression"
  ELSE IF Found(found, {"no_regression"}) THEN "evaluated_no_regression"
  ELSE IF Found(found, {"superseded"}) THEN "superseded"
  ELSE "insufficient_baseline"

(* Back to the batch with an empty session. *)
Leave(v) ==
  /\ pc' = [pc EXCEPT ![v] = "pick"]
  /\ current' = [current EXCEPT ![v] = NULL]
  /\ results' = [results EXCEPT ![v] = {}]
  /\ todo' = [todo EXCEPT ![v] = {}]
  /\ horizon' = [horizon EXCEPT ![v] = 0]
  /\ known' = [known EXCEPT ![v] = {}]
  /\ UNCHANGED due

Ready(v) == pc[v] = "judge" /\ todo[v] = {}

(* Mutant: no UNIQUE (deployment_id, endpoint_id). *)
ConflictOnIncidents(v) ==
  Ready(v) /\ Verdict(results[v]) = "evaluated_regression" /\ current[v] \in incidents

(* An INSERT this session makes next fails: of a row, or at the commit of  *)
(* the incident (UNIQUE incidents.deployment_id).                          *)
Conflict(v) ==
  \/ RowTaken(v)
  \/ Ready(v) /\ Verdict(results[v]) = "evaluated_regression" /\ current[v] \in incidents

(* Mutant: the incident is left to a second transaction. *)
CommitWithoutIncident(v) ==
  /\ Ready(v)
  /\ ~ Conflict(v)
  /\ rows' = rows \cup results[v]
  /\ status' = [status EXCEPT ![current[v]] = Verdict(results[v])]
  /\ judged' = [judged EXCEPT ![current[v]] =
                  [obs_end |-> horizon[v], known |-> known[v]]]
  /\ Leave(v)
  /\ UNCHANGED <<now, effective, incidents, enabled, writes, faults>>

(* One transaction: the rows, the status and the incident. *)
CommitVerdict(v) ==
  /\ Ready(v)
  /\ ~ Conflict(v)
  /\ rows' = rows \cup results[v]
  /\ status' = [status EXCEPT ![current[v]] = Verdict(results[v])]
  /\ incidents' = IF Verdict(results[v]) = "evaluated_regression"
                    THEN incidents \cup {current[v]} ELSE incidents
  /\ judged' = [judged EXCEPT ![current[v]] =
                  [obs_end |-> horizon[v], known |-> known[v]]]
  /\ Leave(v)
  /\ UNCHANGED <<now, effective, enabled, writes, faults>>

(* IntegrityError: another evaluator was first.  The caller logs it, rolls *)
(* back and goes on with the batch.  (An INSERT also waits for a row       *)
(* another session holds uncommitted; whichever commits first, the other   *)
(* ends here.)                                                             *)
LoseRace(v) ==
  /\ pc[v] = "judge"
  /\ Conflict(v)
  /\ Leave(v)
  /\ UNCHANGED <<now, tables, enabled, writes, faults>>

-----------------------------------------------------------------------------

Fault == faults < MaxFaults /\ faults' = faults + 1

(* Any other exception in an evaluation: rolled back, the deployment stays *)
(* pending.                                                                *)
EvaluationFails(v) ==
  /\ pc[v] \in {"horizon", "endpoints", "judge"}
  /\ Fault
  /\ Leave(v)
  /\ UNCHANGED <<now, tables, enabled, writes>>

(* The worker dies, with its batches and the check being committed. *)
WorkerCrashes ==
  /\ Fault
  /\ pc' = [v \in Evaluator |-> "idle"]
  /\ due' = [v \in Evaluator |-> {}]
  /\ current' = [v \in Evaluator |-> NULL]
  /\ todo' = [v \in Evaluator |-> {}]
  /\ results' = [v \in Evaluator |-> {}]
  /\ horizon' = [v \in Evaluator |-> 0]
  /\ known' = [v \in Evaluator |-> {}]
  /\ stamped' = NULL
  /\ UNCHANGED <<now, tables, enabled, checks>>

Evaluate(v) ==
  \/ StartBatch(v)
  \/ \E d \in Deployment : Pick(v, d)
  \/ EndBatch(v)
  \/ ReadHorizon(v)
  \/ ReadEndpoints(v)
  \/ \E e \in Endpoint : JudgeEndpoint(v, e)
  \/ CommitVerdict(v)
  \/ LoseRace(v)

Environment ==
  \/ \E d \in Deployment, reported \in Time \cup {NULL} : Ingest(d, reported)
  \/ \E e \in Endpoint :
       \/ ChangeEndpoint(e)
       \/ \E sample \in Sample : StampCheck(e, sample)
  \/ CommitCheck
  \/ ClockAdvances

Next ==
  \/ Environment
  \/ \E v \in Evaluator : Evaluate(v) \/ EvaluationFails(v)
  \/ WorkerCrashes

Spec == Init /\ [][Next]_vars

-----------------------------------------------------------------------------

(* Properties. *)

(* An incident, the status evaluated_regression and a row with a           *)
(* regression outcome come together or not at all, through crashes and     *)
(* failed evaluations: no deployment is blamed without an incident, no     *)
(* incident is without findings.                                           *)
IncidentMatchesVerdict ==
  \A d \in Deployment :
    /\ d \in incidents <=> status[d] = "evaluated_regression"
    /\ d \in incidents <=>
         \E r \in rows : r.deployment = d /\ r.outcome \in RegressionOutcomes

(* A verdict is given once: the status of an evaluated deployment, its     *)
(* rows and its incident never change, whatever arrives later.             *)
VerdictIsFinal ==
  [][\A d \in Deployment : status[d] # "pending" =>
       /\ status'[d] = status[d]
       /\ {r \in rows' : r.deployment = d} = {r \in rows : r.deployment = d}
       /\ d \in incidents' <=> d \in incidents]_vars

(* A row counts every check of its observation window that is in the table *)
(* now, but for the one check that may have been in flight when the        *)
(* window was read: nobody is judged on a window still filling up.         *)
MissesAtMostOneCheck ==
  \A r \in rows :
    Cardinality(WindowChecks(r.endpoint,
                             effective[r.deployment] + Defaults.warmup,
                             judged[r.deployment].obs_end))
      <= r.observed_samples + 1

ObservedFor(d) ==
  {c \in checks : c.checked_at >= effective[d] + Defaults.warmup
                  /\ c.checked_at < judged[d].obs_end}

(* No check counts for two releases, unless the later one was reported     *)
(* after the earlier was evaluated or both claim the same instant.         *)
NoCheckServesTwoReleases ==
  \A c, d \in Deployment :
    /\ judged[c] # NULL /\ judged[d] # NULL
    /\ effective[c] < effective[d]
    /\ d \in judged[c].known
    => ObservedFor(c) \cap ObservedFor(d) = {}

(* Superseded is said only of a deployment that another one followed       *)
(* before its window closed.                                               *)
SupersededHasSuccessor ==
  \A d \in Deployment :
    status[d] = "superseded" =>
      \E c \in Deployment : /\ effective[c] # NULL
                            /\ effective[c] > effective[d]
                            /\ effective[c] < WindowCloses(effective[d])

(* A window cut short by a newer release is never reported as a plain lack *)
(* of observations.                                                        *)
ShortfallIsExplained ==
  \A r \in rows :
    r.outcome = "insufficient_observation" =>
      judged[r.deployment].obs_end = WindowCloses(effective[r.deployment])

(* However many evaluators run, a deployment gets one row per endpoint.    *)
OneRowPerEndpoint ==
  \A r, s \in rows : r.deployment = s.deployment /\ r.endpoint = s.endpoint => r = s

(* What the comment on the truncation says: "if a newer deploy [...] lands *)
(* before this observation window ends, truncate the window at it - checks *)
(* after that point reflect the newer release, not this one".              *)
NewerReleaseIsNotObserved ==
  \A c, d \in Deployment :
    judged[c] # NULL /\ effective[d] # NULL /\ effective[d] > effective[c] =>
      judged[c].obs_end <= effective[d]
=============================================================================
