----------------------------- MODULE DetectorCore -----------------------------
(***************************************************************************)
(* The pure verdict for one endpoint around one deployment                 *)
(* (releasepulse/detector/core.py).  Rates are whole percents and compared *)
(* exactly, medians are kept doubled so that they stay integers; what      *)
(* double precision does to a rate or a rise in latency exactly on its     *)
(* threshold (core.py:145, 150) is left out.                               *)
(***************************************************************************)
EXTENDS Integers, Sequences, FiniteSets

CONSTANT NULL  \* a column without a value

(* A check as the comparison sees it: [success, latency_ms], latency_ms    *)
(* NULL when there was no response.  A window is a sequence of them, in    *)
(* whatever order the database returns the rows.                           *)
FailedChecks(window) == Cardinality({i \in DOMAIN window : ~ window[i].success})

(* Mutant: the answers with an unexpected status enter the median. *)
MeasuredFailuresToo(window) == {i \in DOMAIN window : window[i].latency_ms # NULL}

(* The measurements that enter the median. *)
Measured(window) ==
  {i \in DOMAIN window : window[i].success /\ window[i].latency_ms # NULL}

KthSmallest(window, k) ==
  CHOOSE v \in {window[i].latency_ms : i \in Measured(window)} :
    /\ Cardinality({i \in Measured(window) : window[i].latency_ms < v}) < k
    /\ k <= Cardinality({i \in Measured(window) : window[i].latency_ms <= v})

(* Twice statistics.median, NULL for an empty window. *)
Median(window) ==
  LET n == Cardinality(Measured(window)) IN
  IF n = 0 THEN NULL
  ELSE KthSmallest(window, (n + 1) \div 2) + KthSmallest(window, n \div 2 + 1)

(* round() of half a doubled median: ties to even. *)
ToInt(median) ==
  IF median = NULL THEN NULL
  ELSE LET h == median \div 2 IN
       IF median % 2 = 0 \/ h % 2 = 0 THEN h ELSE h + 1

(* Mutant: an override is taken by its truth value. *)
MergeTruthy(base, overrides) ==
  [field \in DOMAIN base |->
     IF field \in DOMAIN overrides /\ overrides[field] \notin {NULL, 0}
       THEN overrides[field] ELSE base[field]]

(* Per-endpoint overrides: NULL keeps the base value. *)
MergeThresholds(base, overrides) ==
  [field \in DOMAIN base |->
     IF field \in DOMAIN overrides /\ overrides[field] # NULL
       THEN overrides[field] ELSE base[field]]

(* failed / total < percent, and the difference of two rates. *)
RateBelow(failed, total, percent) == 100 * failed < percent * total
RateRisesBy(window, before, percent) ==
  100 * (FailedChecks(window) * Len(before) - FailedChecks(before) * Len(window))
    >= percent * Len(before) * Len(window)

ErrorEligible(baseline, t) ==
  RateBelow(FailedChecks(baseline), Len(baseline), t.baseline_degraded_rate)

LatencyEligible(baseline, observation) ==
  Median(baseline) # NULL /\ Median(observation) # NULL

(* The rule on doubled medians. *)
LatencyRises(b, o, t) ==
  /\ 100 * o >= b * (100 + t.latency_pct)
  /\ o - b >= 2 * t.latency_floor_ms

LatencyRegressed(baseline, observation, t) ==
  /\ LatencyEligible(baseline, observation)
  /\ LatencyRises(Median(baseline), Median(observation), t)

(* Mutant: errors are judged only where latency can be judged too. *)
ErrorRegressedIfMeasured(baseline, observation, t) ==
  /\ LatencyEligible(baseline, observation)
  /\ ErrorEligible(baseline, t)
  /\ RateRisesBy(observation, baseline, t.error_delta)
  /\ FailedChecks(observation) >= t.min_failures

ErrorRegressed(baseline, observation, t) ==
  /\ ErrorEligible(baseline, t)
  /\ RateRisesBy(observation, baseline, t.error_delta)
  /\ FailedChecks(observation) >= t.min_failures

RegressionOutcomes == {"regressed_latency", "regressed_error", "regressed_both"}

(* The guards in order, then the two dimensions. *)
Outcome(baseline, observation, t) ==
  LET latency == LatencyRegressed(baseline, observation, t)
      error == ErrorRegressed(baseline, observation, t)
  IN
  IF Len(baseline) < t.min_samples THEN "insufficient_baseline"
  ELSE IF Len(observation) < t.min_samples THEN "insufficient_observation"
  ELSE IF Len(baseline) - FailedChecks(baseline) < t.min_successful_baseline
    THEN "insufficient_successful_baseline"
  ELSE CASE latency /\ error -> "regressed_both"
         [] latency /\ ~ error -> "regressed_latency"
         [] ~ latency /\ error -> "regressed_error"
         [] ~ latency /\ ~ error ->
              IF LatencyEligible(baseline, observation) \/ ErrorEligible(baseline, t)
                THEN "no_regression" ELSE "baseline_degraded"

(* The row recorded for the endpoint.  Rates are the recorded counts. *)
EvaluateEndpoint(baseline, observation, t) ==
  [outcome |-> Outcome(baseline, observation, t),
   baseline_samples |-> Len(baseline),
   observed_samples |-> Len(observation),
   observed_failed_checks |-> FailedChecks(observation),
   baseline_median_latency_ms |-> ToInt(Median(baseline)),
   observed_median_latency_ms |-> ToInt(Median(observation))]
=============================================================================
