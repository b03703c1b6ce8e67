---------------------------- MODULE EndpointVerdict ----------------------------
(***************************************************************************)
(* What the verdict on one endpoint promises: evaluate_endpoint called     *)
(* once (releasepulse/detector/service.py:evaluate_deployment) on windows  *)
(* of checks that perform_check recorded, with an endpoint's overrides of  *)
(* the configured thresholds.                                              *)
(***************************************************************************)
EXTENDS DetectorCore

CONSTANTS
  Latency,       \* latencies of the answers expected
  Unexpected,    \* latencies of the others
  Baselines,     \* windows before a deployment
  Observations,  \* windows after it
  Thresholds,    \* thresholds_from_settings, rates in whole percents
  Overrides      \* overrides the columns of an endpoint may hold

VARIABLES baseline, observation, overrides, evaluation

vars == <<baseline, observation, overrides, evaluation>>

Checker == INSTANCE PerformCheck

(* The checks of an endpoint that expects a 200. *)
Sample ==
  Checker!Samples(Checker!Responses({200}, Latency) \cup Checker!Responses({500}, Unexpected)
                    \cup Checker!Exceptions, 200)

(* What thresholds_from_settings may return. *)
ThresholdsType ==
  [min_samples : Nat, min_successful_baseline : Nat, baseline_degraded_rate : Nat,
   latency_pct : Nat, latency_floor_ms : Nat, error_delta : Nat, min_failures : Nat]

(* What EndpointCreate and EndpointUpdate let an endpoint override: a rise *)
(* of more than 0, a floor and a delta of 0 or more.                       *)
Overridable(t, over) ==
  /\ DOMAIN over \subseteq {"latency_pct", "latency_floor_ms", "error_delta"}
  /\ \A field \in DOMAIN over :
       over[field] \in (IF field = "latency_pct" THEN Nat \ {0} ELSE Nat) \cup {NULL}

(* A min_samples of 0 would let empty windows pass, whose rates are None.  *)
ASSUME VerdictAssumption ==
  /\ NULL \notin Nat
  /\ Latency \subseteq Nat /\ Unexpected \subseteq Nat
  /\ Baselines \subseteq Seq(Sample) /\ Observations \subseteq Seq(Sample)
  /\ Thresholds \in ThresholdsType
  /\ Thresholds.min_samples > 0 /\ Thresholds.latency_pct > 0
  /\ \A over \in Overrides : Overridable(Thresholds, over)

Init ==
  /\ baseline \in Baselines
  /\ observation \in Observations
  /\ overrides \in Overrides
  /\ evaluation = NULL

Effective == MergeThresholds(Thresholds, overrides)

Evaluate ==
  /\ evaluation = NULL
  /\ evaluation' = EvaluateEndpoint(baseline, observation, Effective)
  /\ UNCHANGED <<baseline, observation, overrides>>

Spec == Init /\ [][Evaluate]_vars

-----------------------------------------------------------------------------

Is(outcomes) == evaluation # NULL /\ evaluation.outcome \in outcomes

(* The guards that no override touches let the windows be compared. *)
Comparable ==
  /\ Len(baseline) >= Thresholds.min_samples
  /\ Len(observation) >= Thresholds.min_samples
  /\ Len(baseline) - FailedChecks(baseline) >= Thresholds.min_successful_baseline

(* A deployment after which every check fails is reported when its         *)
(* baseline was judgeable: the absence of any latency to compare does not  *)
(* hide it.  It needs thresholds that an outage can meet: enough checks to *)
(* fail, and room between the worst baseline that is judged and an error   *)
(* rate of 100 percent for the required rise.                              *)
OutageIsReported ==
  evaluation # NULL =>
    ( /\ Comparable
      /\ ErrorEligible(baseline, Thresholds)
      /\ FailedChecks(observation) = Len(observation)
      /\ Thresholds.min_failures <= Thresholds.min_samples
      /\ Thresholds.baseline_degraded_rate + Effective.error_delta <= 100
      => Is({"regressed_error"}))

Successes(w, latency) ==
  Cardinality({i \in DOMAIN w : w[i].success /\ w[i].latency_ms = latency})

(* As many failures and the same measurements, in any order. *)
SameMeasurements(v, w) ==
  /\ FailedChecks(v) = FailedChecks(w)
  /\ \A latency \in Latency : Successes(v, latency) = Successes(w, latency)

(* A deployment that changed nothing is never blamed, in whatever order    *)
(* the database returns its checks (service.py:187 has no ORDER BY), and   *)
(* whether its failures were fast answers with an unexpected status or no  *)
(* answers at all (check.py:83).  Only thresholds that no rise at all can  *)
(* meet blame it: an error_delta of 0, or a floor of 0 where the median    *)
(* rounds to 0 ms, half of which is nothing more.                          *)
UnchangedIsNotBlamed ==
  Is(RegressionOutcomes) /\ SameMeasurements(baseline, observation) =>
    \/ Effective.error_delta = 0
    \/ Effective.latency_floor_ms = 0 /\ Median(baseline) = 0

(* A threshold overridden with 0 is 0, not the default: with an            *)
(* error_delta of 0 every rise in the error rate is reported, with a       *)
(* latency floor of 0 every relative rise that the configuration calls one *)
(* is, however small.                                                      *)
ZeroOverridesReport ==
  evaluation # NULL /\ Comparable =>
    /\ /\ "error_delta" \in DOMAIN overrides /\ overrides["error_delta"] = 0
       /\ ErrorEligible(baseline, Thresholds)
       /\ FailedChecks(observation) >= Thresholds.min_failures
       /\ FailedChecks(observation) * Len(baseline)
            > FailedChecks(baseline) * Len(observation)
       => Is({"regressed_error", "regressed_both"})
    /\ /\ "latency_floor_ms" \in DOMAIN overrides /\ overrides["latency_floor_ms"] = 0
       /\ "latency_pct" \notin DOMAIN overrides
       /\ LatencyEligible(baseline, observation)
       /\ 100 * (Median(observation) - Median(baseline))
            >= Thresholds.latency_pct * Median(baseline)
       => Is({"regressed_latency", "regressed_both"})

(* What false-positive-regression.md says of the recorded medians: they    *)
(* are "the actual numbers the detector compared", and the rule to read    *)
(* them by is observed >= baseline * 1.50 and observed - baseline >= 50ms. *)
RecordedMediansDecide ==
  Is({"regressed_latency", "regressed_both", "no_regression"}) =>
    LET b == evaluation.baseline_median_latency_ms
        o == evaluation.observed_median_latency_ms
    IN  b # NULL /\ o # NULL =>
          (LatencyRises(2 * b, 2 * o, Thresholds)
             <=> Is({"regressed_latency", "regressed_both"}))
=============================================================================
