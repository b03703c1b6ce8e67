------------------------------ MODULE MCDetector ------------------------------
(* Windows of one or two instants, sample counts of one, so that a handful *)
(* of checks decides a verdict.                                            *)
EXTENDS Detector, TLC

MCDefaults ==
  [baseline_window |-> 1, warmup |-> 1, observation_window |-> 2,
   min_samples |-> 1, min_successful_baseline |-> 1, baseline_degraded_rate |-> 20,
   latency_pct |-> 50, latency_floor_ms |-> 50, error_delta |-> 5, min_failures |-> 1]

(* The shortest windows, which leave time for late reports. *)
MCDefaultsShort == [MCDefaults EXCEPT !.warmup = 0, !.observation_window = 1]

(* A good answer, and one of another status than expected, as fast; or     *)
(* never an answer.                                                        *)
MCSample == [success : BOOLEAN, latency_ms : {100}]
MCUnanswered == [success : {FALSE}, latency_ms : {NULL}]

MCOverrides == [e \in Endpoint |-> [latency_pct |-> NULL]]

TwoEvaluators == Permutations(Endpoint) \cup Permutations(Evaluator)

Symmetry == Permutations(Deployment) \cup Permutations(Endpoint)
=============================================================================
