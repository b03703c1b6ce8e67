---------------------------- MODULE MCReleasePulse ----------------------------
(***************************************************************************)
(* Windows of one instant: one check before and one after a deployment     *)
(* decide its verdict.                                                     *)
(***************************************************************************)
EXTENDS ReleasePulse

MCDefaults ==
  [baseline_window |-> 1, warmup |-> 0, observation_window |-> 1,
   min_samples |-> 1, min_successful_baseline |-> 1, baseline_degraded_rate |-> 20,
   latency_pct |-> 50, latency_floor_ms |-> 50, error_delta |-> 5, min_failures |-> 1]

(* A good answer, and one of another status than expected, as fast. *)
MCSample == [success : BOOLEAN, latency_ms : {100}]

MCOverrides == [e \in Endpoint |-> [latency_pct |-> NULL]]
=============================================================================
