--------------------------- MODULE MCEndpointVerdict ---------------------------
(* Every pair of small windows, evaluated once with every override. *)
EXTENDS EndpointVerdict, TLC

CONSTANT MaxChecks  \* longest window

Window == UNION {[1..n -> Sample] : n \in 0..MaxChecks}

(* Windows as multisets: failures first, those without an answer before    *)
(* the others, then by latency.                                            *)
Rank(c) ==
  CASE c.latency_ms = NULL -> -2
    [] c.latency_ms # NULL /\ ~ c.success -> -1
    [] c.success -> c.latency_ms
Ordered(w) == \A i \in 1..(Len(w) - 1) : Rank(w[i]) <= Rank(w[i + 1])

MCBaselines == {w \in Window : Ordered(w)}

(* The code's thresholds, with the sample counts scaled down to the windows. *)
MCThresholds ==
  [min_samples |-> 2, min_successful_baseline |-> 1, baseline_degraded_rate |-> 60,
   latency_pct |-> 50, latency_floor_ms |-> 50, error_delta |-> 25, min_failures |-> 2]

MCOverrides ==
  {[latency_pct |-> NULL]} \cup {field :> 0 : field \in {"error_delta", "latency_floor_ms"}}

MCNoOverride == {[latency_pct |-> NULL]}
=============================================================================
