------------------------------ MODULE MCRegistry ------------------------------
(***************************************************************************)
(* One URL that two admins may register, change and delete: a column that  *)
(* is NOT NULL (enabled), an override, and requests for each alone, for    *)
(* both, and with explicit nulls.                                          *)
(***************************************************************************)
EXTENDS Registry, TLC

CONSTANTS enabled, latency_pct, low, high

MCServiceOf == [i \in Identity |-> CHOOSE s \in Service : TRUE]

MCSettings == {[c \in Column |-> low]}

MCChanges ==
  {(enabled :> high), (enabled :> low), (enabled :> NULL),
   (latency_pct :> high), (latency_pct :> NULL),
   (enabled :> high) @@ (latency_pct :> high)}

Symmetry == Permutations(Request) \cup Permutations(EndpointId)
=============================================================================
