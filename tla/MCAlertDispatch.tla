--------------------------- MODULE MCAlertDispatch ---------------------------
(* Two incidents: one waits in the batch while the other is being sent.    *)
(* Incidents are symmetric, but liveness is checked beside the safety      *)
(* properties, so the symmetry is not used.                                *)
EXTENDS AlertDispatch
=============================================================================
