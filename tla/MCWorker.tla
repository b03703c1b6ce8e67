------------------------------- MODULE MCWorker -------------------------------
(***************************************************************************)
(* Two endpoints and one more connection: one check, one thread and        *)
(* reconcile can empty the pool when the other check loads its row.        *)
(***************************************************************************)
EXTENDS Worker

=============================================================================
