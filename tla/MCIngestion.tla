----------------------------- MODULE MCIngestion -----------------------------
(* Two API replicas; one deployment reported by two different deliveries   *)
(* (a CI rerun signing a fresh request), each of which may be retried.     *)
EXTENDS Ingestion, TLC

CONSTANTS e1, e2, k1, s1

MCKeyOf == (e1 :> k1) @@ (e2 :> k1)
MCServiceOf == [k \in Key |-> s1]
=============================================================================
