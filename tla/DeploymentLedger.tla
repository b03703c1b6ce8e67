--------------------------- MODULE DeploymentLedger ---------------------------
(***************************************************************************)
(* What POST /webhooks/deployments promises its senders, with no           *)
(* database, replica or statement in sight: a deployment is recorded at    *)
(* most once, by the request that is told "created"; any other request     *)
(* about it is told "duplicate", and only once it is recorded; a request   *)
(* that fails may or may not have recorded it.                             *)
(***************************************************************************)
CONSTANTS
  Request,
  Key,      \* deployment identities, (source, external_id)
  None

VARIABLES
  about,    \* the deployment a request reports, None before it is made
  recorded, \* the request that recorded a deployment, or None
  outcome   \* what each request was told

vars == <<about, recorded, outcome>>

Outcome == {"open", "created", "duplicate", "failed"}

TypeOK ==
  /\ about \in [Request -> Key \cup {None}]
  /\ recorded \in [Key -> Request \cup {None}]
  /\ outcome \in [Request -> Outcome]

Init ==
  /\ about = [r \in Request |-> None]
  /\ recorded = [k \in Key |-> None]
  /\ outcome = [r \in Request |-> "open"]

Open(r) == about[r] \in Key /\ outcome[r] = "open"

Tell(r, what) == outcome' = [outcome EXCEPT ![r] = what]

Ask(r, k) ==
  /\ about[r] = None
  /\ about' = [about EXCEPT ![r] = k]
  /\ UNCHANGED <<recorded, outcome>>

Record(r) ==
  /\ Open(r)
  /\ recorded[about[r]] = None
  /\ recorded' = [recorded EXCEPT ![about[r]] = r]
  /\ outcome' \in {outcome, [outcome EXCEPT ![r] = "failed"]}
  /\ UNCHANGED about

Confirm(r) ==
  /\ Open(r)
  /\ recorded[about[r]] = r
  /\ Tell(r, "created")
  /\ UNCHANGED <<about, recorded>>

Acknowledge(r) ==
  /\ Open(r)
  /\ recorded[about[r]] \notin {None, r}
  /\ Tell(r, "duplicate")
  /\ UNCHANGED <<about, recorded>>

Fail(r) ==
  /\ Open(r)
  /\ Tell(r, "failed")
  /\ UNCHANGED <<about, recorded>>

Next ==
  \E r \in Request :
    \/ \E k \in Key : Ask(r, k)
    \/ Record(r)
    \/ Confirm(r)
    \/ Acknowledge(r)
    \/ Fail(r)

Spec == Init /\ [][Next]_vars
=============================================================================
