----------------------------- MODULE ReleasePulse -----------------------------
(***************************************************************************)
(* The whole, from the webhook to the chat: the webhook as its senders see *)
(* it (DeploymentLedger, which Ingestion implements), the detector and the *)
(* alert outbox over the tables they share.  A deployment row is committed *)
(* by the webhook and found by the detector, an incident is committed by   *)
(* the detector and found by the outbox; detector and outbox run in one    *)
(* worker process and die with it.  Everything else interleaves.           *)
(***************************************************************************)
EXTENDS Naturals

CONSTANTS
  Request,     \* webhook requests
  Deployment,  \* deployment identities, which are also those of incidents
  Endpoint, Evaluator, Defaults, Overrides, Sample, MaxPast, MaxFuture,
  MaxTime,     \* see Detector
  MaxAttempts, MaxResets,  \* see AlertDispatch
  MaxFaults,   \* bound on the faults of detector and outbox, for each
  NULL

VARIABLES
  about, recorded, outcome,           \* the webhook's requests
  now, effective, verdict, rows, incidents, enabled, checks, stamped,
  evaluator, due, evaluated, horizon, todo, results, known, judged,
  evaluator_faults,                   \* the detector
  alert, attempts, dispatcher, batch, loaded, sending, channel, delivered,
  resets, noted, dispatcher_faults    \* the outbox

Ledger == INSTANCE DeploymentLedger WITH Key <- Deployment, None <- NULL

Detector == INSTANCE Detector WITH
  status <- verdict, pc <- evaluator, current <- evaluated, faults <- evaluator_faults

Outbox == INSTANCE AlertDispatch WITH
  Incident <- Deployment, None <- NULL,
  status <- alert, pc <- dispatcher, current <- sending, faults <- dispatcher_faults

(* What the detector and the outbox assume of their constants. *)
ASSUME PulseAssumption ==
  Detector!DetectorAssumption /\ Outbox!DispatchAssumption

requests == <<about, recorded, outcome>>
watch == <<now, effective, verdict, rows, enabled, checks, stamped, evaluator, due,
           evaluated, horizon, todo, results, known, judged, evaluator_faults>>
outbox == <<alert, attempts, dispatcher, batch, loaded, sending, channel, delivered,
            resets, noted, dispatcher_faults>>
vars == <<requests, watch, incidents, outbox>>

Init == Ledger!Init /\ Detector!Init /\ Outbox!Init

-----------------------------------------------------------------------------

(* The commit of the webhook's transaction is the detector's new row. *)
Report(r) ==
  /\ Ledger!Record(r)
  /\ \E reported \in Detector!Time \cup {NULL} : Detector!Ingest(about[r], reported)
  /\ UNCHANGED outbox

Answer(r) ==
  /\ \/ \E d \in Deployment : Ledger!Ask(r, d)
     \/ Ledger!Confirm(r)
     \/ Ledger!Acknowledge(r)
     \/ Ledger!Fail(r)
  /\ UNCHANGED <<watch, incidents, outbox>>

(* The commit of a verdict is the outbox's new incident, or none. *)
Judge(v) ==
  /\ Detector!CommitVerdict(v)
  /\ \/ incidents' = incidents /\ UNCHANGED outbox
     \/ incidents' # incidents /\ Outbox!OpenIncident(evaluated[v])
  /\ UNCHANGED requests

Evaluate(v) ==
  \/ Judge(v)
  \/ /\ \/ Detector!StartBatch(v)
        \/ \E d \in Deployment : Detector!Pick(v, d)
        \/ Detector!EndBatch(v)
        \/ Detector!ReadHorizon(v)
        \/ Detector!ReadEndpoints(v)
        \/ \E e \in Endpoint : Detector!JudgeEndpoint(v, e)
        \/ Detector!LoseRace(v)
     /\ UNCHANGED <<requests, outbox>>

ClockAdvances == Detector!ClockAdvances /\ UNCHANGED <<requests, outbox>>

(* Endpoints change, checks are made, and an evaluation may fail. *)
World ==
  /\ \/ \E e \in Endpoint :
          \/ Detector!ChangeEndpoint(e)
          \/ \E sample \in Sample : Detector!StampCheck(e, sample)
     \/ Detector!CommitCheck
     \/ \E v \in Evaluator : Detector!EvaluationFails(v)
  /\ UNCHANGED <<requests, outbox>>

Dispatch == Outbox!Dispatch /\ UNCHANGED <<requests, watch>>

Operate ==
  /\ \/ Outbox!SwitchChannel
     \/ \E d \in Deployment : Outbox!NoteStuck(d) \/ Outbox!ResetAttempts(d)
     \/ Outbox!AbortRun  \* a commit of the outbox fails
  /\ UNCHANGED <<requests, watch>>

(* One process: its evaluators and its dispatcher die together. *)
WorkerDies ==
  /\ Detector!WorkerCrashes
  /\ \/ Outbox!AbortRun
     \/ dispatcher = "idle" /\ UNCHANGED outbox
  /\ UNCHANGED requests

Next ==
  \/ \E r \in Request : Report(r) \/ Answer(r)
  \/ \E v \in Evaluator : Evaluate(v)
  \/ ClockAdvances
  \/ World
  \/ Dispatch
  \/ Operate
  \/ WorkerDies

Spec == Init /\ [][Next]_vars

(* Time passes and the worker's two jobs keep running. *)
FairSpec ==
  /\ Spec
  /\ WF_vars(ClockAdvances)
  /\ \A v \in Evaluator : WF_vars(Evaluate(v))
  /\ WF_vars(Dispatch)

-----------------------------------------------------------------------------

(* The verdict as the outside knows it. *)
VerdictOn(d) ==
  IF effective[d] = NULL THEN "unreported"
  ELSE IF verdict[d] = "pending" THEN "pending"
  ELSE IF verdict[d] = "evaluated_regression" THEN "blamed" ELSE "not blamed"

Watch == INSTANCE ReleaseWatch WITH
  Limit <- MaxAttempts,
  verdict <- [d \in Deployment |-> VerdictOn(d)],
  messages <- delivered,
  confirmed <- {d \in Deployment : alert[d] = "sent"},
  grants <- resets

(***************************************************************************)
(* Through crashes, retries, lost answers and late reports the whole does  *)
(* what ReleaseWatch says: one verdict per deployment, messages only about *)
(* the blamed, a bounded number of them, none after one is confirmed       *)
(* unless an operator grants new attempts.                                 *)
(***************************************************************************)
ImplementsReleaseWatch == Watch!Spec

(***************************************************************************)
(* The chat hears of a deployment only once its observation window is over *)
(* and a row says which endpoint regressed: what it says can be read back, *)
(* whatever crashes, races and resets lie between the row and the message. *)
(***************************************************************************)
MessagesHaveFindings ==
  \A d \in Deployment :
    delivered[d] > 0 =>
      /\ effective[d] # NULL /\ Detector!WindowCloses(effective[d]) <= now
      /\ \E r \in rows : /\ r.deployment = d
                         /\ r.outcome \in Detector!RegressionOutcomes

(***************************************************************************)
(* No deployment is forgotten on its way through three components: one     *)
(* that is reported is judged, and if it is blamed, the chat is told or    *)
(* every attempt was made.                                                 *)
(***************************************************************************)
EveryReleaseIsSettled ==
  \A d \in Deployment :
    effective[d] # NULL ~>
      \/ VerdictOn(d) = "not blamed"
      \/ alert[d] = "sent"
      \/ VerdictOn(d) = "blamed" /\ attempts[d] = MaxAttempts
=============================================================================
