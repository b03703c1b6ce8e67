-------------------------- MODULE ReleasePulseProofs --------------------------
(***************************************************************************)
(* The whole does what ReleaseWatch says, for any requests, deployments,   *)
(* endpoints, windows, attempts, faults and resets, with one evaluator.    *)
(* The outbox's proofs and the detector's are instances over the variables *)
(* of the whole, so that what is proved of each alone serves within it.    *)
(***************************************************************************)
EXTENDS ReleasePulse, TLAPS

Alerts == INSTANCE AlertDispatchProofs WITH
  Incident <- Deployment, None <- NULL,
  status <- alert, pc <- dispatcher, current <- sending,
  faults <- dispatcher_faults

Judged == INSTANCE DetectorProofs WITH
  status <- verdict, pc <- evaluator, current <- evaluated,
  faults <- evaluator_faults

(* See DetectorProofs. *)
OneEvaluator == \A v, w \in Evaluator : v = w

(* What ReleaseWatch sees of the outbox. *)
Seen == <<delivered, {i \in Deployment : alert[i] = "sent"}, resets>>

(* The outbox only ever touches and announces incidents. *)
AlertInv ==
  \A i \in Deployment :
    (alert[i] # "none" \/ i \in batch \/ sending = i \/ delivered[i] > 0)
      => i \in incidents

Judging(v) == evaluator[v] \in {"horizon", "endpoints", "judge"}

(* What the detector's invariant says of what the outbox and ReleaseWatch  *)
(* see: what is being judged was reported and has no verdict yet, what has *)
(* a verdict was reported, what has an incident was blamed.                *)
WatchInv ==
  /\ now \in 0..MaxTime
  /\ effective \in [Deployment -> 0..MaxTime \cup {NULL}]
  /\ verdict \in [Deployment -> Detector!Verdicts \cup {"pending"}]
  /\ \A v \in Evaluator : Judging(v) =>
       /\ evaluated[v] \in Deployment
       /\ effective[evaluated[v]] # NULL
       /\ verdict[evaluated[v]] = "pending"
  /\ \A i \in Deployment : effective[i] = NULL => verdict[i] = "pending"
  /\ \A i \in incidents :
       i \in Deployment /\ verdict[i] = "evaluated_regression"

(* The outbox's invariant, the detector's, and what ties them. *)
PulseInv == Alerts!IInv /\ AlertInv /\ Judged!SingleInv

-----------------------------------------------------------------------------

(* What the parts assume of their constants, in both their instances. *)
LEMMA PartAssumptions ==
  Judged!DetectorAssumption /\ Alerts!DispatchAssumption
BY PulseAssumption
   DEF PulseAssumption, Detector!DetectorAssumption,
       Judged!DetectorAssumption, Outbox!DispatchAssumption,
       Alerts!DispatchAssumption, Detector!Check, Judged!Check,
       Detector!Basis, Judged!Basis, Detector!Time, Judged!Time

(* The two instances of the outbox, ReleasePulse's and the one with its    *)
(* proofs, are the same.                                                   *)
LEMMA SameOutbox ==
  /\ Outbox!Init <=> Alerts!Init
  /\ Outbox!Dispatch <=> Alerts!Dispatch
  /\ Outbox!SwitchChannel <=> Alerts!SwitchChannel
  /\ Outbox!AbortRun <=> Alerts!AbortRun
  /\ \A i \in Deployment :
       /\ Outbox!OpenIncident(i) <=> Alerts!OpenIncident(i)
       /\ Outbox!NoteStuck(i) <=> Alerts!NoteStuck(i)
       /\ Outbox!ResetAttempts(i) <=> Alerts!ResetAttempts(i)
  /\ [Outbox!Next]_Outbox!vars <=> [Alerts!Next]_Alerts!vars
<1> USE DEF Outbox!rows, Alerts!rows, Outbox!Fault, Alerts!Fault
<1>1. Outbox!Init <=> Alerts!Init
  BY DEF Outbox!Init, Alerts!Init
<1>2. Outbox!Dispatch <=> Alerts!Dispatch
  BY DEF Outbox!Dispatch, Alerts!Dispatch, Outbox!StartRun,
     Alerts!StartRun, Outbox!Due, Alerts!Due, Outbox!Attempt,
     Alerts!Attempt, Outbox!EndRun, Alerts!EndRun, Outbox!Deliver,
     Alerts!Deliver, Outbox!Arrive, Alerts!Arrive, Outbox!Reject,
     Alerts!Reject, Outbox!DeliverUnconfirmed,
     Alerts!DeliverUnconfirmed, Outbox!MarkSent, Alerts!MarkSent,
     Outbox!MarkFailed, Alerts!MarkFailed, Outbox!Mark, Alerts!Mark
<1>3. /\ Outbox!SwitchChannel <=> Alerts!SwitchChannel
      /\ Outbox!AbortRun <=> Alerts!AbortRun
  BY DEF Outbox!SwitchChannel, Alerts!SwitchChannel, Outbox!AbortRun,
     Alerts!AbortRun
<1>4. \A i \in Deployment :
        /\ Outbox!OpenIncident(i) <=> Alerts!OpenIncident(i)
        /\ Outbox!NoteStuck(i) <=> Alerts!NoteStuck(i)
        /\ Outbox!ResetAttempts(i) <=> Alerts!ResetAttempts(i)
  BY DEF Outbox!OpenIncident, Alerts!OpenIncident, Outbox!NoteStuck,
     Alerts!NoteStuck, Outbox!ResetAttempts, Alerts!ResetAttempts
<1>5. Outbox!Next <=> Alerts!Next
  BY <1>2, <1>3, <1>4 DEF Outbox!Next, Alerts!Next
<1>6. UNCHANGED Outbox!vars <=> UNCHANGED Alerts!vars
  BY DEF Outbox!vars, Alerts!vars
<1> QED
  BY <1>1, <1>2, <1>3, <1>4, <1>5, <1>6

(* The steps of the outbox other than a new incident. *)
OutboxActs ==
  \/ Alerts!Dispatch \/ Alerts!SwitchChannel \/ Alerts!AbortRun
  \/ \E i \in Deployment : Alerts!NoteStuck(i) \/ Alerts!ResetAttempts(i)

(* The steps of the detector other than a report and a verdict: no verdict *)
(* is given and nothing is reported.                                       *)
Quiet ==
  /\ UNCHANGED <<effective, verdict, incidents>>
  /\ outbox' = outbox

(* The steps of the whole, by what they do to the outbox and to what       *)
(* ReleaseWatch sees.                                                      *)
LEMMA Steps ==
  ASSUME Next
  PROVE  \/ \E r \in Request : Report(r)
         \/ \E v \in Evaluator : Judge(v)
         \/ Quiet
         \/ OutboxActs /\ UNCHANGED <<effective, verdict>>
         \/ WorkerDies
<1> USE DEF Detector!tables, Detector!writes, Detector!locals
<1>1. ASSUME NEW r \in Request, Answer(r) PROVE Quiet
  BY <1>1 DEF Answer, watch, outbox, Quiet
<1>2. ASSUME NEW v \in Evaluator, Evaluate(v), ~ Judge(v) PROVE Quiet
  BY <1>2 DEF Evaluate, Quiet, Detector!StartBatch, Detector!Pick,
     Detector!EndBatch, Detector!ReadHorizon,
     Detector!ReadEndpoints, Detector!JudgeEndpoint,
     Detector!LoseRace
<1>3. CASE ClockAdvances
  BY <1>3 DEF ClockAdvances, Detector!ClockAdvances, Quiet
<1>4. CASE World
  BY <1>4 DEF World, Quiet, Detector!EvaluationFails,
     Detector!ChangeEndpoint, Detector!StampCheck,
     Detector!CommitCheck
<1>5. CASE Dispatch \/ Operate
  BY <1>5, SameOutbox DEF Dispatch, Operate, OutboxActs, watch
<1> QED
  BY <1>1, <1>2, <1>3, <1>4, <1>5 DEF Next

-----------------------------------------------------------------------------

(* The two instances of the detector, ReleasePulse's and the one with its  *)
(* proofs, are the same, down to the library's operators.                  *)
LEMMA SameCardinality ==
  \A S : Detector!Cardinality(S) = Judged!Cardinality(S)
BY DEF Detector!Cardinality, Judged!Cardinality,
   Detector!IsFiniteSet, Judged!IsFiniteSet

(* The verdict on two windows. *)
LEMMA SameOutcome ==
  \A b, o, t : Detector!Outcome(b, o, t) = Judged!Outcome(b, o, t)
<1>1. \A w : Detector!FailedChecks(w) = Judged!FailedChecks(w)
  BY SameCardinality DEF Detector!FailedChecks, Judged!FailedChecks
<1>2. \A w : Detector!Measured(w) = Judged!Measured(w)
  BY DEF Detector!Measured, Judged!Measured
<1>3. \A w, k : Detector!KthSmallest(w, k) = Judged!KthSmallest(w, k)
  BY <1>2, SameCardinality DEF Detector!KthSmallest, Judged!KthSmallest
<1>4. \A w : Detector!Median(w) = Judged!Median(w)
  BY <1>2, <1>3, SameCardinality DEF Detector!Median, Judged!Median
<1>5. \A b, o, t : Detector!LatencyRegressed(b, o, t)
                     <=> Judged!LatencyRegressed(b, o, t)
  BY <1>4 DEF Detector!LatencyRegressed, Judged!LatencyRegressed,
     Detector!LatencyEligible, Judged!LatencyEligible,
     Detector!LatencyRises, Judged!LatencyRises
<1>6. \A b, o, t : Detector!ErrorRegressed(b, o, t)
                     <=> Judged!ErrorRegressed(b, o, t)
  BY <1>1 DEF Detector!ErrorRegressed, Judged!ErrorRegressed,
     Detector!ErrorEligible, Judged!ErrorEligible,
     Detector!RateBelow, Judged!RateBelow,
     Detector!RateRisesBy, Judged!RateRisesBy
<1> QED
  BY <1>1, <1>4, <1>5, <1>6 DEF Detector!Outcome, Judged!Outcome,
     Detector!LatencyEligible, Judged!LatencyEligible,
     Detector!ErrorEligible, Judged!ErrorEligible,
     Detector!RateBelow, Judged!RateBelow

(* The row of an endpoint. *)
LEMMA SameRow ==
  \A v, e : Detector!RowFor(v, e) = Judged!RowFor(v, e)
<1>1. \A S : Detector!SetToSeq(S) = Judged!SetToSeq(S)
  BY SameCardinality
     DEF Detector!SetToSeq, Judged!SetToSeq, Detector!IsInjective,
     Judged!IsInjective
<1> QED
  BY <1>1, SameCardinality, SameOutcome
     DEF Detector!RowFor, Judged!RowFor, Detector!Truncated,
     Judged!Truncated, Detector!WindowChecks, Judged!WindowChecks,
     Detector!WindowCloses, Judged!WindowCloses,
     Detector!MergeThresholds, Judged!MergeThresholds

(* The initial state and the steps. *)
LEMMA SameDetector ==
  /\ Detector!Init <=> Judged!Init
  /\ [Detector!Next]_Detector!vars <=> [Judged!Next]_Judged!vars
<1> USE DEF Detector!tables, Judged!tables, Detector!writes,
        Judged!writes, Detector!locals, Judged!locals,
        Detector!Time, Judged!Time
<1>1. Detector!Init <=> Judged!Init
  BY DEF Detector!Init, Judged!Init
<1>2. UNCHANGED Detector!vars <=> UNCHANGED Judged!vars
  BY DEF Detector!vars, Judged!vars
<1>3. Detector!Environment <=> Judged!Environment
  BY DEF Detector!Environment, Judged!Environment, Detector!Ingest,
     Judged!Ingest, Detector!EffectiveDeployedAt,
     Judged!EffectiveDeployedAt, Detector!WindowCloses,
     Judged!WindowCloses, Detector!ChangeEndpoint,
     Judged!ChangeEndpoint, Detector!StampCheck, Judged!StampCheck,
     Detector!CommitCheck, Judged!CommitCheck,
     Detector!ClockAdvances, Judged!ClockAdvances
<1>4. \A S : Detector!Min(S) = Judged!Min(S)
  BY DEF Detector!Min, Judged!Min
<1>5. ASSUME NEW v \in Evaluator
      PROVE  Detector!Evaluate(v) <=> Judged!Evaluate(v)
  <2>1. /\ Detector!StartBatch(v) <=> Judged!StartBatch(v)
        /\ \A d \in Deployment : Detector!Pick(v, d) <=> Judged!Pick(v, d)
        /\ Detector!EndBatch(v) <=> Judged!EndBatch(v)
    BY DEF Detector!StartBatch, Judged!StartBatch, Detector!Due,
       Judged!Due, Detector!Pick, Judged!Pick,
       Detector!EndBatch, Judged!EndBatch
  <2>2. Detector!ReadHorizon(v) <=> Judged!ReadHorizon(v)
    BY <1>4 DEF Detector!ReadHorizon, Judged!ReadHorizon,
       Detector!ObservationEnd, Judged!ObservationEnd,
       Detector!NewerTimes, Judged!NewerTimes,
       Detector!WindowCloses, Judged!WindowCloses
  <2>3. Detector!ReadEndpoints(v) <=> Judged!ReadEndpoints(v)
    BY DEF Detector!ReadEndpoints, Judged!ReadEndpoints
  <2>4. \A e \in Endpoint : Detector!JudgeEndpoint(v, e)
                            <=> Judged!JudgeEndpoint(v, e)
    BY SameRow DEF Detector!JudgeEndpoint, Judged!JudgeEndpoint,
       Detector!RowTaken, Judged!RowTaken
  <2>5. \A found : Detector!Verdict(found) = Judged!Verdict(found)
    BY DEF Detector!Verdict, Judged!Verdict, Detector!Found,
       Judged!Found, Detector!RegressionOutcomes,
       Judged!RegressionOutcomes
  <2>6. /\ Detector!CommitVerdict(v) <=> Judged!CommitVerdict(v)
        /\ Detector!LoseRace(v) <=> Judged!LoseRace(v)
    BY <2>5 DEF Detector!CommitVerdict, Judged!CommitVerdict,
       Detector!LoseRace, Judged!LoseRace, Detector!Ready,
       Judged!Ready, Detector!Conflict, Judged!Conflict,
       Detector!RowTaken, Judged!RowTaken, Detector!Leave,
       Judged!Leave
  <2> QED
    BY <2>1, <2>2, <2>3, <2>4, <2>6 DEF Detector!Evaluate, Judged!Evaluate
<1>6. ASSUME NEW v \in Evaluator
      PROVE  Detector!EvaluationFails(v) <=> Judged!EvaluationFails(v)
  BY DEF Detector!EvaluationFails, Judged!EvaluationFails,
     Detector!Fault, Judged!Fault, Detector!Leave, Judged!Leave
<1>7. Detector!WorkerCrashes <=> Judged!WorkerCrashes
  BY DEF Detector!WorkerCrashes, Judged!WorkerCrashes,
     Detector!Fault, Judged!Fault
<1>8. Detector!Next <=> Judged!Next
  BY <1>3, <1>5, <1>6, <1>7 DEF Detector!Next, Judged!Next
<1> QED
  BY <1>1, <1>2, <1>8

(* Every step of the whole is one of the detector, or none of its          *)
(* business.                                                               *)
LEMMA DetectorMoves ==
  ASSUME Next \/ UNCHANGED vars
  PROVE  [Detector!Next]_Detector!vars
<1> USE DEF Detector!tables, Detector!writes, Detector!locals
<1>1. ASSUME NEW r \in Request, Report(r) PROVE Detector!Next
  BY <1>1 DEF Report, Ledger!Record, Ledger!Open,
     Detector!Next, Detector!Environment
<1>2. ASSUME NEW v \in Evaluator, Evaluate(v) PROVE Detector!Next
  <2>1. Detector!Evaluate(v)
    BY <1>2 DEF Evaluate, Judge, Detector!Evaluate
  <2> QED
    BY <2>1 DEF Detector!Next
<1>3. CASE ClockAdvances
  BY <1>3 DEF ClockAdvances, Detector!Next, Detector!Environment
<1>4. CASE World
  BY <1>4 DEF World, Detector!Next, Detector!Environment
<1>5. CASE WorkerDies
  BY <1>5 DEF WorkerDies, Detector!Next
<1>6. CASE /\ watch' = watch
           /\ incidents' = incidents
  BY <1>6 DEF watch, Detector!vars
<1>7. ASSUME NEW r \in Request, Answer(r)
      PROVE  watch' = watch /\ incidents' = incidents
  BY <1>7 DEF Answer
<1>8. CASE Dispatch \/ Operate
  <2>1. incidents' = incidents
    BY <1>8 DEF Dispatch, Operate, Outbox!Dispatch,
       Outbox!StartRun, Outbox!Attempt, Outbox!EndRun,
       Outbox!Deliver, Outbox!Reject, Outbox!DeliverUnconfirmed,
       Outbox!MarkSent, Outbox!MarkFailed, Outbox!Mark,
       Outbox!SwitchChannel, Outbox!NoteStuck, Outbox!ResetAttempts,
       Outbox!AbortRun
  <2>2. watch' = watch
    BY <1>8 DEF Dispatch, Operate
  <2> QED
    BY <1>6, <2>1, <2>2
<1>9. CASE UNCHANGED vars
  BY <1>6, <1>9 DEF vars
<1> QED
  BY <1>1, <1>2, <1>3, <1>4, <1>5, <1>6, <1>7, <1>8, <1>9 DEF Next

(* Every step of the whole is one of the webhook's ledger, or none. *)
LEMMA LedgerMoves ==
  ASSUME Next \/ UNCHANGED vars
  PROVE  [Ledger!Next]_Ledger!vars
<1> USE DEF requests, Ledger!vars
<1>1. ASSUME NEW r \in Request, Report(r) \/ Answer(r)
      PROVE  Ledger!Next
  BY <1>1 DEF Report, Answer, Ledger!Next
<1>2. ASSUME NEW v \in Evaluator, Evaluate(v)
      PROVE  requests' = requests
  BY <1>2 DEF Evaluate, Judge
<1>3. CASE ClockAdvances \/ World \/ Dispatch
  BY <1>3 DEF ClockAdvances, World, Dispatch
<1>4. CASE Operate \/ WorkerDies
  BY <1>4 DEF Operate, WorkerDies
<1>5. CASE UNCHANGED vars
  BY <1>5 DEF vars
<1> QED
  BY <1>1, <1>2, <1>3, <1>4, <1>5 DEF Next

(* What the detector's invariant says where its table is shared. *)
LEMMA WatchFacts ==
  ASSUME Judged!SingleInv
  PROVE  WatchInv
<1> USE DEF Judged!SingleInv, Judged!IInv
<1>1. /\ now \in 0..MaxTime
      /\ effective \in [Deployment -> 0..MaxTime \cup {NULL}]
      /\ verdict \in [Deployment -> Detector!Verdicts \cup {"pending"}]
      /\ incidents \subseteq Deployment
  BY DEF Judged!TypeOK, Judged!Time, Judged!Verdicts, Detector!Verdicts
<1>2. ASSUME NEW v \in Evaluator, Judging(v)
      PROVE  /\ evaluated[v] \in Deployment
             /\ effective[evaluated[v]] # NULL
             /\ verdict[evaluated[v]] = "pending"
  BY <1>2 DEF Judging, Judged!Judging, Judged!EvaluatorInv, Judged!Over
<1>3. ASSUME NEW i \in Deployment, effective[i] = NULL
      PROVE  verdict[i] = "pending"
  BY <1>3 DEF Judged!VerdictInv, Judged!Window, Judged!Over
<1>4. \A i \in incidents : verdict[i] = "evaluated_regression"
  BY <1>1 DEF Judged!IncidentMatchesVerdict
<1> QED
  BY <1>1, <1>2, <1>3, <1>4 DEF WatchInv

(* A verdict of the detector. *)
LEMMA JudgeFacts ==
  ASSUME NEW v \in Evaluator, Judge(v), WatchInv
  PROVE  /\ Judging(v)
         /\ \E given \in Detector!Verdicts :
              /\ verdict' = [verdict EXCEPT ![evaluated[v]] = given]
              /\ incidents' = IF given = "evaluated_regression"
                              THEN incidents \cup {evaluated[v]}
                              ELSE incidents
         /\ effective' = effective
         /\ outbox' = outbox
         /\ incidents' = incidents \/ Alerts!OpenIncident(evaluated[v])
<1>1. Detector!Verdict(results[v]) \in Detector!Verdicts
  BY DEF Detector!Verdict, Detector!Verdicts
<1>2. /\ Judging(v)
      /\ verdict' =
           [verdict EXCEPT ![evaluated[v]] = Detector!Verdict(results[v])]
      /\ incidents' = IF Detector!Verdict(results[v]) = "evaluated_regression"
                        THEN incidents \cup {evaluated[v]} ELSE incidents
      /\ effective' = effective
  BY DEF Judge, Detector!CommitVerdict, Detector!Ready,
     Detector!Leave, Judging
<1>3. /\ outbox' = outbox
      /\ incidents' = incidents \/ Alerts!OpenIncident(evaluated[v])
  BY DEF Judge, Outbox!OpenIncident, Alerts!OpenIncident, Outbox!rows,
     Alerts!rows, outbox
<1> QED
  BY <1>1, <1>2, <1>3

(* Every step of the whole is one of the outbox, or none of its business. *)
LEMMA OutboxMoves ==
  ASSUME Next \/ UNCHANGED vars, WatchInv
  PROVE  [Alerts!Next]_Alerts!vars
<1> USE DEF outbox, Alerts!vars
<1>1. ASSUME NEW r \in Request, Report(r) PROVE [Alerts!Next]_Alerts!vars
  BY <1>1 DEF Report, Detector!Ingest
<1>2. ASSUME NEW v \in Evaluator, Judge(v) PROVE [Alerts!Next]_Alerts!vars
  <2>1. CASE incidents' = incidents
    BY <1>2, <2>1, JudgeFacts
  <2>2. CASE Alerts!OpenIncident(evaluated[v])
    <3>1. evaluated[v] \in Deployment
      BY <1>2, JudgeFacts DEF WatchInv
    <3> QED
      BY <2>2, <3>1 DEF Alerts!Next
  <2> QED
    BY <1>2, <2>1, <2>2, JudgeFacts
<1>3. CASE Quiet
  BY <1>3 DEF Quiet
<1>4. CASE OutboxActs
  BY <1>4 DEF OutboxActs, Alerts!Next
<1>5. CASE WorkerDies
  BY <1>5 DEF WorkerDies, Detector!WorkerCrashes, Detector!tables,
     Outbox!AbortRun, Alerts!AbortRun, Outbox!Fault, Alerts!Fault, Outbox!rows,
     Alerts!rows, Alerts!Next
<1>6. CASE UNCHANGED vars
  BY <1>6 DEF vars
<1> QED
  BY <1>1, <1>2, <1>3, <1>4, <1>5, <1>6, Steps

(* The outbox proved alone is the outbox within the whole. *)
LEMMA OutboxStep ==
  ASSUME Next \/ UNCHANGED vars, Alerts!IInv, WatchInv
  PROVE  Alerts!IInv'
BY PartAssumptions, OutboxMoves, Alerts!TypeStep, Alerts!BatchStep,
   Alerts!NotedStep, Alerts!RowStep, Alerts!CountStep, Alerts!DeliveredStep DEF Alerts!IInv

(* No alert without an incident. *)
LEMMA AlertStep ==
  ASSUME [Alerts!Next]_Alerts!vars, Alerts!IInv, AlertInv
  PROVE  AlertInv'
<1> SUFFICES ASSUME NEW i \in Deployment,
                    \/ alert'[i] # "none" \/ i \in batch'
                    \/ sending' = i \/ delivered'[i] > 0
             PROVE  i \in incidents'
  BY DEF AlertInv
<1> USE PartAssumptions
    DEF Alerts!DispatchAssumption, AlertInv, Alerts!IInv, Alerts!TypeOK,
        Alerts!rows
<1>1. CASE Alerts!StartRun
  BY <1>1 DEF Alerts!StartRun, Alerts!Due
<1>2. ASSUME NEW j \in Deployment, Alerts!Attempt(j) PROVE i \in incidents'
  BY <1>2 DEF Alerts!Attempt
<1>3. CASE Alerts!EndRun \/ Alerts!Reject \/ Alerts!SwitchChannel
  BY <1>3 DEF Alerts!EndRun, Alerts!Reject, Alerts!SwitchChannel
<1>4. CASE Alerts!Deliver \/ Alerts!DeliverUnconfirmed
  BY <1>4 DEF Alerts!Deliver, Alerts!DeliverUnconfirmed, Alerts!Arrive,
     Alerts!CurrentInv, Alerts!Busy
<1>5. CASE Alerts!MarkSent \/ Alerts!MarkFailed
  BY <1>5 DEF Alerts!MarkSent, Alerts!MarkFailed, Alerts!Mark
<1>6. CASE Alerts!AbortRun
  BY <1>6 DEF Alerts!AbortRun
<1>7. ASSUME NEW j \in Deployment, Alerts!OpenIncident(j)
      PROVE  i \in incidents'
  BY <1>7 DEF Alerts!OpenIncident
<1>8. ASSUME NEW j \in Deployment,
             Alerts!NoteStuck(j) \/ Alerts!ResetAttempts(j)
      PROVE  i \in incidents'
  BY <1>8 DEF Alerts!NoteStuck, Alerts!ResetAttempts, Alerts!NotedInv
<1>9. CASE UNCHANGED Alerts!vars
  BY <1>9 DEF Alerts!vars
<1> QED
  BY <1>1, <1>2, <1>3, <1>4, <1>5, <1>6, <1>7, <1>8, <1>9
     DEF Alerts!Next, Alerts!Dispatch

(* A report makes a deployment known and changes nothing else that counts. *)
LEMMA ReportFacts ==
  ASSUME NEW r \in Request, Report(r), WatchInv
  PROVE  /\ effective[about[r]] = NULL
         /\ \E t \in 0..MaxTime :
              effective' = [effective EXCEPT ![about[r]] = t]
         /\ UNCHANGED verdict
         /\ outbox' = outbox
<1>1. PICK reported \in Detector!Time \cup {NULL} :
        Detector!Ingest(about[r], reported)
  BY DEF Report
<1> DEFINE t == Detector!EffectiveDeployedAt(reported, now)
<1>2. t \in 0..MaxTime
  BY DEF Detector!EffectiveDeployedAt, WatchInv, Detector!Time
<1>3. /\ effective[about[r]] = NULL
      /\ effective' = [effective EXCEPT ![about[r]] = t]
      /\ UNCHANGED verdict
  BY <1>1 DEF Detector!Ingest
<1>4. outbox' = outbox
  BY DEF Report
<1> HIDE DEF t
<1> QED
  BY <1>2, <1>3, <1>4

-----------------------------------------------------------------------------

(* All starts empty. *)
LEMMA PulseInit ==
  ASSUME Init
  PROVE  PulseInv /\ Watch!Init
<1>1. Alerts!Init
  BY SameOutbox DEF Init
<1>2. Alerts!IInv
  BY <1>1, PartAssumptions, Alerts!InitIInv
<1>3. AlertInv
  BY <1>1, PartAssumptions DEF Alerts!Init, AlertInv, Alerts!DispatchAssumption
<1>4. Judged!SingleInv
  BY PartAssumptions, SameDetector, Judged!SingleInit DEF Init
<1>5. Watch!Init
  BY <1>1 DEF Alerts!Init, Init, Detector!Init, Watch!Init, VerdictOn
<1> QED
  BY <1>2, <1>3, <1>4, <1>5 DEF PulseInv

LEMMA PulseStep ==
  ASSUME Next \/ UNCHANGED vars, PulseInv,
         OneEvaluator
  PROVE  PulseInv'
<1>1. WatchInv
  BY WatchFacts DEF PulseInv
<1>2. Judged!SingleInv'
  BY DetectorMoves, PartAssumptions, SameDetector, Judged!SingleStep
     DEF PulseInv, OneEvaluator, Judged!OneEvaluator
<1> QED
  BY <1>1, <1>2, OutboxMoves, OutboxStep, AlertStep DEF PulseInv

LEMMA PulseHolds ==
  ASSUME OneEvaluator
  PROVE  Spec => []PulseInv
<1>1. Init => PulseInv
  BY PulseInit
<1>2. PulseInv /\ [Next]_vars => PulseInv'
  BY PulseStep
<1> QED
  BY <1>1, <1>2, PTL DEF Spec

(* What ReleaseWatch sees depends on nothing else. *)
LEMMA Unseen ==
  ASSUME UNCHANGED <<effective, verdict>>, Seen' = Seen
  PROVE  UNCHANGED Watch!vars
BY DEF Seen, Watch!vars, VerdictOn

LEMMA QuietUnseen ==
  ASSUME outbox' = outbox
  PROVE  Seen' = Seen
BY DEF outbox, Seen

LEMMA WatchMoves ==
  ASSUME NEW i \in Deployment,
         Watch!Announce(i) \/ Watch!Confirm(i) \/ Watch!Grant(i)
  PROVE  Watch!Next
BY DEF Watch!Next

(* A report is seen as one, once. *)
LEMMA ReportIsSeen ==
  ASSUME NEW r \in Request, Report(r), PulseInv
  PROVE  [Watch!Next]_Watch!vars
<1>0. PICK d : d = about[r]
  OBVIOUS
<1>1. PICK t \in 0..MaxTime : effective' = [effective EXCEPT ![d] = t]
  BY <1>0, WatchFacts, ReportFacts DEF PulseInv
<1>2. effective[d] = NULL /\ UNCHANGED verdict
  BY <1>0, WatchFacts, ReportFacts DEF PulseInv
<1>3. Seen' = Seen
  BY WatchFacts, ReportFacts, QuietUnseen DEF PulseInv
<1>4. CASE d \in Deployment
  <2>1. effective'[d] # NULL /\ verdict[d] = "pending"
    BY <1>1, <1>2, <1>4, WatchFacts, PartAssumptions
       DEF PulseInv, WatchInv, Judged!DetectorAssumption
  <2>2. \A i \in Deployment \ {d} : effective'[i] = effective[i]
    BY <1>1, WatchFacts DEF PulseInv, WatchInv
  <2>3. /\ VerdictOn(d) = "unreported" /\ VerdictOn(d)' = "pending"
        /\ \A i \in Deployment \ {d} : VerdictOn(i)' = VerdictOn(i)
    BY <1>2, <1>4, <2>1, <2>2 DEF VerdictOn
  <2>4. Watch!Report(d)
    BY <1>3, <1>4, <2>3 DEF Watch!Report, Seen
  <2> QED
    BY <1>4, <2>4 DEF Watch!Next
<1>5. CASE d \notin Deployment
  <2>1. effective' = effective
    BY <1>1, <1>5, WatchFacts DEF PulseInv, WatchInv
  <2> QED
    BY <1>2, <1>3, <2>1, Unseen
<1> QED
  BY <1>4, <1>5

(* A verdict is seen as one, given to a deployment that waits for it. *)
LEMMA JudgeIsSeen ==
  ASSUME NEW v \in Evaluator, Judge(v), PulseInv
  PROVE  Watch!Next
<1> DEFINE d == evaluated[v]
<1>1. PICK given \in Detector!Verdicts :
        verdict' = [verdict EXCEPT ![d] = given]
  BY WatchFacts, JudgeFacts DEF PulseInv
<1>2. effective' = effective /\ Seen' = Seen
  BY WatchFacts, JudgeFacts, QuietUnseen DEF PulseInv
<1>3. d \in Deployment /\ effective[d] # NULL /\ verdict[d] = "pending"
  BY WatchFacts, JudgeFacts DEF PulseInv, WatchInv
<1>4. /\ verdict'[d] = given
      /\ \A i \in Deployment \ {d} : verdict'[i] = verdict[i]
  BY <1>1, <1>3, WatchFacts DEF PulseInv, WatchInv
<1>5. Watch!Judge(d)
  BY <1>2, <1>3, <1>4
     DEF Watch!Judge, VerdictOn, Seen, Detector!Verdicts
<1> QED
  BY <1>3, <1>5 DEF Watch!Next

(* What the outbox touches was blamed. *)
LEMMA TouchedIsBlamed ==
  ASSUME PulseInv,
         NEW i \in Deployment, alert[i] # "none" \/ i \in batch \/ sending = i
  PROVE  VerdictOn(i) = "blamed"
BY WatchFacts, PartAssumptions
   DEF PulseInv, AlertInv, WatchInv, VerdictOn, Judged!DetectorAssumption

(* A message is seen as one of those granted; an answer that came back is  *)
(* seen as the confirmation.                                               *)
LEMMA OutboxIsSeen ==
  ASSUME OutboxActs, UNCHANGED <<effective, verdict>>, PulseInv
  PROVE  [Watch!Next]_Watch!vars
<1> USE PartAssumptions
    DEF Alerts!DispatchAssumption, PulseInv, Alerts!IInv, Alerts!TypeOK,
        Alerts!rows
<1>1. CASE \/ Alerts!StartRun \/ Alerts!EndRun \/ Alerts!Reject
           \/ Alerts!SwitchChannel \/ Alerts!AbortRun
  <2>1. Seen' = Seen
    BY <1>1 DEF Alerts!StartRun, Alerts!EndRun, Alerts!Reject,
       Alerts!SwitchChannel, Alerts!AbortRun, Seen
  <2> QED
    BY <2>1, Unseen
<1>2. ASSUME NEW i \in Deployment, Alerts!Attempt(i)
      PROVE  [Watch!Next]_Watch!vars
  <2>1. {j \in Deployment : alert'[j] = "sent"}
          = {j \in Deployment : alert[j] = "sent"}
    BY <1>2 DEF Alerts!Attempt, Alerts!BatchInv
  <2>2. Seen' = Seen
    BY <1>2, <2>1 DEF Alerts!Attempt, Seen
  <2> QED
    BY <2>2, Unseen
<1>3. CASE Alerts!Deliver \/ Alerts!DeliverUnconfirmed
  <2> DEFINE Granted == MaxAttempts * resets[sending]
  <2>1. /\ sending \in Deployment /\ alert[sending] = "pending"
        /\ Alerts!UnderWay(sending) = 1
    BY <1>3 DEF Alerts!Deliver, Alerts!DeliverUnconfirmed,
       Alerts!CurrentInv, Alerts!Busy, Alerts!UnderWay
  <2>2. /\ Granted \in Nat /\ MaxAttempts \in Nat
        /\ MaxAttempts * (resets[sending] + 1) = Granted + MaxAttempts
    BY <2>1, Alerts!OneMoreGrant
  <2>3. /\ attempts[sending] <= MaxAttempts
        /\ delivered[sending] + 1 <= Granted + attempts[sending]
    BY <2>1 DEF Alerts!CountInv
  <2>4. delivered[sending] \in Nat /\ attempts[sending] \in Nat
    BY <2>1
  <2> HIDE DEF Granted
  <2>5. delivered[sending] < MaxAttempts * (resets[sending] + 1)
    BY <2>2, <2>3, <2>4
  <2>6. VerdictOn(sending) = "blamed"
    BY <2>1, TouchedIsBlamed
  <2>7. /\ delivered' = [delivered EXCEPT ![sending] = @ + 1]
        /\ UNCHANGED <<alert, resets>>
    BY <1>3 DEF Alerts!Deliver, Alerts!DeliverUnconfirmed, Alerts!Arrive
  <2>8. Watch!Announce(sending)
    BY <2>1, <2>5, <2>6, <2>7
       DEF Watch!Announce, Watch!Unsettled, VerdictOn
  <2> QED
    BY <2>1, <2>8, WatchMoves
<1>4. CASE Alerts!MarkSent
  <2>1. PICK i \in Deployment : i = sending
    BY <1>4 DEF Alerts!MarkSent, Alerts!CurrentInv, Alerts!Busy
  <2>2. alert[i] = "pending" /\ delivered[i] > 0
    BY <1>4, <2>1 DEF Alerts!MarkSent, Alerts!CurrentInv, Alerts!Busy,
       Alerts!DeliveredInv
  <2>3. VerdictOn(i) = "blamed"
    BY <2>2, TouchedIsBlamed
  <2>4. /\ {j \in Deployment : alert'[j] = "sent"}
             = {j \in Deployment : alert[j] = "sent"} \cup {i}
        /\ UNCHANGED <<delivered, resets>>
    BY <1>4, <2>1, <2>2 DEF Alerts!MarkSent, Alerts!Mark
  <2>5. Watch!Confirm(i)
    BY <2>2, <2>3, <2>4
       DEF Watch!Confirm, Watch!Unsettled, VerdictOn
  <2> QED
    BY <2>5, WatchMoves
<1>5. CASE Alerts!MarkFailed
  <2>1. sending \in Deployment /\ alert[sending] = "pending"
    BY <1>5 DEF Alerts!MarkFailed, Alerts!CurrentInv, Alerts!Busy
  <2>2. {i \in Deployment : alert'[i] = "sent"}
          = {i \in Deployment : alert[i] = "sent"}
    BY <1>5, <2>1 DEF Alerts!MarkFailed, Alerts!Mark
  <2>3. Seen' = Seen
    BY <1>5, <2>2 DEF Alerts!MarkFailed, Alerts!Mark, Seen
  <2> QED
    BY <2>3, Unseen
<1>6. ASSUME NEW i \in Deployment, Alerts!ResetAttempts(i)
      PROVE  [Watch!Next]_Watch!vars
  <2>1. i \in noted /\ alert[i] # "none"
    BY <1>6 DEF Alerts!ResetAttempts, Alerts!NotedInv
  <2>2. VerdictOn(i) = "blamed"
    BY <2>1, TouchedIsBlamed
  <2>3. {j \in Deployment : alert'[j] = "sent"}
          = {j \in Deployment : alert[j] = "sent"} \ {i}
    BY <1>6, <2>1 DEF Alerts!ResetAttempts
  <2>4. resets' = [resets EXCEPT ![i] = @ + 1] /\ delivered' = delivered
    BY <1>6 DEF Alerts!ResetAttempts
  <2>5. Watch!Grant(i)
    BY <2>1, <2>2, <2>3, <2>4 DEF Watch!Grant, VerdictOn
  <2> QED
    BY <2>5, WatchMoves
<1>7. ASSUME NEW i \in Deployment, Alerts!NoteStuck(i)
      PROVE  [Watch!Next]_Watch!vars
  <2>1. Seen' = Seen
    BY <1>7 DEF Alerts!NoteStuck, Seen
  <2> QED
    BY <2>1, Unseen
<1> QED
  BY <1>1, <1>2, <1>3, <1>4, <1>5, <1>6, <1>7 DEF OutboxActs, Alerts!Dispatch

(* Every step of the whole is a step of ReleaseWatch or is not seen. *)
LEMMA StepIsSeen ==
  ASSUME Next \/ UNCHANGED vars, PulseInv
  PROVE  [Watch!Next]_Watch!vars
<1>1. CASE Quiet
  BY <1>1, Unseen, QuietUnseen DEF Quiet
<1>2. CASE WorkerDies
  <2>1. UNCHANGED <<effective, verdict>>
    BY <1>2 DEF WorkerDies, Detector!WorkerCrashes, Detector!tables
  <2>2. Seen' = Seen
    BY <1>2 DEF WorkerDies, Outbox!AbortRun, Outbox!rows,
       outbox, Seen
  <2> QED
    BY <2>1, <2>2, Unseen
<1>3. CASE UNCHANGED vars
  BY <1>3, Unseen DEF vars, watch, outbox, Seen
<1> QED
  BY <1>1, <1>2, <1>3, ReportIsSeen, JudgeIsSeen, OutboxIsSeen, Steps

(* Through crashes, retries, lost answers and late reports the webhook,    *)
(* the detector and the outbox together do what ReleaseWatch says of each  *)
(* deployment: one verdict for good, messages only about the blamed, no    *)
(* more of them than were granted, and none after one is confirmed unless  *)
(* an operator grants new attempts.                                        *)
THEOREM WholeIsReleaseWatch ==
  ASSUME OneEvaluator
  PROVE  Spec => ImplementsReleaseWatch
<1>1. Init => Watch!Init
  BY PulseInit
<1>2. PulseInv /\ [Next]_vars => [Watch!Next]_Watch!vars
  BY StepIsSeen
<1> QED
  BY <1>1, <1>2, PulseHolds, PTL
     DEF Spec, ImplementsReleaseWatch, Watch!Spec

(* The chat hears only of deployments whose window is over and of which a  *)
(* row says what regressed, although the row is the detector's and the     *)
(* message the outbox's, any crashes, races and resets later.              *)
THEOREM NoMessageWithoutFinding ==
  ASSUME OneEvaluator
  PROVE  Spec => []MessagesHaveFindings
<1>1. ASSUME PulseInv PROVE MessagesHaveFindings
  <2> SUFFICES ASSUME NEW i \in Deployment, delivered[i] > 0
               PROVE  /\ effective[i] # NULL
                      /\ Detector!WindowCloses(effective[i]) <= now
                      /\ \E r \in rows :
                           /\ r.deployment = i
                           /\ r.outcome \in Detector!RegressionOutcomes
    BY DEF MessagesHaveFindings
  <2>1. i \in incidents
    BY <1>1 DEF PulseInv, AlertInv
  <2>2. /\ verdict[i] = "evaluated_regression"
        /\ \E r \in rows : /\ r.deployment = i
                                  /\ r.outcome \in Judged!RegressionOutcomes
    BY <1>1, <2>1
       DEF PulseInv, Judged!SingleInv, Judged!IncidentMatchesVerdict
  <2>3. effective[i] # NULL /\ Judged!WindowCloses(effective[i]) <= now
    BY <1>1, <2>2
       DEF PulseInv, Judged!SingleInv, Judged!IInv, Judged!VerdictInv,
           Judged!Window, Judged!Over
  <2> QED
    BY <2>2, <2>3 DEF Judged!WindowCloses, Detector!WindowCloses,
       Judged!RegressionOutcomes, Detector!RegressionOutcomes
<1> QED
  BY <1>1, PulseHolds, PTL

(* Within the whole each part behaves as it does alone, so that every      *)
(* safety property of the webhook's ledger, of the detector and of the     *)
(* outbox holds of the whole.                                              *)
THEOREM PartsRunWithinTheWhole ==
  ASSUME OneEvaluator
  PROVE  Spec => Ledger!Spec /\ Detector!Spec /\ Outbox!Spec
<1>1. Init => Ledger!Init /\ Detector!Init /\ Outbox!Init
  BY DEF Init
<1>2. [Next]_vars => [Ledger!Next]_Ledger!vars
  BY LedgerMoves
<1>3. [Next]_vars => [Detector!Next]_Detector!vars
  BY DetectorMoves
<1>4. PulseInv /\ [Next]_vars => [Outbox!Next]_Outbox!vars
  BY WatchFacts, OutboxMoves, SameOutbox DEF PulseInv
<1> QED
  BY <1>1, <1>2, <1>3, <1>4, PulseHolds, PTL
     DEF Spec, Ledger!Spec, Detector!Spec, Outbox!Spec
=============================================================================
