---------------------------- MODULE DetectorProofs ----------------------------
(***************************************************************************)
(* The detector's safety properties for any deployments, endpoints, checks *)
(* and windows.  Those that say a verdict is one need a single evaluator,  *)
(* which is what the deployment of the worker guarantees; the others hold  *)
(* for any number.                                                         *)
(***************************************************************************)
EXTENDS Detector, FiniteSetTheorems, NaturalsInduction, TLAPS

Judging(v) == pc[v] \in {"horizon", "endpoints", "judge"}
Windowed(v) == pc[v] \in {"endpoints", "judge"}

(* With the clock at n and deployments effective at at: the window of a    *)
(* reported deployment has closed.                                         *)
Over(n, at, d) == at[d] # NULL /\ WindowCloses(at[d]) <= n

(* What an evaluator knows of a window's end it has read: it is the full   *)
(* window's, or the time of a successor, and no later than any successor   *)
(* that was known.                                                         *)
Window(n, at, d, end, k) ==
  /\ Over(n, at, d)
  /\ end <= WindowCloses(at[d])
  /\ end < WindowCloses(at[d]) =>
       \E c \in Deployment : at[c] # NULL /\ at[c] = end /\ at[c] > at[d]
  /\ \A c \in k : at[c] # NULL /\ (at[c] > at[d] => end <= at[c])

(* The checks that are in the table or about to be. *)
Arriving == checks \cup (IF stamped = NULL THEN {} ELSE {stamped})

Between(cs, e, start, end) ==
  {c \in cs : c.endpoint = e /\ c.checked_at >= start /\ c.checked_at < end}

(* A row judged on the window that ends at end, when cs are the checks.    *)
RowOK(at, cs, r, end) ==
  /\ r.outcome = "superseded" => end < WindowCloses(at[r.deployment])
  /\ r.outcome = "insufficient_observation" => end = WindowCloses(at[r.deployment])
  /\ Cardinality(Between(cs, r.endpoint, at[r.deployment] + Defaults.warmup, end))
       <= r.observed_samples + 1

EvaluatorInv(v) ==
  /\ \A d \in due[v] : Over(now, effective, d)
  /\ Judging(v) => current[v] \in Deployment /\ Over(now, effective, current[v])
  /\ Windowed(v) => Window(now, effective, current[v], horizon[v], known[v])
  /\ pc[v] # "judge" => results[v] = {}
  /\ \A r \in results[v] : /\ r.deployment = current[v]
                           /\ r.endpoint \notin todo[v]
                           /\ RowOK(effective, Arriving, r, horizon[v])
  /\ \A r, s \in results[v] : r.endpoint = s.endpoint => r = s

VerdictInv(d) ==
  /\ judged[d] # NULL <=> status[d] # "pending"
  /\ judged[d] # NULL => Window(now, effective, d, judged[d].obs_end, judged[d].known)
  /\ status[d] = "superseded" => judged[d].obs_end < WindowCloses(effective[d])

IInv ==
  /\ TypeOK
  /\ IsFiniteSet(checks)
  /\ \A v \in Evaluator : EvaluatorInv(v)
  /\ \A d \in Deployment : VerdictInv(d)
  /\ OneRowPerEndpoint

(* One worker, one evaluate_due job at a time (worker-deployment.yaml:     *)
(* Recreate; max_instances=1).                                             *)
OneEvaluator == \A v, w \in Evaluator : v = w

(* What one evaluator adds: what it judges has no verdict yet, so a        *)
(* verdict is never written over.                                          *)
SingleInv ==
  /\ IInv
  /\ \A v \in Evaluator : Judging(v) => status[current[v]] = "pending"
  /\ \A r \in rows : /\ status[r.deployment] # "pending"
                     /\ RowOK(effective, Arriving, r, judged[r.deployment].obs_end)
  /\ IncidentMatchesVerdict

-----------------------------------------------------------------------------

(* An endpoint's outcome is one of the vocabulary; the core itself never   *)
(* says superseded.                                                        *)
LEMMA OutcomeAllowed ==
  ASSUME NEW b, NEW o, NEW t
  PROVE  Outcome(b, o, t) \in OutcomeValues \ {"superseded"}
BY DEF Outcome, OutcomeValues, RegressionOutcomes

(* The status of a deployment, by what its rows hold. *)
LEMMA VerdictFacts ==
  ASSUME NEW found
  PROVE  /\ Verdict(found) \in Verdicts
         /\ Verdict(found) = "evaluated_regression" <=>
              \E r \in found : r.outcome \in RegressionOutcomes
         /\ Verdict(found) = "superseded" => \E r \in found : r.outcome = "superseded"
BY DEF Verdict, Verdicts, Found

LEMMA TimesAreNat ==
  /\ Time \subseteq Nat
  /\ \A t \in Nat : WindowCloses(t) \in Nat
  /\ \A t \in Nat : t + Defaults.warmup \in Nat
  /\ NULL \notin Nat /\ NULL \notin Time
BY DetectorAssumption DEF Time, WindowCloses

(* A set of times that is not empty has a least one: the intervals 0..t    *)
(* are ordered as the times are.                                           *)
LEMMA MinIsLeast ==
  ASSUME NEW T \in SUBSET Nat, T # {}
  PROVE  Min(T) \in T /\ \A t \in T : Min(T) <= t
<1> DEFINE Below == {0..t : t \in T}
<1>1. Below \subseteq FiniteSubsetsOf(Nat)
  <2> SUFFICES ASSUME NEW t \in T PROVE 0..t \in FiniteSubsetsOf(Nat)
    OBVIOUS
  <2>1. t \in Int /\ 0..t \subseteq Nat
    OBVIOUS
  <2>2. IsFiniteSet(0..t)
    BY <2>1, FS_Interval
  <2>3. QED
    BY <2>1, <2>2 DEF FiniteSubsetsOf
<1>2. PICK x \in T : \A y \in T : ~ (<<0..y, 0..x>> \in StrictSubsetOrdering(Nat))
  <2>1. Below # {}
    OBVIOUS
  <2>2. PICK I \in Below : \A J \in Below : ~ (<<J, I>> \in StrictSubsetOrdering(Nat))
    <3> HIDE DEF Below
    <3> QED
      BY <1>1, <2>1, FS_StrictSubsetOrderingWellFounded, WFMin
  <2>3. QED
    BY <2>2
<1>3. ASSUME NEW y \in T PROVE x <= y
  <2>1. SUFFICES ASSUME y < x PROVE FALSE
    OBVIOUS
  <2>2. 0..y \subseteq 0..x /\ x \in 0..x /\ x \notin 0..y
    BY <2>1
  <2>3. QED
    <3>1. 0..y \in SUBSET Nat /\ 0..x \in SUBSET Nat /\ 0..y # 0..x
      BY <2>2
    <3>2. <<0..y, 0..x>> \in StrictSubsetOrdering(Nat)
      BY <2>2, <3>1 DEF StrictSubsetOrdering
    <3>3. QED
      BY <1>2, <3>2
<1>4. QED
  BY <1>3 DEF Min

-----------------------------------------------------------------------------

(* How the world may move under an evaluator: the clock goes on, a time    *)
(* that is effective stays so, and what arrives has been checked since.    *)
Moves ==
  /\ now <= now'
  /\ \A d \in Deployment : effective[d] # NULL => effective'[d] = effective[d]
  /\ \A c \in Arriving' \ Arriving : c.checked_at >= now

LEMMA OverStays ==
  ASSUME TypeOK, TypeOK', Moves, NEW d \in Deployment, Over(now, effective, d)
  PROVE  Over(now', effective', d) /\ effective'[d] = effective[d]
<1>1. effective'[d] = effective[d] /\ effective[d] \in Nat
  BY TimesAreNat DEF TypeOK, Moves, Over
<1>2. WindowCloses(effective[d]) \in Nat /\ now \in Nat /\ now' \in Nat
  BY <1>1, TimesAreNat DEF TypeOK
<1>3. QED
  BY <1>1, <1>2 DEF Over, Moves

LEMMA WindowStays ==
  ASSUME TypeOK, TypeOK', Moves, NEW d \in Deployment, NEW end \in Nat,
         NEW k \in SUBSET Deployment, Window(now, effective, d, end, k)
  PROVE  Window(now', effective', d, end, k)
<1>1. Over(now', effective', d) /\ effective'[d] = effective[d]
  BY OverStays DEF Window
<1>2. \A c \in Deployment : effective[c] # NULL => effective'[c] = effective[c]
  BY DEF Moves
<1>3. QED
  BY <1>1, <1>2 DEF Window

(* No check can enter a window that is over, so a row stays as good as it  *)
(* was.                                                                    *)
LEMMA RowStays ==
  ASSUME TypeOK, TypeOK', Moves, IsFiniteSet(checks), NEW r \in Row, NEW end \in Nat,
         Over(now, effective, r.deployment), end <= WindowCloses(effective[r.deployment]),
         RowOK(effective, Arriving, r, end)
  PROVE  RowOK(effective', Arriving', r, end)
<1> DEFINE start == effective[r.deployment] + Defaults.warmup
<1>1. r.deployment \in Deployment
  BY DEF Row
<1>2. effective'[r.deployment] = effective[r.deployment] /\ effective[r.deployment] \in Nat
  BY <1>1, OverStays, TimesAreNat DEF TypeOK, Over
<1>3. now \in Nat /\ WindowCloses(effective[r.deployment]) \in Nat
  BY <1>2, TimesAreNat DEF TypeOK
<1>4. end <= now
  BY <1>3 DEF Over
<1>5. Arriving' \subseteq Check
  BY DEF Arriving, TypeOK
<1>6. \A c \in Check : c.checked_at \in Nat
  BY TimesAreNat DEF Check
<1>7. Between(Arriving', r.endpoint, start, end) \subseteq
        Between(Arriving, r.endpoint, start, end)
  BY <1>3, <1>4, <1>5, <1>6 DEF Between, Moves
<1>8. IsFiniteSet(Between(Arriving, r.endpoint, start, end))
  <2>1. IsFiniteSet(Arriving)
    BY FS_AddElement, FS_EmptySet, FS_Union, FS_Singleton DEF Arriving
  <2>2. Between(Arriving, r.endpoint, start, end) \subseteq Arriving
    BY DEF Between
  <2>3. QED
    BY <2>1, <2>2, FS_Subset
<1>9. /\ Cardinality(Between(Arriving', r.endpoint, start, end)) \in Nat
      /\ Cardinality(Between(Arriving, r.endpoint, start, end)) \in Nat
      /\ Cardinality(Between(Arriving', r.endpoint, start, end))
           <= Cardinality(Between(Arriving, r.endpoint, start, end))
  BY <1>7, <1>8, FS_Subset, FS_CardinalityType
<1>10. r.observed_samples \in Nat
  BY DEF Row
<1> HIDE DEF start
<1>11. Cardinality(Between(Arriving, r.endpoint, start, end)) <= r.observed_samples + 1
  BY DEF RowOK, start
<1>12. Cardinality(Between(Arriving', r.endpoint, start, end)) <= r.observed_samples + 1
  BY <1>9, <1>10, <1>11
<1>13. QED
  BY <1>2, <1>12 DEF RowOK, start

(* An evaluator that does not move keeps what it knows. *)
LEMMA EvaluatorStays ==
  ASSUME IInv, TypeOK', Moves, NEW v \in Evaluator,
         pc'[v] = pc[v], due'[v] = due[v], current'[v] = current[v],
         horizon'[v] = horizon[v], todo'[v] = todo[v], results'[v] = results[v],
         known'[v] = known[v]
  PROVE  EvaluatorInv(v)'
<1>1. TypeOK /\ EvaluatorInv(v) /\ IsFiniteSet(checks)
  BY DEF IInv
<1>2. \A d \in due[v] : Over(now', effective', d)
  BY <1>1, OverStays DEF EvaluatorInv, TypeOK
<1>3. Judging(v) => Over(now', effective', current[v])
  BY <1>1, OverStays DEF EvaluatorInv
<1>4. Windowed(v) => Window(now', effective', current[v], horizon[v], known[v])
  BY <1>1, WindowStays DEF EvaluatorInv, Windowed, Judging, TypeOK
<1>5. ASSUME NEW r \in results[v] PROVE RowOK(effective', Arriving', r, horizon[v])
  <2>1. pc[v] = "judge" /\ r.deployment = current[v] /\ r \in Row /\ horizon[v] \in Nat
    BY <1>1 DEF EvaluatorInv, TypeOK
  <2>2. RowOK(effective, Arriving, r, horizon[v])
    BY <1>1 DEF EvaluatorInv
  <2>3. /\ Over(now, effective, r.deployment)
        /\ horizon[v] <= WindowCloses(effective[r.deployment])
    BY <1>1, <2>1 DEF EvaluatorInv, Windowed, Window
  <2>4. QED
    BY <1>1, <2>1, <2>2, <2>3, RowStays
<1>6. QED
  BY <1>1, <1>2, <1>3, <1>4, <1>5 DEF EvaluatorInv, Judging, Windowed

(* A verdict that is not written over stays as good as it was. *)
LEMMA VerdictStays ==
  ASSUME IInv, TypeOK', Moves, NEW d \in Deployment,
         status'[d] = status[d], judged'[d] = judged[d]
  PROVE  VerdictInv(d)'
<1>1. TypeOK /\ VerdictInv(d)
  BY DEF IInv
<1>2. judged[d] # NULL =>
        Window(now', effective', d, judged[d].obs_end, judged[d].known)
  <2>1. judged[d] # NULL => judged[d].obs_end \in Nat /\ judged[d].known \in SUBSET Deployment
    BY <1>1 DEF TypeOK, Basis
  <2>2. QED
    BY <1>1, <2>1, WindowStays DEF VerdictInv
<1>3. judged[d] # NULL => effective'[d] = effective[d]
  BY <1>1, OverStays DEF VerdictInv, Window
<1>4. QED
  BY <1>1, <1>2, <1>3 DEF VerdictInv

-----------------------------------------------------------------------------

(* The row an evaluator judges counts what is in the table; only the one   *)
(* check in flight may be missing.                                         *)
LEMMA RowForOK ==
  ASSUME IInv, NEW v \in Evaluator, NEW e \in Endpoint, pc[v] = "judge"
  PROVE  /\ RowFor(v, e) \in Row
         /\ RowFor(v, e).deployment = current[v] /\ RowFor(v, e).endpoint = e
         /\ RowOK(effective, Arriving, RowFor(v, e), horizon[v])
<1> DEFINE d == current[v]
           seen == WindowChecks(e, effective[d] + Defaults.warmup, horizon[v])
           all == Between(Arriving, e, effective[d] + Defaults.warmup, horizon[v])
           bound == WindowCloses(effective[d])
<1>1. /\ TypeOK /\ IsFiniteSet(checks)
      /\ d \in Deployment /\ horizon[v] \in Nat
      /\ Window(now, effective, d, horizon[v], known[v])
  BY DEF IInv, EvaluatorInv, Judging, Windowed, TypeOK
<1>2. effective[d] \in Nat /\ bound \in Nat
  BY <1>1, TimesAreNat DEF Window, Over, TypeOK
<1>3. IsFiniteSet(seen) /\ Cardinality(seen) \in Nat
  <2>1. seen \subseteq checks
    BY DEF WindowChecks
  <2>2. QED
    BY <1>1, <2>1, FS_Subset, FS_CardinalityType
<1>4. IsFiniteSet(all) /\ Cardinality(all) \in Nat /\ Cardinality(all) <= Cardinality(seen) + 1
  <2>1. all \subseteq seen \cup {stamped}
    BY DEF Between, Arriving, WindowChecks
  <2>2. /\ IsFiniteSet(seen \cup {stamped})
        /\ Cardinality(seen \cup {stamped}) \in Nat
        /\ Cardinality(seen \cup {stamped}) <= Cardinality(seen) + 1
    <3> HIDE DEF seen
    <3>1. CASE stamped \in seen
      <4>1. seen \cup {stamped} = seen
        BY <3>1
      <4>2. QED
        BY <4>1, <1>3
    <3>2. CASE stamped \notin seen
      <4>1. /\ IsFiniteSet(seen \cup {stamped})
            /\ Cardinality(seen \cup {stamped}) = Cardinality(seen) + 1
        BY <1>3, <3>2, FS_AddElement
      <4>2. QED
        BY <4>1, <1>3
    <3>3. QED
      BY <3>1, <3>2
  <2> HIDE DEF all, seen
  <2>3. IsFiniteSet(all) /\ Cardinality(all) <= Cardinality(seen \cup {stamped})
    BY <2>1, <2>2, FS_Subset
  <2>4. Cardinality(all) \in Nat
    BY <2>3, FS_CardinalityType
  <2>5. QED
    BY <1>3, <2>2, <2>3, <2>4
<1>5. PICK o \in OutcomeValues \ {"superseded"} :
        RowFor(v, e) = [deployment |-> d, endpoint |-> e,
                        outcome |-> IF Truncated(v) /\ o = "insufficient_observation"
                                      THEN "superseded" ELSE o,
                        observed_samples |-> Cardinality(seen)]
  <2> DEFINE b == SetToSeq(WindowChecks(e, effective[d] - Defaults.baseline_window, effective[d]))
             s == SetToSeq(seen)
             t == MergeThresholds(Defaults, Overrides[e])
  <2>1. Outcome(b, s, t) \in OutcomeValues \ {"superseded"}
    BY OutcomeAllowed
  <2>2. QED
    BY <2>1, Zenon DEF RowFor
<1>6. "superseded" \in OutcomeValues
  BY DEF OutcomeValues
<1> HIDE DEF seen, all
<1>7. /\ RowFor(v, e) \in Row
      /\ RowFor(v, e).deployment = d /\ RowFor(v, e).endpoint = e
      /\ RowFor(v, e).observed_samples = Cardinality(seen)
  BY <1>1, <1>3, <1>5, <1>6 DEF Row
<1>8. Truncated(v) <=> horizon[v] < bound
  BY DEF Truncated
<1>9. RowFor(v, e).outcome = "superseded" => horizon[v] < bound
  BY <1>5, <1>8
<1>10. RowFor(v, e).outcome = "insufficient_observation" => horizon[v] = bound
  <2>1. RowFor(v, e).outcome = "insufficient_observation" => ~ Truncated(v)
    BY <1>5
  <2>2. horizon[v] <= bound
    BY <1>1 DEF Window
  <2>3. QED
    BY <1>1, <1>2, <1>8, <2>1, <2>2
<1>11. QED
  <2>1. Cardinality(Between(Arriving, e, effective[d] + Defaults.warmup, horizon[v]))
          <= RowFor(v, e).observed_samples + 1
    BY <1>4, <1>7 DEF all
  <2>2. QED
    BY <1>7, <1>9, <1>10, <2>1 DEF RowOK

(* The end of the window that an evaluator reads. *)
LEMMA HorizonOK ==
  ASSUME TypeOK, NEW d \in Deployment, Over(now, effective, d)
  PROVE  /\ ObservationEnd(effective[d]) \in Nat
         /\ Window(now, effective, d, ObservationEnd(effective[d]),
                   {c \in Deployment : effective[c] # NULL})
<1> DEFINE t == effective[d]
           later == NewerTimes(t)
<1>1. t \in Nat /\ WindowCloses(t) \in Nat
  BY TimesAreNat DEF Over, TypeOK
<1>2. later \in SUBSET Nat
  BY TimesAreNat DEF NewerTimes, TypeOK
<1>3. later # {} => Min(later) \in later /\ \A x \in later : Min(later) <= x
  BY <1>2, MinIsLeast
<1>4. \A c \in Deployment : effective[c] # NULL /\ effective[c] > t => effective[c] \in later
  BY DEF NewerTimes
<1>5. \A x \in later : \E c \in Deployment : effective[c] # NULL /\ effective[c] = x /\ x > t
  BY DEF NewerTimes
<1> HIDE DEF later
<1>6. ObservationEnd(t) = IF later # {} /\ Min(later) < WindowCloses(t)
                            THEN Min(later) ELSE WindowCloses(t)
  BY DEF ObservationEnd, later
<1> DEFINE end == ObservationEnd(t)
<1>7. end \in Nat /\ end <= WindowCloses(t)
  <2>1. CASE later # {} /\ Min(later) < WindowCloses(t)
    <3>1. end = Min(later) /\ Min(later) \in Nat
      BY <1>2, <1>3, <1>6, <2>1
    <3>2. QED
      BY <1>1, <2>1, <3>1
  <2>2. CASE ~ (later # {} /\ Min(later) < WindowCloses(t))
    BY <1>1, <1>6, <2>2
  <2>3. QED
    BY <2>1, <2>2
<1>8. end < WindowCloses(t) => end \in later
  BY <1>1, <1>3, <1>6
<1>9. \A x \in later : end <= x
  <2> SUFFICES ASSUME NEW x \in later PROVE end <= x
    OBVIOUS
  <2>1. Min(later) \in Nat /\ x \in Nat /\ Min(later) <= x
    BY <1>2, <1>3
  <2>2. QED
    BY <1>1, <1>6, <2>1
<1> HIDE DEF end
<1>10. Window(now, effective, d, end, {c \in Deployment : effective[c] # NULL})
  BY <1>4, <1>5, <1>7, <1>8, <1>9 DEF Window
<1>11. QED
  BY <1>7, <1>10 DEF end

(* An evaluator that leaves a deployment keeps only the rest of its batch. *)
LEMMA LeftOK ==
  ASSUME IInv, TypeOK', Moves, NEW v \in Evaluator, Leave(v)
  PROVE  EvaluatorInv(v)'
<1>1. pc'[v] = "pick" /\ results'[v] = {} /\ due'[v] = due[v]
  BY DEF Leave, IInv, TypeOK
<1>2. \A d \in due[v] : Over(now', effective', d)
  BY OverStays DEF IInv, EvaluatorInv, TypeOK
<1>3. QED
  BY <1>1, <1>2 DEF EvaluatorInv, Judging, Windowed

-----------------------------------------------------------------------------

LEMMA TypeInit == Init => TypeOK
<1> SUFFICES ASSUME Init PROVE TypeOK
  OBVIOUS
<1>1. 0 \in Time /\ 0 \in 0..MaxFaults
  BY DetectorAssumption DEF Time
<1>2. QED
  BY <1>1 DEF Init, TypeOK

LEMMA TypeLeave ==
  ASSUME TypeOK, NEW v \in Evaluator, Leave(v)
  PROVE  /\ pc' \in [Evaluator -> {"idle", "pick", "horizon", "endpoints", "judge"}]
         /\ due' \in [Evaluator -> SUBSET Deployment]
         /\ current' \in [Evaluator -> Deployment \cup {NULL}]
         /\ horizon' \in [Evaluator -> Nat]
         /\ todo' \in [Evaluator -> SUBSET Endpoint]
         /\ results' \in [Evaluator -> SUBSET Row]
         /\ known' \in [Evaluator -> SUBSET Deployment]
BY DEF TypeOK, Leave

LEMMA TypeFault ==
  ASSUME TypeOK, Fault
  PROVE  faults' \in 0..MaxFaults
BY DetectorAssumption DEF TypeOK, Fault

(* What the API, the checks and the clock do keeps the types. *)
LEMMA TypeEnvironment ==
  ASSUME TypeOK, Environment
  PROVE  TypeOK'
<1>1. ASSUME NEW d \in Deployment, NEW reported \in Time \cup {NULL}, Ingest(d, reported)
      PROVE  TypeOK'
  <2>1. EffectiveDeployedAt(reported, now) \in Time
    BY DEF EffectiveDeployedAt, TypeOK
  <2>2. QED
    BY <1>1, <2>1 DEF Ingest, TypeOK, writes, locals
<1>2. ASSUME NEW e \in Endpoint, ChangeEndpoint(e) PROVE TypeOK'
  BY <1>2 DEF ChangeEndpoint, TypeOK, tables, writes, locals
<1>3. ASSUME NEW e \in Endpoint, NEW sample \in Sample, StampCheck(e, sample)
      PROVE  TypeOK'
  <2>1. stamped' \in Check
    BY <1>3, DetectorAssumption DEF StampCheck, Check, TypeOK
  <2>2. QED
    BY <1>3, <2>1 DEF StampCheck, TypeOK, tables, locals
<1>4. ASSUME CommitCheck PROVE TypeOK'
  BY <1>4 DEF CommitCheck, TypeOK, tables, locals
<1>5. ASSUME ClockAdvances PROVE TypeOK'
  <2>1. now' \in Time
    BY <1>5, DetectorAssumption DEF ClockAdvances, TypeOK, Time
  <2>2. QED
    BY <1>5, <2>1 DEF ClockAdvances, TypeOK, tables, writes, locals
<1>6. QED
  BY <1>1, <1>2, <1>3, <1>4, <1>5 DEF Environment

(* So does every step of an evaluator. *)
LEMMA TypeEvaluator ==
  ASSUME IInv, NEW v \in Evaluator, Evaluate(v) \/ EvaluationFails(v)
  PROVE  TypeOK'
<1>1. TypeOK
  BY DEF IInv
<1>2. ASSUME StartBatch(v) PROVE TypeOK'
  <2>1. Due \in SUBSET Deployment
    BY DEF Due
  <2>2. QED
    BY <1>1, <1>2, <2>1 DEF StartBatch, TypeOK, tables, writes
<1>3. ASSUME NEW d \in Deployment, Pick(v, d) PROVE TypeOK'
  <2>1. /\ due' \in [Evaluator -> SUBSET Deployment]
        /\ current' \in [Evaluator -> Deployment \cup {NULL}]
        /\ pc' \in [Evaluator -> {"idle", "pick", "horizon", "endpoints", "judge"}]
    BY <1>1, <1>3 DEF Pick, TypeOK
  <2>2. QED
    BY <1>1, <1>3, <2>1 DEF Pick, TypeOK, tables, writes
<1>4. ASSUME EndBatch(v) PROVE TypeOK'
  BY <1>1, <1>4 DEF EndBatch, TypeOK, tables, writes
<1>5. ASSUME ReadHorizon(v) PROVE TypeOK'
  <2>1. current[v] \in Deployment /\ Over(now, effective, current[v])
    BY <1>5 DEF IInv, EvaluatorInv, Judging, ReadHorizon
  <2>2. ObservationEnd(effective[current[v]]) \in Nat
    BY <1>1, <2>1, HorizonOK
  <2>3. horizon' \in [Evaluator -> Nat] /\ known' \in [Evaluator -> SUBSET Deployment]
    BY <1>1, <1>5, <2>2 DEF ReadHorizon, TypeOK
  <2>4. QED
    BY <1>1, <1>5, <2>3 DEF ReadHorizon, TypeOK, tables, writes
<1>6. ASSUME ReadEndpoints(v) PROVE TypeOK'
  BY <1>1, <1>6 DEF ReadEndpoints, TypeOK, tables, writes
<1>7. ASSUME NEW e \in Endpoint, JudgeEndpoint(v, e) PROVE TypeOK'
  <2>1. RowFor(v, e) \in Row
    BY <1>7, RowForOK DEF JudgeEndpoint
  <2>2. results' \in [Evaluator -> SUBSET Row]
    BY <1>1, <1>7, <2>1 DEF JudgeEndpoint, TypeOK
  <2>3. QED
    BY <1>1, <1>7, <2>2 DEF JudgeEndpoint, TypeOK, tables, writes
<1>8. ASSUME CommitVerdict(v) PROVE TypeOK'
  <2>1. current[v] \in Deployment
    BY <1>8 DEF IInv, EvaluatorInv, Judging, CommitVerdict, Ready
  <2>2. Verdict(results[v]) \in Verdicts
    BY VerdictFacts
  <2>3. [obs_end |-> horizon[v], known |-> known[v]] \in Basis
    BY <1>1 DEF TypeOK, Basis
  <2>4. status' \in [Deployment -> Verdicts \cup {"pending"}]
        /\ judged' \in [Deployment -> Basis \cup {NULL}]
    BY <1>1, <1>8, <2>2, <2>3 DEF CommitVerdict, TypeOK
  <2>5. rows' \subseteq Row /\ incidents' \subseteq Deployment
    BY <1>1, <1>8, <2>1 DEF CommitVerdict, TypeOK
  <2>6. Leave(v) /\ UNCHANGED <<now, effective, enabled, writes, faults>>
    BY <1>8 DEF CommitVerdict
  <2>7. QED
    BY <1>1, <2>4, <2>5, <2>6, TypeLeave DEF TypeOK, writes
<1>9. ASSUME LoseRace(v) PROVE TypeOK'
  <2>1. Leave(v) /\ UNCHANGED <<now, tables, enabled, writes, faults>>
    BY <1>9 DEF LoseRace
  <2>2. QED
    BY <1>1, <2>1, TypeLeave DEF TypeOK, tables, writes
<1>10. ASSUME EvaluationFails(v) PROVE TypeOK'
  <2>1. Leave(v) /\ Fault /\ UNCHANGED <<now, tables, enabled, writes>>
    BY <1>10 DEF EvaluationFails
  <2>2. QED
    BY <1>1, <2>1, TypeLeave, TypeFault DEF TypeOK, tables, writes
<1>11. QED
  BY <1>2, <1>3, <1>4, <1>5, <1>6, <1>7, <1>8, <1>9, <1>10 DEF Evaluate

LEMMA TypeCrash ==
  ASSUME TypeOK, WorkerCrashes
  PROVE  TypeOK'
<1>1. faults' \in 0..MaxFaults
  BY TypeFault DEF WorkerCrashes
<1>2. QED
  BY <1>1 DEF WorkerCrashes, TypeOK, tables

-----------------------------------------------------------------------------

LEMMA InitInv == Init => IInv
<1> SUFFICES ASSUME Init PROVE IInv
  OBVIOUS
<1>1. TypeOK
  BY TypeInit
<1>2. IsFiniteSet(checks)
  BY FS_EmptySet DEF Init
<1>3. \A v \in Evaluator : EvaluatorInv(v)
  BY DEF Init, EvaluatorInv, Judging, Windowed
<1>4. \A d \in Deployment : VerdictInv(d)
  BY DEF Init, VerdictInv
<1>5. OneRowPerEndpoint
  BY DEF Init, OneRowPerEndpoint
<1>6. QED
  BY <1>1, <1>2, <1>3, <1>4, <1>5 DEF IInv

(* The world moves as it may, and the evaluators and the verdicts stand    *)
(* still.                                                                  *)
LEMMA EnvironmentMoves ==
  ASSUME IInv, Environment
  PROVE  /\ Moves /\ IsFiniteSet(checks')
         /\ UNCHANGED <<status, rows, incidents, judged, locals>>
<1>1. TypeOK /\ IsFiniteSet(checks) /\ now \in Nat
  BY TimesAreNat DEF IInv, TypeOK
<1>2. ASSUME NEW d \in Deployment, NEW reported \in Time \cup {NULL}, Ingest(d, reported)
      PROVE  Moves /\ checks' = checks /\ UNCHANGED <<status, rows, incidents, judged, locals>>
  <2>1. \A c \in Deployment : effective[c] # NULL => effective'[c] = effective[c]
    BY <1>1, <1>2 DEF Ingest, TypeOK
  <2>2. UNCHANGED <<now, checks, stamped, status, rows, incidents, judged, locals>>
    BY <1>2 DEF Ingest, writes
  <2>3. QED
    BY <1>1, <2>1, <2>2 DEF Moves, Arriving
<1>3. ASSUME NEW e \in Endpoint, ChangeEndpoint(e)
      PROVE  Moves /\ checks' = checks /\ UNCHANGED <<status, rows, incidents, judged, locals>>
  <2>1. UNCHANGED <<now, effective, checks, stamped, status, rows, incidents, judged, locals>>
    BY <1>3 DEF ChangeEndpoint, tables, writes
  <2>2. QED
    BY <1>1, <2>1 DEF Moves, Arriving
<1>4. ASSUME NEW e \in Endpoint, NEW sample \in Sample, StampCheck(e, sample)
      PROVE  Moves /\ checks' = checks /\ UNCHANGED <<status, rows, incidents, judged, locals>>
  <2>1. UNCHANGED <<now, effective, checks, status, rows, incidents, judged, locals>>
    BY <1>4 DEF StampCheck, tables
  <2>2. stamped'.checked_at = now
    BY <1>4 DEF StampCheck
  <2>3. QED
    BY <1>1, <2>1, <2>2 DEF Moves, Arriving
<1>5. ASSUME CommitCheck
      PROVE  Moves /\ IsFiniteSet(checks')
             /\ UNCHANGED <<status, rows, incidents, judged, locals>>
  <2>1. UNCHANGED <<now, effective, status, rows, incidents, judged, locals>>
    BY <1>5 DEF CommitCheck, tables
  <2>2. checks' = checks \cup {stamped} /\ stamped # NULL /\ stamped' = NULL
    BY <1>5 DEF CommitCheck
  <2>3. IsFiniteSet(checks')
    BY <1>1, <2>2, FS_AddElement
  <2>4. Arriving' = Arriving
    BY <2>2 DEF Arriving
  <2>5. QED
    BY <1>1, <2>1, <2>3, <2>4 DEF Moves
<1>6. ASSUME ClockAdvances
      PROVE  Moves /\ checks' = checks /\ UNCHANGED <<status, rows, incidents, judged, locals>>
  <2>1. UNCHANGED <<effective, checks, stamped, status, rows, incidents, judged, locals>>
    BY <1>6 DEF ClockAdvances, tables, writes
  <2>2. now' = now + 1
    BY <1>6 DEF ClockAdvances
  <2>3. QED
    BY <1>1, <2>1, <2>2 DEF Moves, Arriving
<1>7. QED
  BY <1>1, <1>2, <1>3, <1>4, <1>5, <1>6 DEF Environment

(* A step of an evaluator moves no other evaluator and nothing of the      *)
(* world.                                                                  *)
LEMMA EvaluatorMoves ==
  ASSUME IInv, NEW v \in Evaluator, Evaluate(v) \/ EvaluationFails(v)
  PROVE  /\ UNCHANGED <<now, effective, checks, stamped>> /\ Moves
         /\ \A w \in Evaluator \ {v} :
              /\ pc'[w] = pc[w] /\ due'[w] = due[w] /\ current'[w] = current[w]
              /\ horizon'[w] = horizon[w] /\ todo'[w] = todo[w]
              /\ results'[w] = results[w] /\ known'[w] = known[w]
<1>1. UNCHANGED <<now, effective, checks, stamped>>
  BY DEF Evaluate, EvaluationFails, StartBatch, Pick, EndBatch, ReadHorizon, ReadEndpoints,
         JudgeEndpoint, CommitVerdict, LoseRace, tables, writes
<1>2. Moves
  BY <1>1, TimesAreNat DEF Moves, Arriving, IInv, TypeOK
<1>3. ASSUME NEW w \in Evaluator \ {v}
      PROVE  /\ pc'[w] = pc[w] /\ due'[w] = due[w] /\ current'[w] = current[w]
             /\ horizon'[w] = horizon[w] /\ todo'[w] = todo[w]
             /\ results'[w] = results[w] /\ known'[w] = known[w]
  BY DEF Evaluate, EvaluationFails, StartBatch, Pick, EndBatch, ReadHorizon, ReadEndpoints,
         JudgeEndpoint, CommitVerdict, LoseRace, Leave, IInv, TypeOK
<1>4. QED
  BY <1>1, <1>2, <1>3

(* The evaluator that takes a step knows what it must. *)
LEMMA EvaluatorKnows ==
  ASSUME IInv, NEW v \in Evaluator, Evaluate(v) \/ EvaluationFails(v)
  PROVE  EvaluatorInv(v)'
<1>1. TypeOK /\ EvaluatorInv(v) /\ TypeOK' /\ Moves
      /\ UNCHANGED <<now, effective, checks, stamped>>
  BY TypeEvaluator, EvaluatorMoves DEF IInv
<1>2. Arriving' = Arriving
  BY <1>1 DEF Arriving
<1>3. ASSUME StartBatch(v) PROVE EvaluatorInv(v)'
  <2>1. pc'[v] = "pick" /\ due'[v] = Due /\ results'[v] = {}
    BY <1>1, <1>3 DEF StartBatch, TypeOK, EvaluatorInv
  <2>2. ASSUME NEW d \in Due PROVE Over(now, effective, d)
    <3>1. effective[d] \in Nat /\ now \in Nat
      BY <1>1, TimesAreNat DEF Due, TypeOK
    <3>2. effective[d] <= now - (Defaults.warmup + Defaults.observation_window)
          /\ effective[d] # NULL
      BY DEF Due
    <3>3. QED
      BY <3>1, <3>2, DetectorAssumption DEF Over, WindowCloses
  <2>3. QED
    BY <1>1, <2>1, <2>2 DEF EvaluatorInv, Judging, Windowed
<1>4. ASSUME NEW d \in Deployment, Pick(v, d) PROVE EvaluatorInv(v)'
  <2>1. /\ pc[v] = "pick" /\ due'[v] \subseteq due[v] /\ d \in due[v] /\ results'[v] = {}
    BY <1>1, <1>4 DEF Pick, TypeOK, EvaluatorInv
  <2>2. \/ pc'[v] = "horizon" /\ current'[v] = d
        \/ pc'[v] = "pick"
    BY <1>1, <1>4 DEF Pick, TypeOK
  <2>3. QED
    BY <1>1, <2>1, <2>2 DEF EvaluatorInv, Judging, Windowed
<1>5. ASSUME EndBatch(v) PROVE EvaluatorInv(v)'
  <2>1. pc'[v] = "idle" /\ due'[v] = due[v] /\ results'[v] = {}
    BY <1>1, <1>5 DEF EndBatch, TypeOK, EvaluatorInv
  <2>2. QED
    BY <1>1, <2>1 DEF EvaluatorInv, Judging, Windowed
<1>6. ASSUME ReadHorizon(v) PROVE EvaluatorInv(v)'
  <2>1. /\ current[v] \in Deployment /\ Over(now, effective, current[v])
    BY <1>1, <1>6 DEF EvaluatorInv, Judging, ReadHorizon
  <2>2. /\ pc'[v] = "endpoints" /\ due'[v] = due[v] /\ current'[v] = current[v]
        /\ results'[v] = {} /\ horizon'[v] = ObservationEnd(effective[current[v]])
        /\ known'[v] = {c \in Deployment : effective[c] # NULL}
    BY <1>1, <1>6 DEF ReadHorizon, TypeOK, EvaluatorInv
  <2>3. Window(now, effective, current[v], horizon'[v], known'[v])
    BY <1>1, <2>1, <2>2, HorizonOK
  <2>4. QED
    BY <1>1, <2>1, <2>2, <2>3 DEF EvaluatorInv, Judging, Windowed
<1>7. ASSUME ReadEndpoints(v) PROVE EvaluatorInv(v)'
  <2>1. /\ pc[v] = "endpoints" /\ pc'[v] = "judge" /\ due'[v] = due[v]
        /\ current'[v] = current[v] /\ horizon'[v] = horizon[v] /\ known'[v] = known[v]
        /\ results'[v] = {}
    BY <1>1, <1>7 DEF ReadEndpoints, TypeOK
  <2>2. QED
    BY <1>1, <2>1 DEF EvaluatorInv, Judging, Windowed
<1>8. ASSUME NEW e \in Endpoint, JudgeEndpoint(v, e) PROVE EvaluatorInv(v)'
  <2>1. /\ pc[v] = "judge" /\ pc'[v] = "judge" /\ due'[v] = due[v]
        /\ current'[v] = current[v] /\ horizon'[v] = horizon[v] /\ known'[v] = known[v]
        /\ todo'[v] = todo[v] \ {e} /\ results'[v] = results[v] \cup {RowFor(v, e)}
        /\ e \in todo[v]
    BY <1>1, <1>8 DEF JudgeEndpoint, TypeOK
  <2>2. /\ RowFor(v, e).deployment = current[v] /\ RowFor(v, e).endpoint = e
        /\ RowOK(effective, Arriving, RowFor(v, e), horizon[v])
    BY <2>1, RowForOK
  <2>3. \A r \in results'[v] : /\ r.deployment = current'[v]
                               /\ r.endpoint \notin todo'[v]
                               /\ RowOK(effective, Arriving, r, horizon[v])
    BY <1>1, <2>1, <2>2 DEF EvaluatorInv
  <2>4. \A r, s \in results'[v] : r.endpoint = s.endpoint => r = s
    BY <1>1, <2>1, <2>2 DEF EvaluatorInv
  <2>5. QED
    BY <1>1, <1>2, <2>1, <2>3, <2>4 DEF EvaluatorInv, Judging, Windowed
<1>9. CASE Leave(v)
  BY <1>1, <1>9, LeftOK
<1>10. QED
  BY <1>3, <1>4, <1>5, <1>6, <1>7, <1>8, <1>9
     DEF Evaluate, EvaluationFails, CommitVerdict, LoseRace

-----------------------------------------------------------------------------

(* Only the commit of a verdict touches the verdicts. *)
LEMMA OnlyCommitJudges ==
  ASSUME NEW v \in Evaluator, Evaluate(v) \/ EvaluationFails(v), ~ CommitVerdict(v)
  PROVE  UNCHANGED <<status, rows, incidents, judged>>
BY DEF Evaluate, EvaluationFails, StartBatch, Pick, EndBatch, ReadHorizon, ReadEndpoints,
       JudgeEndpoint, LoseRace, tables

(* What a commit does to the verdicts. *)
LEMMA CommitFacts ==
  ASSUME IInv, NEW v \in Evaluator, CommitVerdict(v)
  PROVE  /\ current[v] \in Deployment /\ ~ RowTaken(v)
         /\ Window(now, effective, current[v], horizon[v], known[v])
         /\ rows' = rows \cup results[v]
         /\ status'[current[v]] = Verdict(results[v])
         /\ judged'[current[v]] = [obs_end |-> horizon[v], known |-> known[v]]
         /\ judged'[current[v]] # NULL
         /\ \A d \in Deployment \ {current[v]} :
              status'[d] = status[d] /\ judged'[d] = judged[d]
         /\ \A r \in results[v] : /\ r \in Row /\ r.deployment = current[v]
                                  /\ RowOK(effective, Arriving, r, horizon[v])
<1>1. TypeOK /\ EvaluatorInv(v) /\ pc[v] = "judge"
  BY DEF IInv, CommitVerdict, Ready
<1>2. current[v] \in Deployment
      /\ Window(now, effective, current[v], horizon[v], known[v])
  BY <1>1 DEF EvaluatorInv, Judging, Windowed
<1>3. [obs_end |-> horizon[v], known |-> known[v]] \in Basis
  BY <1>1 DEF Basis, TypeOK
<1>4. [obs_end |-> horizon[v], known |-> known[v]] # NULL
  BY <1>3, DetectorAssumption
<1>5. /\ rows' = rows \cup results[v]
      /\ status' = [status EXCEPT ![current[v]] = Verdict(results[v])]
      /\ judged' = [judged EXCEPT ![current[v]] = [obs_end |-> horizon[v], known |-> known[v]]]
      /\ ~ RowTaken(v)
  BY DEF CommitVerdict, Conflict
<1>6. \A r \in results[v] : r \in Row
  BY <1>1 DEF TypeOK
<1>7. QED
  BY <1>1, <1>2, <1>4, <1>5, <1>6 DEF TypeOK, EvaluatorInv

LEMMA VerdictsKept ==
  ASSUME IInv, NEW v \in Evaluator, Evaluate(v) \/ EvaluationFails(v)
  PROVE  (\A d \in Deployment : VerdictInv(d)') /\ OneRowPerEndpoint'
<1>1. TypeOK /\ TypeOK' /\ Moves /\ UNCHANGED <<now, effective, checks, stamped>>
  BY TypeEvaluator, EvaluatorMoves DEF IInv
<1>2. CASE ~ CommitVerdict(v)
  <2>1. UNCHANGED <<status, rows, judged>>
    BY <1>2, OnlyCommitJudges
  <2>2. \A d \in Deployment : VerdictInv(d)'
    BY <1>1, <2>1, VerdictStays
  <2>3. QED
    BY <2>1, <2>2 DEF IInv, OneRowPerEndpoint
<1>3. CASE CommitVerdict(v)
  <2>1. ASSUME NEW d \in Deployment, d # current[v] PROVE VerdictInv(d)'
    BY <1>1, <1>3, <2>1, CommitFacts, VerdictStays
  <2>2. ASSUME NEW d \in Deployment, d = current[v] PROVE VerdictInv(d)'
    <3>1. /\ status'[d] = Verdict(results[v]) /\ judged'[d] # NULL
          /\ judged'[d] = [obs_end |-> horizon[v], known |-> known[v]]
          /\ Window(now, effective, d, horizon[v], known[v])
      BY <1>3, <2>2, CommitFacts
    <3>2. status'[d] # "pending"
      BY <3>1, VerdictFacts DEF Verdicts
    <3>3. judged'[d].obs_end = horizon[v] /\ judged'[d].known = known[v]
      BY <3>1
    <3>4. ASSUME status'[d] = "superseded" PROVE horizon[v] < WindowCloses(effective[d])
      <4>1. PICK r \in results[v] : r.outcome = "superseded"
        BY <3>1, <3>4, VerdictFacts
      <4>2. r.deployment = d /\ RowOK(effective, Arriving, r, horizon[v])
        BY <1>3, <2>2, CommitFacts
      <4>3. QED
        BY <4>1, <4>2 DEF RowOK
    <3>5. QED
      BY <1>1, <3>1, <3>2, <3>3, <3>4 DEF VerdictInv
  <2>3. OneRowPerEndpoint'
    <3>1. \A r, s \in results[v] : r.endpoint = s.endpoint => r = s
      BY DEF IInv, EvaluatorInv
    <3>2. \A r \in results[v], s \in rows :
            ~ (r.deployment = s.deployment /\ r.endpoint = s.endpoint)
      <4>1. ~ RowTaken(v)
        BY <1>3, CommitFacts
      <4>2. QED
        BY <4>1 DEF RowTaken
    <3>3. rows' = rows \cup results[v]
      BY <1>3, CommitFacts
    <3>4. \A r, s \in rows : r.deployment = s.deployment /\ r.endpoint = s.endpoint => r = s
      BY DEF IInv, OneRowPerEndpoint
    <3>5. \A r, s \in results[v] : r.deployment = s.deployment
      <4>1. \A r \in results[v] : r.deployment = current[v]
        BY <1>3, CommitFacts
      <4>2. QED
        BY <4>1
    <3>6. QED
      BY <3>1, <3>2, <3>3, <3>4, <3>5 DEF OneRowPerEndpoint
  <2>4. QED
    BY <2>1, <2>2, <2>3
<1>4. QED
  BY <1>2, <1>3

LEMMA StepInv == IInv /\ [Next]_vars => IInv'
<1> SUFFICES ASSUME IInv, [Next]_vars PROVE IInv'
  OBVIOUS
<1>1. TypeOK /\ IsFiniteSet(checks) /\ OneRowPerEndpoint
  BY DEF IInv
<1>2. CASE Environment
  <2>1. TypeOK' /\ Moves /\ IsFiniteSet(checks')
        /\ UNCHANGED <<status, rows, incidents, judged, locals>>
    BY <1>1, <1>2, TypeEnvironment, EnvironmentMoves
  <2>2. \A v \in Evaluator : EvaluatorInv(v)'
    BY <2>1, EvaluatorStays DEF locals
  <2>3. \A d \in Deployment : VerdictInv(d)'
    BY <2>1, VerdictStays
  <2>4. OneRowPerEndpoint'
    BY <1>1, <2>1 DEF OneRowPerEndpoint
  <2>5. QED
    BY <2>1, <2>2, <2>3, <2>4 DEF IInv
<1>3. ASSUME NEW v \in Evaluator, Evaluate(v) \/ EvaluationFails(v) PROVE IInv'
  <2>1. TypeOK' /\ Moves /\ checks' = checks
    BY <1>3, TypeEvaluator, EvaluatorMoves
  <2>2. ASSUME NEW w \in Evaluator PROVE EvaluatorInv(w)'
    <3>1. CASE w = v
      BY <1>3, <3>1, EvaluatorKnows
    <3>2. CASE w # v
      <4>1. /\ pc'[w] = pc[w] /\ due'[w] = due[w] /\ current'[w] = current[w]
            /\ horizon'[w] = horizon[w] /\ todo'[w] = todo[w]
            /\ results'[w] = results[w] /\ known'[w] = known[w]
        BY <1>3, <3>2, EvaluatorMoves
      <4>2. QED
        BY <2>1, <4>1, EvaluatorStays
    <3>3. QED
      BY <3>1, <3>2
  <2>3. (\A d \in Deployment : VerdictInv(d)') /\ OneRowPerEndpoint'
    BY <1>3, VerdictsKept
  <2>4. QED
    BY <1>1, <2>1, <2>2, <2>3 DEF IInv
<1>4. CASE WorkerCrashes
  <2>1. TypeOK' /\ UNCHANGED <<now, effective, checks, status, rows, judged>>
        /\ stamped' = NULL
    BY <1>1, <1>4, TypeCrash DEF WorkerCrashes, tables
  <2>2. Moves
    BY <1>1, <2>1, TimesAreNat DEF Moves, Arriving, TypeOK
  <2>3. \A v \in Evaluator : EvaluatorInv(v)'
    BY <1>4 DEF WorkerCrashes, EvaluatorInv, Judging, Windowed
  <2>4. \A d \in Deployment : VerdictInv(d)'
    BY <2>1, <2>2, VerdictStays
  <2>5. OneRowPerEndpoint'
    BY <1>1, <2>1 DEF OneRowPerEndpoint
  <2>6. QED
    BY <1>1, <2>1, <2>3, <2>4, <2>5 DEF IInv
<1>5. CASE UNCHANGED vars
  <2>1. UNCHANGED <<now, effective, checks, stamped, status, rows, incidents, judged,
                    enabled, faults, pc, due, current, horizon, todo, results, known>>
    BY <1>5 DEF vars, tables, writes, locals
  <2>2. TypeOK' /\ Moves
    BY <1>1, <2>1, TimesAreNat DEF TypeOK, Moves, Arriving
  <2>3. \A v \in Evaluator : EvaluatorInv(v)'
    BY <2>1, <2>2, EvaluatorStays
  <2>4. \A d \in Deployment : VerdictInv(d)'
    BY <2>1, <2>2, VerdictStays
  <2>5. OneRowPerEndpoint'
    BY <1>1, <2>1 DEF OneRowPerEndpoint
  <2>6. QED
    BY <1>1, <2>1, <2>2, <2>3, <2>4, <2>5 DEF IInv
<1>6. QED
  BY <1>2, <1>3, <1>4, <1>5 DEF Next

LEMMA Inductive == Spec => []IInv
<1>1. QED
  BY InitInv, StepInv, PTL DEF Spec

-----------------------------------------------------------------------------

(* Every variable keeps its type, whatever interleaves. *)
THEOREM DetectorTypeCorrect == Spec => []TypeOK
<1>1. IInv => TypeOK
  BY DEF IInv
<1>2. QED
  BY <1>1, Inductive, PTL

(* However many evaluators run, a deployment gets one row per endpoint.    *)
THEOREM RowsAreUnique == Spec => []OneRowPerEndpoint
<1>1. IInv => OneRowPerEndpoint
  BY DEF IInv
<1>2. QED
  BY <1>1, Inductive, PTL

(* However many evaluators run, superseded is said only of a deployment    *)
(* that another one followed before its window closed.                     *)
THEOREM SupersededIsTrue == Spec => []SupersededHasSuccessor
<1>1. ASSUME IInv PROVE SupersededHasSuccessor
  <2> SUFFICES ASSUME NEW d \in Deployment, status[d] = "superseded"
               PROVE  \E c \in Deployment : /\ effective[c] # NULL
                                            /\ effective[c] > effective[d]
                                            /\ effective[c] < WindowCloses(effective[d])
    BY DEF SupersededHasSuccessor
  <2>1. /\ Window(now, effective, d, judged[d].obs_end, judged[d].known)
        /\ judged[d].obs_end < WindowCloses(effective[d])
    BY <1>1 DEF IInv, VerdictInv
  <2>2. QED
    BY <2>1 DEF Window
<1>2. QED
  BY <1>1, Inductive, PTL

(* However many evaluators run, no check counts for two releases the later *)
(* of which was known when the earlier was judged.                         *)
THEOREM ChecksServeOneRelease == Spec => []NoCheckServesTwoReleases
<1>1. ASSUME IInv PROVE NoCheckServesTwoReleases
  <2> SUFFICES ASSUME NEW c \in Deployment, NEW d \in Deployment,
                      judged[c] # NULL, judged[d] # NULL, effective[c] < effective[d],
                      d \in judged[c].known,
                      NEW x \in ObservedFor(c), x \in ObservedFor(d)
               PROVE  FALSE
    BY DEF NoCheckServesTwoReleases
  <2>1. /\ Window(now, effective, c, judged[c].obs_end, judged[c].known)
        /\ Over(now, effective, c)
    BY <1>1 DEF IInv, VerdictInv, Window
  <2>2. TypeOK /\ effective[d] # NULL
    BY <1>1, <2>1 DEF IInv, Window
  <2>3. effective[c] \in Nat /\ effective[d] \in Nat /\ judged[c].obs_end \in Nat
    BY <2>1, <2>2, TimesAreNat DEF TypeOK, Over, Basis
  <2>4. judged[c].obs_end <= effective[d]
    BY <2>1, <2>3 DEF Window
  <2>5. x.checked_at \in Nat
    BY <2>2, TimesAreNat DEF ObservedFor, TypeOK, Check
  <2>6. x.checked_at < judged[c].obs_end /\ x.checked_at >= effective[d] + Defaults.warmup
    BY DEF ObservedFor
  <2>7. QED
    BY <2>3, <2>4, <2>5, <2>6, DetectorAssumption
<1>2. QED
  BY <1>1, Inductive, PTL

-----------------------------------------------------------------------------

(* One evaluator.  No verdict is given behind its back, so what it commits *)
(* is the deployment's first and only verdict.                             *)

JudgingPending == \A v \in Evaluator : Judging(v) => status[current[v]] = "pending"

RowsJudged ==
  \A r \in rows : /\ status[r.deployment] # "pending"
                  /\ RowOK(effective, Arriving, r, judged[r.deployment].obs_end)

LEMMA RowsJudgedStay ==
  ASSUME SingleInv, TypeOK', Moves, UNCHANGED <<status, rows, judged>>
  PROVE  RowsJudged'
<1> SUFFICES ASSUME NEW r \in rows
             PROVE  RowOK(effective', Arriving', r, judged[r.deployment].obs_end)
                    /\ status[r.deployment] # "pending"
  BY DEF RowsJudged
<1>1. TypeOK /\ IsFiniteSet(checks) /\ r \in Row /\ r.deployment \in Deployment
  BY DEF SingleInv, IInv, TypeOK, Row
<1>2. /\ status[r.deployment] # "pending"
      /\ RowOK(effective, Arriving, r, judged[r.deployment].obs_end)
      /\ VerdictInv(r.deployment)
  BY <1>1 DEF SingleInv, IInv
<1>3. /\ judged[r.deployment].obs_end \in Nat
      /\ Over(now, effective, r.deployment)
      /\ judged[r.deployment].obs_end <= WindowCloses(effective[r.deployment])
  BY <1>1, <1>2 DEF VerdictInv, Window, TypeOK, Basis
<1>4. QED
  BY <1>1, <1>2, <1>3, RowStays

(* The commit of a verdict on a deployment that has none. *)
LEMMA CommitIsFirst ==
  ASSUME SingleInv, NEW v \in Evaluator, CommitVerdict(v)
  PROVE  /\ status[current[v]] = "pending"
         /\ \A r \in rows : r.deployment # current[v]
         /\ current[v] \notin incidents
<1>1. status[current[v]] = "pending" /\ current[v] \in Deployment
  BY DEF SingleInv, CommitVerdict, Ready, Judging, IInv, EvaluatorInv
<1>2. \A r \in rows : r.deployment # current[v]
  BY <1>1 DEF SingleInv
<1>3. current[v] \notin incidents
  BY <1>1 DEF SingleInv, IncidentMatchesVerdict
<1>4. QED
  BY <1>1, <1>2, <1>3

LEMMA CommitKeepsRows ==
  ASSUME SingleInv, NEW v \in Evaluator, CommitVerdict(v)
  PROVE  RowsJudged'
<1> SUFFICES ASSUME NEW r \in rows'
             PROVE  /\ status'[r.deployment] # "pending"
                    /\ RowOK(effective', Arriving', r, judged'[r.deployment].obs_end)
  BY DEF RowsJudged
<1>1. IInv /\ effective' = effective /\ Arriving' = Arriving
  BY DEF SingleInv, CommitVerdict, Arriving, writes
<1>2. CASE r \in results[v]
  <2>1. r.deployment = current[v] /\ RowOK(effective, Arriving, r, horizon[v])
    BY <1>1, <1>2, CommitFacts
  <2>2. judged'[current[v]].obs_end = horizon[v]
    <3>1. judged'[current[v]] = [obs_end |-> horizon[v], known |-> known[v]]
      BY <1>1, CommitFacts
    <3>2. QED
      BY <3>1
  <2>3. status'[current[v]] # "pending"
    <3>1. status'[current[v]] = Verdict(results[v])
      BY <1>1, CommitFacts
    <3>2. QED
      BY <3>1, VerdictFacts DEF Verdicts
  <2>4. QED
    BY <1>1, <2>1, <2>2, <2>3
<1>3. CASE r \notin results[v]
  <2>1. r \in rows /\ r.deployment \in Deployment
    <3>1. rows' = rows \cup results[v]
      BY <1>1, CommitFacts
    <3>2. QED
      BY <1>1, <1>3, <3>1 DEF IInv, TypeOK, Row
  <2>2. r.deployment # current[v]
    BY <2>1, CommitIsFirst
  <2>3. /\ status'[r.deployment] = status[r.deployment]
        /\ judged'[r.deployment] = judged[r.deployment]
    BY <1>1, <2>1, <2>2, CommitFacts
  <2>4. QED
    BY <1>1, <2>1, <2>3 DEF SingleInv
<1>4. QED
  BY <1>2, <1>3

(* The incident, the status and the rows of a commit agree. *)
LEMMA CommitKeepsIncidents ==
  ASSUME SingleInv, NEW v \in Evaluator, CommitVerdict(v)
  PROVE  IncidentMatchesVerdict'
<1> DEFINE Blamed(found) == \E r \in found : r.outcome \in RegressionOutcomes
<1>1. /\ current[v] \in Deployment /\ rows' = rows \cup results[v]
      /\ status'[current[v]] = Verdict(results[v])
      /\ \A r \in results[v] : r.deployment = current[v]
  BY CommitFacts DEF SingleInv
<1>2. \A d \in Deployment \ {current[v]} : status'[d] = status[d]
  BY CommitFacts DEF SingleInv
<1>3. /\ \A r \in rows : r.deployment # current[v]
      /\ current[v] \notin incidents
  BY CommitIsFirst
<1>4. Verdict(results[v]) = "evaluated_regression" <=> Blamed(results[v])
  BY VerdictFacts
<1>5. incidents' = IF Verdict(results[v]) = "evaluated_regression"
                     THEN incidents \cup {current[v]} ELSE incidents
  BY DEF CommitVerdict
<1> SUFFICES ASSUME NEW d \in Deployment
             PROVE  /\ d \in incidents' <=> status'[d] = "evaluated_regression"
                    /\ d \in incidents' <=>
                         \E r \in rows' : r.deployment = d /\ r.outcome \in RegressionOutcomes
  BY DEF IncidentMatchesVerdict
<1>6. CASE d = current[v]
  <2>1. d \in incidents' <=> Verdict(results[v]) = "evaluated_regression"
    BY <1>3, <1>5, <1>6
  <2>2. (\E r \in rows' : r.deployment = d /\ r.outcome \in RegressionOutcomes)
          <=> Blamed(results[v])
    BY <1>1, <1>3, <1>6
  <2>3. QED
    BY <1>1, <1>4, <1>6, <2>1, <2>2
<1>7. CASE d # current[v]
  <2>1. /\ d \in incidents <=> status[d] = "evaluated_regression"
        /\ d \in incidents <=>
             \E r \in rows : r.deployment = d /\ r.outcome \in RegressionOutcomes
    BY DEF SingleInv, IncidentMatchesVerdict
  <2>2. d \in incidents' <=> d \in incidents
    BY <1>5, <1>7
  <2>3. \A r : r \in rows' /\ r.deployment = d <=> r \in rows /\ r.deployment = d
    BY <1>1, <1>7
  <2>4. QED
    BY <1>2, <1>7, <2>1, <2>2, <2>3
<1>8. QED
  BY <1>6, <1>7

LEMMA SingleStep ==
  ASSUME OneEvaluator
  PROVE  SingleInv /\ [Next]_vars => SingleInv'
<1> SUFFICES ASSUME SingleInv, [Next]_vars PROVE SingleInv'
  OBVIOUS
<1>1. IInv /\ TypeOK /\ IInv' /\ TypeOK' /\ JudgingPending
  BY StepInv DEF SingleInv, IInv, JudgingPending
<1>2. ASSUME Moves, UNCHANGED <<status, rows, incidents, judged>>,
             \A v \in Evaluator : \/ pc'[v] \in {"idle", "pick"}
                                  \/ (Judging(v) /\ current'[v] = current[v])
                                  \/ status[current'[v]] = "pending"
      PROVE  SingleInv'
  <2>1. RowsJudged'
    BY <1>1, <1>2, RowsJudgedStay
  <2>2. JudgingPending'
    BY <1>1, <1>2 DEF JudgingPending, Judging
  <2>3. IncidentMatchesVerdict'
    BY <1>2 DEF SingleInv, IncidentMatchesVerdict
  <2>4. QED
    BY <1>1, <2>1, <2>2, <2>3 DEF SingleInv, RowsJudged, JudgingPending
<1>3. CASE Environment
  <2>1. Moves /\ UNCHANGED <<status, rows, incidents, judged, locals>>
    BY <1>1, <1>3, EnvironmentMoves
  <2>2. \A v \in Evaluator : pc'[v] \in {"idle", "pick"}
                             \/ (Judging(v) /\ current'[v] = current[v])
    BY <1>1, <2>1 DEF locals, Judging, TypeOK
  <2>3. QED
    BY <1>2, <2>1, <2>2
<1>4. ASSUME NEW v \in Evaluator, Evaluate(v) \/ EvaluationFails(v) PROVE SingleInv'
  <2>1. CASE CommitVerdict(v)
    <3>1. JudgingPending'
      <4>1. pc'[v] = "pick"
        BY <1>1, <2>1 DEF CommitVerdict, Leave, TypeOK
      <4>2. QED
        BY <4>1 DEF JudgingPending, Judging, OneEvaluator
    <3>2. QED
      BY <1>1, <2>1, <3>1, CommitKeepsRows, CommitKeepsIncidents
         DEF SingleInv, RowsJudged, JudgingPending
  <2>2. CASE ~ CommitVerdict(v)
    <3>1. Moves /\ UNCHANGED <<status, rows, incidents, judged>>
      BY <1>1, <1>4, <2>2, OnlyCommitJudges, EvaluatorMoves
    <3>2. \/ pc'[v] \in {"idle", "pick"}
          \/ Judging(v) /\ current'[v] = current[v]
          \/ status[current'[v]] = "pending"
      BY <1>1, <1>4, <2>2
         DEF Evaluate, EvaluationFails, StartBatch, Pick, EndBatch, ReadHorizon,
             ReadEndpoints, JudgeEndpoint, LoseRace, Leave, Judging, TypeOK
    <3>3. QED
      BY <1>2, <3>1, <3>2 DEF OneEvaluator
  <2>3. QED
    BY <2>1, <2>2
<1>5. CASE WorkerCrashes
  <2>1. /\ UNCHANGED <<now, effective, checks, status, rows, incidents, judged>>
        /\ stamped' = NULL /\ \A v \in Evaluator : pc'[v] = "idle"
    BY <1>5 DEF WorkerCrashes, tables
  <2>2. Moves
    BY <1>1, <2>1, TimesAreNat DEF Moves, Arriving, TypeOK
  <2>3. QED
    BY <1>2, <2>1, <2>2
<1>6. CASE UNCHANGED vars
  <2>1. UNCHANGED <<now, effective, checks, stamped, status, rows, incidents, judged,
                    pc, current>>
    BY <1>6 DEF vars, tables, writes, locals
  <2>2. Moves
    BY <1>1, <2>1, TimesAreNat DEF Moves, Arriving, TypeOK
  <2>3. \A v \in Evaluator : pc'[v] \in {"idle", "pick"}
                             \/ (Judging(v) /\ current'[v] = current[v])
    BY <1>1, <2>1 DEF Judging, TypeOK
  <2>4. QED
    BY <1>2, <2>1, <2>2, <2>3
<1>7. QED
  BY <1>3, <1>4, <1>5, <1>6 DEF Next

LEMMA SingleInit == Init => SingleInv
<1> SUFFICES ASSUME Init PROVE SingleInv
  OBVIOUS
<1>1. IInv
  BY InitInv
<1>2. QED
  BY <1>1 DEF Init, SingleInv, Judging, IncidentMatchesVerdict

LEMMA SingleInductive ==
  ASSUME OneEvaluator
  PROVE  Spec => []SingleInv
<1>1. Init => SingleInv
  BY SingleInit
<1>2. SingleInv /\ [Next]_vars => SingleInv'
  BY SingleStep
<1>3. QED
  BY <1>1, <1>2, PTL DEF Spec

(* With one evaluator an incident, the status evaluated_regression and a   *)
(* row that regressed come together or not at all.                         *)
THEOREM IncidentsMatch ==
  ASSUME OneEvaluator
  PROVE  Spec => []IncidentMatchesVerdict
<1>1. SingleInv => IncidentMatchesVerdict
  BY DEF SingleInv
<1>2. QED
  BY <1>1, SingleInductive, PTL

(* With one evaluator a window cut short by a newer release is never       *)
(* reported as a plain lack of observations.                               *)
THEOREM ShortfallsAreExplained ==
  ASSUME OneEvaluator
  PROVE  Spec => []ShortfallIsExplained
<1>1. SingleInv => ShortfallIsExplained
  BY DEF SingleInv, RowOK, ShortfallIsExplained
<1>2. QED
  BY <1>1, SingleInductive, PTL

(* With one evaluator a row misses at most the one check that was being    *)
(* committed when its window was read.                                     *)
THEOREM AtMostOneCheckIsMissed ==
  ASSUME OneEvaluator
  PROVE  Spec => []MissesAtMostOneCheck
<1>1. ASSUME SingleInv PROVE MissesAtMostOneCheck
  <2> SUFFICES ASSUME NEW r \in rows
               PROVE  Cardinality(WindowChecks(r.endpoint,
                                    effective[r.deployment] + Defaults.warmup,
                                    judged[r.deployment].obs_end))
                        <= r.observed_samples + 1
    BY DEF MissesAtMostOneCheck
  <2> DEFINE start == effective[r.deployment] + Defaults.warmup
             end == judged[r.deployment].obs_end
             all == Between(Arriving, r.endpoint, start, end)
             seen == WindowChecks(r.endpoint, start, end)
  <2>1. IsFiniteSet(checks) /\ r \in Row /\ Cardinality(all) <= r.observed_samples + 1
    BY <1>1 DEF SingleInv, IInv, TypeOK, RowOK
  <2>2. seen \subseteq all
    BY DEF WindowChecks, Between, Arriving
  <2>3. IsFiniteSet(all)
    <3>1. IsFiniteSet(Arriving)
      BY <2>1, FS_AddElement DEF Arriving
    <3>2. all \subseteq Arriving
      BY DEF Between
    <3>3. QED
      BY <3>1, <3>2, FS_Subset
  <2> HIDE DEF all, seen
  <2>4. /\ Cardinality(seen) \in Nat /\ Cardinality(all) \in Nat
        /\ Cardinality(seen) <= Cardinality(all)
    BY <2>2, <2>3, FS_Subset, FS_CardinalityType
  <2>5. r.observed_samples \in Nat
    BY <2>1 DEF Row
  <2>6. Cardinality(seen) <= r.observed_samples + 1
    BY <2>1, <2>4, <2>5
  <2>7. QED
    BY <2>6 DEF seen
<1>2. QED
  BY <1>1, SingleInductive, PTL

(* With one evaluator a verdict is given once: the status of an evaluated  *)
(* deployment, its rows and its incident never change.                     *)
THEOREM VerdictsAreFinal ==
  ASSUME OneEvaluator
  PROVE  Spec => VerdictIsFinal
<1>1. ASSUME SingleInv, [Next]_vars, NEW d \in Deployment, status[d] # "pending"
      PROVE  /\ status'[d] = status[d]
             /\ {r \in rows' : r.deployment = d} = {r \in rows : r.deployment = d}
             /\ d \in incidents' <=> d \in incidents
  <2>1. CASE UNCHANGED <<status, rows, incidents>>
    BY <2>1
  <2>2. ASSUME NEW v \in Evaluator, CommitVerdict(v)
        PROVE  /\ status'[d] = status[d]
               /\ {r \in rows' : r.deployment = d} = {r \in rows : r.deployment = d}
               /\ d \in incidents' <=> d \in incidents
    <3>1. d # current[v]
      BY <1>1, <2>2, CommitIsFirst
    <3>2. status'[d] = status[d] /\ rows' = rows \cup results[v]
      BY <1>1, <2>2, <3>1, CommitFacts DEF SingleInv
    <3>3. \A r \in results[v] : r.deployment # d
      BY <1>1, <2>2, <3>1, CommitFacts DEF SingleInv
    <3>4. incidents' = incidents \/ incidents' = incidents \cup {current[v]}
      BY <2>2 DEF CommitVerdict
    <3>5. QED
      BY <3>1, <3>2, <3>3, <3>4
  <2>3. CASE Environment
    BY <1>1, <2>1, <2>3, EnvironmentMoves DEF SingleInv
  <2>4. ASSUME NEW v \in Evaluator, Evaluate(v) \/ EvaluationFails(v), ~ CommitVerdict(v)
        PROVE  UNCHANGED <<status, rows, incidents>>
    BY <2>4, OnlyCommitJudges
  <2>5. CASE WorkerCrashes
    BY <2>1, <2>5 DEF WorkerCrashes, tables
  <2>6. CASE UNCHANGED vars
    BY <2>1, <2>6 DEF vars, tables
  <2>7. QED
    BY <1>1, <2>1, <2>2, <2>3, <2>4, <2>5, <2>6 DEF Next
<1>2. SingleInv /\ [Next]_vars =>
        [\A d \in Deployment : status[d] # "pending" =>
           /\ status'[d] = status[d]
           /\ {r \in rows' : r.deployment = d} = {r \in rows : r.deployment = d}
           /\ d \in incidents' <=> d \in incidents]_vars
  BY <1>1
<1>3. QED
  BY <1>2, SingleInductive, PTL DEF Spec, VerdictIsFinal
=============================================================================
