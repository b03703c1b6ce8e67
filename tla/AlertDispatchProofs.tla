-------------------------- MODULE AlertDispatchProofs --------------------------
(***************************************************************************)
(* The outbox's safety properties for any set of incidents, any            *)
(* MaxAttempts and any number of faults and resets.                        *)
(***************************************************************************)
EXTENDS AlertDispatch, TLAPS

(* A row out of the query is never loaded, and the awaits between loading  *)
(* and sending change no row that waits in the batch.                      *)
BatchInv ==
  \A i \in batch :
    /\ loaded[i] = attempts[i]
    /\ attempts[i] < MaxAttempts
    /\ status[i] # "sent"

(* The operator's reading stays true but for the outcome of an attempt     *)
(* under way: a row out of attempts is in no batch and gets no more.       *)
NotedInv ==
  \A i \in noted : attempts[i] = MaxAttempts /\ status[i] # "none"

NoRowInv == \A i \in Incident : status[i] = "none" => attempts[i] = 0

Busy == pc \in {"sending", "mark_sent", "mark_failed"}

(* The row being sent is out of the batch and pending in the table.        *)
CurrentInv ==
  Busy => /\ current \in Incident
          /\ current \notin batch
          /\ status[current] = "pending"

(* A send under way is already counted in attempts.                        *)
UnderWay(i) == IF pc = "sending" /\ current = i THEN 1 ELSE 0

CountInv ==
  \A i \in Incident :
    /\ attempts[i] <= MaxAttempts
    /\ delivered[i] + UnderWay(i) <= MaxAttempts * resets[i] + attempts[i]

DeliveredInv ==
  /\ pc = "mark_sent" => delivered[current] > 0
  /\ SentWasDelivered

IInv ==
  /\ TypeOK
  /\ BatchInv
  /\ NotedInv
  /\ NoRowInv
  /\ CurrentInv
  /\ CountInv
  /\ DeliveredInv

-----------------------------------------------------------------------------

(* Counting one more message leaves the counters natural numbers. *)
LEMMA CountUp ==
  ASSUME NEW f \in [Incident -> Nat], NEW i
  PROVE  [f EXCEPT ![i] = @ + 1] \in [Incident -> Nat]
<1> DEFINE g == [f EXCEPT ![i] = @ + 1]
<1>1. g = [j \in Incident |-> IF j = i THEN f[i] + 1 ELSE f[j]]
  OBVIOUS
<1>2. ASSUME NEW j \in Incident
      PROVE  (IF j = i THEN f[i] + 1 ELSE f[j]) \in Nat
  <2>1. CASE j = i
    <3>1. f[j] \in Nat
      OBVIOUS
    <3>2. f[i] + 1 \in Nat
      BY <2>1, <3>1
    <3> QED
      BY <2>1, <3>2
  <2>2. CASE j # i
    BY <2>2
  <2> QED
    BY <2>1, <2>2
<1> HIDE DEF g
<1> QED
  BY <1>1, <1>2 DEF g

(* One reset grants MaxAttempts more messages. *)
LEMMA OneMoreGrant ==
  ASSUME NEW m \in Nat, NEW r \in Nat
  PROVE  m * r \in Nat /\ m * (r + 1) = m * r + m
  OBVIOUS

(* Every step keeps the types. *)
LEMMA TypeStep == TypeOK /\ [Next]_vars => TypeOK'
<1> SUFFICES ASSUME TypeOK, [Next]_vars PROVE TypeOK'
  OBVIOUS
<1> USE DispatchAssumption DEF TypeOK, RowStatus, rows
<1>1. CASE StartRun
  BY <1>1 DEF StartRun, Due
<1>2. ASSUME NEW i \in Incident, Attempt(i) PROVE TypeOK'
  BY <1>2 DEF Attempt
<1>3. CASE EndRun
  BY <1>3 DEF EndRun
<1>4. CASE Deliver
  <2>1. delivered' \in [Incident -> Nat]
    BY <1>4, CountUp DEF Deliver, Arrive
  <2> QED
    BY <1>4, <2>1 DEF Deliver
<1>5. CASE Reject
  BY <1>5 DEF Reject
<1>6. CASE DeliverUnconfirmed
  <2>1. delivered' \in [Incident -> Nat]
    BY <1>6, CountUp DEF DeliverUnconfirmed, Arrive
  <2> QED
    BY <1>6, <2>1 DEF DeliverUnconfirmed, Fault
<1>7. CASE MarkSent
  BY <1>7 DEF MarkSent, Mark
<1>8. CASE MarkFailed
  BY <1>8 DEF MarkFailed, Mark
<1>9. CASE AbortRun
  BY <1>9 DEF AbortRun, Fault
<1>10. CASE SwitchChannel
  BY <1>10 DEF SwitchChannel
<1>11. ASSUME NEW i \in Incident, OpenIncident(i) PROVE TypeOK'
  BY <1>11 DEF OpenIncident
<1>12. ASSUME NEW i \in Incident, ResetAttempts(i) PROVE TypeOK'
  <2>1. resets' \in [Incident -> Nat]
    BY <1>12, CountUp DEF ResetAttempts
  <2> QED
    BY <1>12, <2>1 DEF ResetAttempts
<1>13. ASSUME NEW i \in Incident, NoteStuck(i) PROVE TypeOK'
  BY <1>13 DEF NoteStuck
<1>14. CASE UNCHANGED vars
  BY <1>14 DEF vars
<1> QED
  BY <1>1, <1>2, <1>3, <1>4, <1>5, <1>6, <1>7, <1>8, <1>9, <1>10, <1>11,
     <1>12, <1>13, <1>14 DEF Next, Dispatch

(* The state is well typed: in particular the alert's status stays within  *)
(* the column's CHECK and the counters never go below zero.                *)
THEOREM TypeCorrect == Spec => []TypeOK
<1>1. Init => TypeOK
  BY DispatchAssumption DEF Init, TypeOK, RowStatus
<1> QED
  BY <1>1, TypeStep, PTL DEF Spec

-----------------------------------------------------------------------------

(* The outbox starts empty. *)
LEMMA InitIInv == Init => IInv
<1> SUFFICES ASSUME Init PROVE IInv
  OBVIOUS
<1>1. TypeOK
  BY DispatchAssumption DEF Init, TypeOK, RowStatus
<1>2. CountInv
  <2> SUFFICES ASSUME NEW i \in Incident
               PROVE  /\ attempts[i] <= MaxAttempts
                      /\ delivered[i] + UnderWay(i) <= MaxAttempts * resets[i] + attempts[i]
    BY DEF CountInv
  <2>1. MaxAttempts \in Nat /\ MaxAttempts * resets[i] = 0
    BY DispatchAssumption DEF Init
  <2> QED
    BY <2>1 DEF Init, UnderWay
<1>3. BatchInv /\ NotedInv /\ NoRowInv /\ CurrentInv /\ DeliveredInv
  BY DEF Init, BatchInv, NotedInv, NoRowInv, CurrentInv, Busy, DeliveredInv, SentWasDelivered
<1> QED
  BY <1>1, <1>2, <1>3 DEF IInv

(* The rows waiting in the batch stay as they were loaded: the sends       *)
(* before them touch other rows, and the operator's UPDATE only a row that *)
(* is out of attempts since he read it, which the query left out.          *)
LEMMA BatchStep == IInv /\ [Next]_vars => BatchInv'
<1> SUFFICES ASSUME IInv, [Next]_vars PROVE BatchInv'
  OBVIOUS
<1> USE DispatchAssumption DEF IInv, TypeOK, RowStatus, rows, BatchInv
<1>1. CASE StartRun
  <2>1. \A i \in Due : attempts[i] < MaxAttempts /\ status[i] # "sent"
    BY DEF Due, NoRowInv
  <2> QED
    BY <1>1, <2>1 DEF StartRun
<1>2. ASSUME NEW i \in Incident, Attempt(i) PROVE BatchInv'
  BY <1>2 DEF Attempt
<1>3. CASE EndRun
  BY <1>3 DEF EndRun
<1>4. CASE Deliver \/ Reject \/ DeliverUnconfirmed
  BY <1>4 DEF Deliver, Reject, DeliverUnconfirmed
<1>5. CASE MarkSent \/ MarkFailed
  BY <1>5 DEF MarkSent, MarkFailed, Mark, CurrentInv, Busy
<1>6. CASE AbortRun \/ SwitchChannel
  BY <1>6 DEF AbortRun, SwitchChannel
<1>7. ASSUME NEW i \in Incident, OpenIncident(i) PROVE BatchInv'
  BY <1>7 DEF OpenIncident
<1>8. ASSUME NEW i \in Incident, NoteStuck(i) \/ ResetAttempts(i) PROVE BatchInv'
  <2>1. i \notin batch
    BY <1>8 DEF NoteStuck, ResetAttempts, NotedInv
  <2> QED
    BY <1>8, <2>1 DEF NoteStuck, ResetAttempts
<1>9. CASE UNCHANGED vars
  BY <1>9 DEF vars
<1> QED
  BY <1>1, <1>2, <1>3, <1>4, <1>5, <1>6, <1>7, <1>8, <1>9 DEF Next, Dispatch

(* What the operator has read of a row outlives every step of the runs. *)
LEMMA NotedStep == IInv /\ [Next]_vars => NotedInv'
<1> SUFFICES ASSUME IInv, [Next]_vars PROVE NotedInv'
  OBVIOUS
<1> USE DispatchAssumption DEF IInv, TypeOK, RowStatus, rows, NotedInv
<1>1. CASE StartRun \/ EndRun
  BY <1>1 DEF StartRun, EndRun
<1>2. ASSUME NEW i \in Incident, Attempt(i) PROVE NotedInv'
  <2>1. i \notin noted
    BY <1>2 DEF Attempt, BatchInv
  <2> QED
    BY <1>2, <2>1 DEF Attempt
<1>3. CASE Deliver \/ Reject \/ DeliverUnconfirmed
  BY <1>3 DEF Deliver, Reject, DeliverUnconfirmed
<1>4. CASE MarkSent \/ MarkFailed
  BY <1>4 DEF MarkSent, MarkFailed, Mark
<1>5. CASE AbortRun \/ SwitchChannel
  BY <1>5 DEF AbortRun, SwitchChannel
<1>6. ASSUME NEW i \in Incident, OpenIncident(i) PROVE NotedInv'
  BY <1>6 DEF OpenIncident
<1>7. ASSUME NEW i \in Incident, NoteStuck(i) \/ ResetAttempts(i) PROVE NotedInv'
  BY <1>7 DEF NoteStuck, ResetAttempts
<1>8. CASE UNCHANGED vars
  BY <1>8 DEF vars
<1> QED
  BY <1>1, <1>2, <1>3, <1>4, <1>5, <1>6, <1>7, <1>8 DEF Next, Dispatch

(* The row being sent keeps its status through an operator's reset. *)
LEMMA RowStep == IInv /\ [Next]_vars => NoRowInv' /\ CurrentInv'
<1> SUFFICES ASSUME IInv, [Next]_vars PROVE NoRowInv' /\ CurrentInv'
  OBVIOUS
<1> USE DispatchAssumption
    DEF IInv, TypeOK, RowStatus, rows, NoRowInv, CurrentInv, Busy
<1>1. CASE StartRun
  BY <1>1 DEF StartRun
<1>2. ASSUME NEW i \in Incident, Attempt(i) PROVE NoRowInv' /\ CurrentInv'
  BY <1>2 DEF Attempt
<1>3. CASE EndRun
  BY <1>3 DEF EndRun
<1>4. CASE Deliver \/ Reject \/ DeliverUnconfirmed
  BY <1>4 DEF Deliver, Reject, DeliverUnconfirmed
<1>5. CASE MarkSent \/ MarkFailed
  BY <1>5 DEF MarkSent, MarkFailed, Mark
<1>6. CASE AbortRun \/ SwitchChannel
  BY <1>6 DEF AbortRun, SwitchChannel
<1>7. ASSUME NEW i \in Incident, OpenIncident(i) PROVE NoRowInv' /\ CurrentInv'
  BY <1>7 DEF OpenIncident
<1>8. ASSUME NEW i \in Incident, NoteStuck(i) \/ ResetAttempts(i)
      PROVE  NoRowInv' /\ CurrentInv'
  BY <1>8 DEF NoteStuck, ResetAttempts, NotedInv
<1>9. CASE UNCHANGED vars
  BY <1>9 DEF vars
<1> QED
  BY <1>1, <1>2, <1>3, <1>4, <1>5, <1>6, <1>7, <1>8, <1>9 DEF Next, Dispatch

(* No message without an attempt that counts it. *)
LEMMA CountStep == IInv /\ [Next]_vars => CountInv'
<1> SUFFICES ASSUME IInv, [Next]_vars, NEW j \in Incident
             PROVE  /\ attempts'[j] <= MaxAttempts
                    /\ delivered'[j] + UnderWay(j)' <= MaxAttempts * resets'[j] + attempts'[j]
  BY DEF CountInv
<1> DEFINE Granted == MaxAttempts * resets[j]
<1>0. /\ Granted \in Nat /\ MaxAttempts \in Nat
      /\ MaxAttempts * (resets[j] + 1) = Granted + MaxAttempts
  BY DispatchAssumption, OneMoreGrant DEF IInv, TypeOK
<1>a. /\ attempts[j] <= MaxAttempts
      /\ delivered[j] + UnderWay(j) <= Granted + attempts[j]
  BY DEF IInv, CountInv
<1>b. attempts[j] \in Nat /\ delivered[j] \in Nat
  BY DEF IInv, TypeOK
<1>c. ASSUME resets' = resets,
             /\ attempts'[j] <= MaxAttempts
             /\ delivered'[j] + UnderWay(j)' <= Granted + attempts'[j]
      PROVE  /\ attempts'[j] <= MaxAttempts
             /\ delivered'[j] + UnderWay(j)' <= MaxAttempts * resets'[j] + attempts'[j]
  BY <1>c
<1> HIDE DEF Granted
<1>1. CASE StartRun \/ EndRun
  BY <1>1, <1>0, <1>a, <1>b, <1>c DEF StartRun, EndRun, rows, UnderWay
<1>2. ASSUME NEW i \in Incident, Attempt(i)
      PROVE  /\ attempts'[j] <= MaxAttempts
             /\ delivered'[j] + UnderWay(j)' <= MaxAttempts * resets'[j] + attempts'[j]
  <2>1. attempts'[i] = attempts[i] + 1 /\ attempts[i] < MaxAttempts
    BY <1>2 DEF Attempt, IInv, BatchInv, TypeOK
  <2> QED
    BY <1>2, <2>1, <1>0, <1>a, <1>b, <1>c DEF Attempt, UnderWay, IInv, TypeOK
<1>3. CASE Deliver \/ DeliverUnconfirmed
  <2>1. UnderWay(j) = IF current = j THEN 1 ELSE 0
    BY <1>3 DEF Deliver, DeliverUnconfirmed, UnderWay
  <2>2. delivered'[j] = delivered[j] + UnderWay(j)
    BY <1>3, <2>1, <1>b DEF Deliver, DeliverUnconfirmed, Arrive, IInv, TypeOK
  <2>3. UnderWay(j)' = 0
    BY <1>3 DEF Deliver, DeliverUnconfirmed, UnderWay
  <2> QED
    BY <1>3, <2>1, <2>2, <2>3, <1>0, <1>a, <1>b, <1>c DEF Deliver, DeliverUnconfirmed, rows
<1>4. CASE Reject \/ MarkSent \/ MarkFailed \/ AbortRun
  BY <1>4, <1>0, <1>a, <1>b, <1>c
     DEF Reject, MarkSent, MarkFailed, Mark, AbortRun, rows, UnderWay
<1>5. CASE SwitchChannel
  BY <1>5, <1>0, <1>a, <1>b, <1>c DEF SwitchChannel, rows, UnderWay
<1>6. ASSUME NEW i \in Incident, OpenIncident(i)
      PROVE  /\ attempts'[j] <= MaxAttempts
             /\ delivered'[j] + UnderWay(j)' <= MaxAttempts * resets'[j] + attempts'[j]
  BY <1>6, <1>0, <1>a, <1>b, <1>c DEF OpenIncident, rows, UnderWay
<1>7. ASSUME NEW i \in Incident, ResetAttempts(i)
      PROVE  /\ attempts'[j] <= MaxAttempts
             /\ delivered'[j] + UnderWay(j)' <= MaxAttempts * resets'[j] + attempts'[j]
  <2>1. UnderWay(j)' = UnderWay(j) /\ delivered'[j] = delivered[j]
    BY <1>7 DEF ResetAttempts, UnderWay
  <2>2. CASE i = j
    <3>1. attempts[j] = MaxAttempts /\ attempts'[j] = 0 /\ resets'[j] = resets[j] + 1
      BY <1>7, <2>2 DEF ResetAttempts, IInv, TypeOK, NotedInv
    <3>2. UnderWay(j) \in Nat
      BY DEF UnderWay
    <3> QED
      BY <2>1, <3>1, <3>2, <1>0, <1>a, <1>b
  <2>3. CASE i # j
    <3>1. attempts'[j] = attempts[j] /\ resets'[j] = resets[j]
      BY <1>7, <2>3 DEF ResetAttempts, IInv, TypeOK
    <3> QED
      BY <2>1, <3>1, <1>a DEF Granted
  <2> QED
    BY <2>2, <2>3
<1>8. ASSUME NEW i \in Incident, NoteStuck(i)
      PROVE  /\ attempts'[j] <= MaxAttempts
             /\ delivered'[j] + UnderWay(j)' <= MaxAttempts * resets'[j] + attempts'[j]
  BY <1>8, <1>0, <1>a, <1>b, <1>c DEF NoteStuck, rows, UnderWay
<1>9. CASE UNCHANGED vars
  BY <1>9, <1>0, <1>a, <1>b, <1>c DEF vars, UnderWay
<1> QED
  BY <1>1, <1>2, <1>3, <1>4, <1>5, <1>6, <1>7, <1>8, <1>9 DEF Next, Dispatch

(* "sent" is written only after a call that returned. *)
LEMMA DeliveredStep == IInv /\ [Next]_vars => DeliveredInv'
<1> SUFFICES ASSUME IInv, [Next]_vars PROVE DeliveredInv'
  OBVIOUS
<1> USE DispatchAssumption
    DEF IInv, TypeOK, RowStatus, rows, CurrentInv, Busy, DeliveredInv, SentWasDelivered
<1>1. CASE StartRun \/ EndRun
  BY <1>1 DEF StartRun, EndRun
<1>2. ASSUME NEW i \in Incident, Attempt(i) PROVE DeliveredInv'
  BY <1>2 DEF Attempt
<1>3. CASE Deliver \/ DeliverUnconfirmed
  <2>1. current \in Incident /\ status[current] = "pending"
    BY <1>3 DEF Deliver, DeliverUnconfirmed
  <2>2. \A i \in Incident : delivered'[i] >= delivered[i]
    BY <1>3, <2>1 DEF Deliver, DeliverUnconfirmed, Arrive
  <2>3. delivered'[current] > 0
    BY <1>3, <2>1 DEF Deliver, DeliverUnconfirmed, Arrive
  <2>4. status' = status /\ current' = current
    BY <1>3 DEF Deliver, DeliverUnconfirmed
  <2>5. TypeOK'
    BY TypeStep
  <2> QED
    BY <2>1, <2>2, <2>3, <2>4, <2>5
<1>4. CASE Reject
  BY <1>4 DEF Reject
<1>5. CASE MarkSent \/ MarkFailed
  BY <1>5 DEF MarkSent, MarkFailed, Mark
<1>6. CASE AbortRun \/ SwitchChannel
  BY <1>6 DEF AbortRun, SwitchChannel
<1>7. ASSUME NEW i \in Incident, OpenIncident(i) PROVE DeliveredInv'
  BY <1>7 DEF OpenIncident
<1>8. ASSUME NEW i \in Incident, NoteStuck(i) \/ ResetAttempts(i) PROVE DeliveredInv'
  BY <1>8 DEF NoteStuck, ResetAttempts
<1>9. CASE UNCHANGED vars
  BY <1>9 DEF vars
<1> QED
  BY <1>1, <1>2, <1>3, <1>4, <1>5, <1>6, <1>7, <1>8, <1>9 DEF Next, Dispatch

(* The inductive invariant holds in every reachable state. *)
LEMMA IInvHolds == Spec => []IInv
<1>1. IInv /\ [Next]_vars => IInv'
  BY TypeStep, BatchStep, NotedStep, RowStep, CountStep, DeliveredStep DEF IInv
<1> QED
  BY <1>1, InitIInv, PTL DEF Spec

-----------------------------------------------------------------------------

(* The chat never gets more messages about an incident than the attempts   *)
(* its row records, plus MaxAttempts for each manual reset, through any    *)
(* number of crashes, failed commits and lost answers.                     *)
THEOREM DuplicatesBounded == Spec => []MessagesWithinAttempts
<1>1. IInv => MessagesWithinAttempts
  <2> SUFFICES ASSUME IInv, NEW i \in Incident
               PROVE  /\ attempts[i] <= MaxAttempts
                      /\ delivered[i] <= MaxAttempts * resets[i] + attempts[i]
    BY DEF MessagesWithinAttempts
  <2>1. MaxAttempts * resets[i] \in Nat /\ attempts[i] \in Nat /\ delivered[i] \in Nat
    BY OneMoreGrant, DispatchAssumption DEF IInv, TypeOK
  <2>2. UnderWay(i) \in Nat
    BY DEF UnderWay
  <2> DEFINE Granted == MaxAttempts * resets[i]
  <2>3. Granted \in Nat /\ attempts[i] <= MaxAttempts
        /\ delivered[i] + UnderWay(i) <= Granted + attempts[i]
    BY <2>1 DEF IInv, CountInv
  <2> HIDE DEF Granted
  <2>4. delivered[i] <= Granted + attempts[i]
    BY <2>1, <2>2, <2>3
  <2> QED
    BY <2>3, <2>4 DEF Granted
<1> QED
  BY <1>1, IInvHolds, PTL

(* A row says "sent" only if its message reached the chat. *)
THEOREM SentImpliesDelivered == Spec => []SentWasDelivered
<1>1. IInv => SentWasDelivered
  BY DEF IInv, DeliveredInv
<1> QED
  BY <1>1, IInvHolds, PTL

(* The rows a run loaded are still current when it comes to them. *)
THEOREM BatchStaysFresh == Spec => []BatchIsFresh
<1>1. IInv => BatchIsFresh
  BY DEF IInv, BatchInv, BatchIsFresh
<1> QED
  BY <1>1, IInvHolds, PTL

(* No step repeats the message of an incident whose alert is sent, and     *)
(* none but the operator's UPDATE of a row he had read touches the row.    *)
THEOREM SentStaysSent == Spec => SentIsFinal
<1> DEFINE Final ==
      \A i \in Incident : status[i] = "sent" =>
        /\ delivered'[i] = delivered[i]
        /\ \/ status'[i] = "sent" /\ attempts'[i] = attempts[i]
           \/ i \in noted /\ resets'[i] = resets[i] + 1
<1>1. IInv /\ [Next]_vars => [Final]_vars
  <2> SUFFICES ASSUME IInv, Next, NEW i \in Incident, status[i] = "sent"
               PROVE  /\ delivered'[i] = delivered[i]
                      /\ \/ status'[i] = "sent" /\ attempts'[i] = attempts[i]
                         \/ i \in noted /\ resets'[i] = resets[i] + 1
    OBVIOUS
  <2> USE DEF IInv, TypeOK, rows, BatchInv, CurrentInv, Busy
  <2>1. CASE StartRun \/ EndRun
    BY <2>1 DEF StartRun, EndRun
  <2>2. ASSUME NEW j \in Incident, Attempt(j)
        PROVE  /\ status'[i] = "sent"
               /\ attempts'[i] = attempts[i]
               /\ delivered'[i] = delivered[i]
    BY <2>2 DEF Attempt
  <2>3. CASE Deliver \/ Reject \/ DeliverUnconfirmed
    BY <2>3 DEF Deliver, Reject, DeliverUnconfirmed, Arrive
  <2>4. CASE MarkSent \/ MarkFailed
    BY <2>4 DEF MarkSent, MarkFailed, Mark
  <2>5. CASE AbortRun \/ SwitchChannel
    BY <2>5 DEF AbortRun, SwitchChannel
  <2>6. ASSUME NEW j \in Incident, OpenIncident(j) \/ NoteStuck(j)
        PROVE  /\ status'[i] = "sent"
               /\ attempts'[i] = attempts[i]
               /\ delivered'[i] = delivered[i]
    BY <2>6 DEF OpenIncident, NoteStuck
  <2>7. ASSUME NEW j \in Incident, ResetAttempts(j)
        PROVE  /\ delivered'[i] = delivered[i]
               /\ \/ status'[i] = "sent" /\ attempts'[i] = attempts[i]
                  \/ i \in noted /\ resets'[i] = resets[i] + 1
    BY <2>7 DEF ResetAttempts
  <2> QED
    BY <2>1, <2>2, <2>3, <2>4, <2>5, <2>6, <2>7 DEF Next, Dispatch
<1> QED
  BY <1>1, IInvHolds, PTL DEF Spec, SentIsFinal
=============================================================================
