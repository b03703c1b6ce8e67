---------------------------- MODULE AlertDispatch ----------------------------
(***************************************************************************)
(* The alert outbox: dispatch_pending_alerts                               *)
(* (releasepulse/alerting/dispatch.py) as the worker's dispatch_alerts job *)
(* runs it every 30 seconds, one run at a time (max_instances=1, one       *)
(* worker).  Each incident is sent on one channel.  The run loads its rows *)
(* once, then for each of them commits, awaits the HTTP call and commits   *)
(* again; the detector and operators write to the database in between, and *)
(* the worker may die or lose the database at any of these points.         *)
(***************************************************************************)
EXTENDS Naturals

CONSTANTS
  Incident,     \* incidents the detector may open
  None,         \* no incident
  MaxAttempts,  \* max_attempts, DEFAULT_MAX_ATTEMPTS = 5 in the code
  MaxFaults,    \* bound on crashes, failed commits and lost answers
  MaxResets     \* bound on the runbook's manual reset, per alert

ASSUME DispatchAssumption ==
  /\ None \notin Incident
  /\ MaxAttempts \in Nat \ {0}
  /\ MaxFaults \in Nat
  /\ MaxResets \in Nat

VARIABLES
  incidents,  \* rows of table incidents
  status,     \* alerts.status of an incident's row, "none" without a row
  attempts,   \* alerts.attempts
  pc,         \* where the run is
  batch,      \* loaded rows the run has not come to
  loaded,     \* attempts of those rows as the session loaded them
  current,    \* the incident being sent
  channel,    \* whether Telegram accepts this worker's messages
  delivered,  \* messages that reached the chat, per incident
  resets,     \* manual resets so far, per incident
  noted,      \* incidents whose stuck row the operator has read
  faults      \* faults so far

rows == <<status, attempts>>
vars == <<incidents, status, attempts, pc, batch, loaded, current, channel,
          delivered, resets, noted, faults>>

RowStatus == {"none", "pending", "failed", "sent"}

TypeOK ==
  /\ incidents \subseteq Incident
  /\ status \in [Incident -> RowStatus]
  /\ attempts \in [Incident -> Nat]
  /\ pc \in {"idle", "next", "sending", "mark_sent", "mark_failed"}
  /\ batch \subseteq Incident
  /\ loaded \in [Incident -> Nat]
  /\ current \in Incident \cup {None}
  /\ channel \in {"up", "down"}
  /\ delivered \in [Incident -> Nat]
  /\ resets \in [Incident -> Nat]
  /\ noted \subseteq Incident
  /\ faults \in 0..MaxFaults

Init ==
  /\ incidents = {}
  /\ status = [i \in Incident |-> "none"]
  /\ attempts = [i \in Incident |-> 0]
  /\ pc = "idle"
  /\ batch = {}
  /\ loaded = [i \in Incident |-> 0]
  /\ current = None
  /\ channel = "up"
  /\ delivered = [i \in Incident |-> 0]
  /\ resets = [i \in Incident |-> 0]
  /\ noted = {}
  /\ faults = 0

-----------------------------------------------------------------------------

(* Mutant: only failed rows are retried. *)
DueIgnoringPending ==
  {i \in incidents :
     \/ status[i] = "none"
     \/ status[i] = "failed" /\ attempts[i] < MaxAttempts}

(* Mutant: every row without a sent_at is retried for ever. *)
DueUnlimited == {i \in incidents : status[i] # "sent"}

(* Mutant: the query forgets the status. *)
DueWhateverStatus == {i \in incidents : attempts[i] < MaxAttempts}

(* The rows the query selects: no alert yet, or one that is not sent and   *)
(* has attempts left.                                                      *)
Due ==
  {i \in incidents :
     \/ status[i] = "none"
     \/ status[i] \in {"pending", "failed"} /\ attempts[i] < MaxAttempts}

(* The detector commits a new incident. *)
OpenIncident(i) ==
  /\ i \notin incidents
  /\ incidents' = incidents \cup {i}
  /\ UNCHANGED <<rows, pc, batch, loaded, current, channel, delivered,
                 resets, noted, faults>>

(* The job's tick.  A tick with nothing due changes nothing. *)
StartRun ==
  /\ pc = "idle"
  /\ Due # {}
  /\ batch' = Due
  /\ loaded' = attempts
  /\ pc' = "next"
  /\ UNCHANGED <<incidents, rows, current, channel, delivered,
                 resets, noted, faults>>

(* Mutant: the attempt is not counted before the call. *)
AttemptUncounted(i) ==
  /\ pc = "next"
  /\ i \in batch
  /\ status' = [status EXCEPT ![i] = "pending"]
  /\ batch' = batch \ {i}
  /\ current' = i
  /\ pc' = "sending"
  /\ UNCHANGED <<incidents, attempts, loaded, channel, delivered,
                 resets, noted, faults>>

(* The next row, in no given order: created if there is none, its attempt  *)
(* counted from the value loaded with the batch, and committed before the  *)
(* call.                                                                   *)
Attempt(i) ==
  /\ pc = "next"
  /\ i \in batch
  /\ status' = [status EXCEPT ![i] = "pending"]
  /\ attempts' = [attempts EXCEPT ![i] = loaded[i] + 1]
  /\ batch' = batch \ {i}
  /\ current' = i
  /\ pc' = "sending"
  /\ UNCHANGED <<incidents, loaded, channel, delivered, resets, noted, faults>>

EndRun ==
  /\ pc = "next"
  /\ batch = {}
  /\ pc' = "idle"
  /\ UNCHANGED <<incidents, rows, batch, loaded, current, channel, delivered,
                 resets, noted, faults>>

Fault == faults < MaxFaults /\ faults' = faults + 1

Arrive == delivered' = [delivered EXCEPT ![current] = @ + 1]

(* send_incident returns. *)
Deliver ==
  /\ pc = "sending"
  /\ channel = "up"
  /\ Arrive
  /\ pc' = "mark_sent"
  /\ UNCHANGED <<incidents, rows, batch, loaded, current, channel,
                 resets, noted, faults>>

(* Mutant: the sender does not raise_for_status. *)
RejectUnnoticed ==
  /\ pc = "sending"
  /\ channel = "down"
  /\ pc' = "mark_sent"
  /\ UNCHANGED <<incidents, rows, batch, loaded, current, channel, delivered,
                 resets, noted, faults>>

(* send_incident raises: the token is refused, or there is no network. *)
Reject ==
  /\ pc = "sending"
  /\ channel = "down"
  /\ pc' = "mark_failed"
  /\ UNCHANGED <<incidents, rows, batch, loaded, current, channel, delivered,
                 resets, noted, faults>>

(* send_incident raises although the message arrived: the answer is late   *)
(* or lost.                                                                *)
DeliverUnconfirmed ==
  /\ pc = "sending"
  /\ channel = "up"
  /\ Fault
  /\ Arrive
  /\ pc' = "mark_failed"
  /\ UNCHANGED <<incidents, rows, batch, loaded, current, channel, resets, noted>>

Mark(outcome) ==
  /\ status' = [status EXCEPT ![current] = outcome]
  /\ current' = None
  /\ pc' = "next"
  /\ UNCHANGED <<incidents, attempts, batch, loaded, channel, delivered,
                 resets, noted, faults>>

(* Mutant: a status outside the column's CHECK. *)
MarkError == pc = "mark_failed" /\ Mark("error")

MarkSent == pc = "mark_sent" /\ Mark("sent")
MarkFailed == pc = "mark_failed" /\ Mark("failed")

(* The worker dies or is stopped during the await (CancelledError is not   *)
(* an Exception), or a commit raises and ends the whole run: what is       *)
(* committed stays, the rest of the batch waits for another tick.          *)
AbortRun ==
  /\ pc # "idle"
  /\ Fault
  /\ pc' = "idle"
  /\ batch' = {}
  /\ current' = None
  /\ UNCHANGED <<incidents, rows, loaded, channel, delivered, resets, noted>>

(* The channel breaks (a bad token is rolled out, an outage) or recovers. *)
SwitchChannel ==
  /\ channel' = IF channel = "up" THEN "down" ELSE "up"
  /\ UNCHANGED <<incidents, rows, pc, batch, loaded, current, delivered,
                 resets, noted, faults>>

(* The operator reads a row stuck at max attempts, the last of which may   *)
(* still be under way.                                                     *)
NoteStuck(i) ==
  /\ status[i] \in {"pending", "failed"}
  /\ attempts[i] = MaxAttempts
  /\ resets[i] < MaxResets
  /\ noted' = noted \cup {i}
  /\ UNCHANGED <<incidents, rows, pc, batch, loaded, current, channel, delivered,
                 resets, faults>>

(* The runbook's UPDATE, later: it names the row and asks nothing of it,   *)
(* which may have been sent since.                                         *)
ResetAttempts(i) ==
  /\ i \in noted
  /\ noted' = noted \ {i}
  /\ status' = [status EXCEPT ![i] = "pending"]
  /\ attempts' = [attempts EXCEPT ![i] = 0]
  /\ resets' = [resets EXCEPT ![i] = @ + 1]
  /\ UNCHANGED <<incidents, pc, batch, loaded, current, channel, delivered, faults>>

-----------------------------------------------------------------------------

Dispatch ==
  \/ StartRun
  \/ \E i \in Incident : Attempt(i)
  \/ EndRun
  \/ Deliver
  \/ Reject
  \/ DeliverUnconfirmed
  \/ MarkSent
  \/ MarkFailed

Next ==
  \/ Dispatch
  \/ AbortRun
  \/ SwitchChannel
  \/ \E i \in Incident : OpenIncident(i) \/ NoteStuck(i) \/ ResetAttempts(i)

Spec == Init /\ [][Next]_vars

(* The scheduler keeps firing the job and httpx bounds the call (5 s by    *)
(* default), so a run that can take a step takes one.                      *)
FairSpec == Spec /\ WF_vars(Dispatch)

-----------------------------------------------------------------------------

(* Properties. *)

(* Duplicates are bounded: through crashes during the call, lost answers   *)
(* and failed commits no more messages reach the chat than attempts are    *)
(* recorded, and no more than MaxAttempts unless an operator resets the    *)
(* row, which grants MaxAttempts more.                                     *)
MessagesWithinAttempts ==
  \A i \in Incident :
    /\ attempts[i] <= MaxAttempts
    /\ delivered[i] <= MaxAttempts * resets[i] + attempts[i]

(* A row says "sent" only if the message arrived.                          *)
SentWasDelivered ==
  \A i \in Incident : status[i] = "sent" => delivered[i] > 0

(* The attempts loaded at the start of the run are still the row's when    *)
(* its turn comes, however many calls were awaited before it and although  *)
(* operators update the table: no increment is lost and no reset undone.   *)
BatchIsFresh == \A i \in batch : loaded[i] = attempts[i] /\ status[i] # "sent"

(* Once sent, never again: while a row says "sent" its message is not      *)
(* repeated, and no later run touches the row.  Only an operator reopens   *)
(* it, with an UPDATE decided on while the last attempt was under way.     *)
SentIsFinal ==
  [][\A i \in Incident : status[i] = "sent" =>
       /\ delivered'[i] = delivered[i]
       /\ \/ status'[i] = "sent" /\ attempts'[i] = attempts[i]
          \/ i \in noted /\ resets'[i] = resets[i] + 1]_vars

(* No incident is forgotten: its alert is sent or has used its attempts,   *)
(* whatever happens to the runs and to the other incidents of the batch.   *)
EveryIncidentSettles ==
  \A i \in Incident :
    i \in incidents ~> status[i] = "sent" \/ attempts[i] = MaxAttempts

(* What failure-simulations.md says of a bad token: "restore the real      *)
(* token; the outbox retries and flips to `sent`".                         *)
RestoredChannelDelivers ==
  <>[](channel = "up") =>
    \A i \in Incident : i \in incidents ~> status[i] = "sent"
=============================================================================
