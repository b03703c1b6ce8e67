------------------------------ MODULE LedgerProofs ------------------------------
(***************************************************************************)
(* The webhook implements the ledger it promises its senders: every step   *)
(* of a handler is a step of DeploymentLedger or invisible to it.          *)
(***************************************************************************)
EXTENDS IngestionProofs

About == [r \in Request |-> KeyAskedBy(r)]
Recording == [k \in Key |-> RecordedFor(k)]
Told == [r \in Request |-> OutcomeOf(r)]

(* RecordedFor as a function of the table, to compare two states of it. *)
IdOf(found) == IF found = {} THEN None ELSE (CHOOSE d \in found : TRUE).id
IdIn(table, k) == IdOf({d \in table : d.key = k})

LEMMA IdInRow ==
  ASSUME NEW table, NEW d \in table, \A c \in table : c.key = d.key => c = d
  PROVE  IdIn(table, d.key) = d.id
<1>1. {c \in table : c.key = d.key} = {d}
  OBVIOUS
<1> QED
  BY <1>1 DEF IdIn, IdOf

LEMMA IdInNone ==
  ASSUME NEW table, NEW k, \A d \in table : d.key # k
  PROVE  IdIn(table, k) = None
  BY DEF IdIn, IdOf

LEMMA RecordedForIsIdIn ==
  ASSUME NEW k
  PROVE  /\ RecordedFor(k) = IdIn(deployments, k)
         /\ RecordedFor(k)' = IdIn(deployments', k)
  BY DEF RecordedFor, FindDeployment, IdIn, IdOf

(* What the ledger sees stays when the requests, the tables or the answers *)
(* stay.                                                                   *)
LEMMA SameAbout == UNCHANGED sent => UNCHANGED About
  BY DEF About, KeyAskedBy

LEMMA SameRecording == UNCHANGED deployments => UNCHANGED Recording
<1> SUFFICES ASSUME UNCHANGED deployments, NEW k \in Key
             PROVE  RecordedFor(k)' = RecordedFor(k)
  BY DEF Recording
<1> QED
  BY RecordedForIsIdIn

LEMMA SameTold == UNCHANGED reply => UNCHANGED Told
  BY DEF Told, OutcomeOf

(* One answer changes one outcome. *)
LEMMA OneTold ==
  ASSUME IInv, NEW r \in Request, NEW status \in Status, NEW body \in Request \cup {None},
         reply' = [reply EXCEPT ![r] = [status |-> status, body |-> body]]
  PROVE  Told' = [Told EXCEPT ![r] = IF status = Created THEN "created"
                                     ELSE IF status = Duplicate THEN "duplicate"
                                     ELSE "failed"]
<1>1. [status |-> status, body |-> body] # None
  BY NoneAssumption DEF Reply
<1>2. /\ reply'[r] = [status |-> status, body |-> body]
      /\ \A s \in Request \ {r} : reply'[s] = reply[s]
  BY DEF IInv, TypeOK
<1>3. OutcomeOf(r)' = IF status = Created THEN "created"
                      ELSE IF status = Duplicate THEN "duplicate" ELSE "failed"
  BY <1>1, <1>2 DEF OutcomeOf
<1>4. \A s \in Request \ {r} : OutcomeOf(s)' = OutcomeOf(s)
  BY <1>2 DEF OutcomeOf
<1> QED
  BY <1>3, <1>4 DEF Told

-----------------------------------------------------------------------------

(* A request at work is open in the ledger. *)
LEMMA OpenAtWork ==
  ASSUME IInv, NEW p \in Replica, Busy(p)
  PROVE  /\ handling[p] \in Request
         /\ About[handling[p]] = KeyAt(p)
         /\ KeyAt(p) \in Key
         /\ Told[handling[p]] = "open"
<1>1. /\ handling[p] \in Request /\ KeyAt(p) \in Key
      /\ sent[handling[p]] \in Payload /\ reply[handling[p]] = None
  BY AtWork DEF IInv, HandlingInv
<1> QED
  BY <1>1, NoneAssumption DEF About, KeyAskedBy, KeyAt, EventAt, Told, OutcomeOf

(* A committed row is what the ledger has recorded. *)
LEMMA RecordedInLedger ==
  ASSUME IInv, NEW id, NEW k, Recorded(id, k)
  PROVE  k \in Key /\ Recording[k] = id
<1> DEFINE d == [id |-> id, key |-> k]
<1>1. d \in deployments /\ d.key = k /\ d.id = id /\ k \in Key
  BY RecordedType DEF Recorded, IInv
<1>2. \A c \in deployments : c.key = d.key => c = d
  BY <1>1 DEF IInv, RowInv, RowsAreUnique
<1> HIDE DEF d
<1>3. IdIn(deployments, k) = id
  BY <1>1, <1>2, IdInRow
<1> QED
  BY <1>1, <1>3, RecordedForIsIdIn DEF Recording

(* An unanswered request that has not come to its refresh created no       *)
(* committed row.                                                          *)
LEMMA NotYetCreator ==
  ASSUME IInv, NEW p \in Replica, Busy(p), pc[p] # "refresh", NEW d \in deployments
  PROVE  d.id # handling[p]
<1>1. CreatorKnown(d) /\ HandlingInv(p)
  BY DEF IInv, RowInv
<1>2. reply[handling[p]] = None
  BY <1>1 DEF HandlingInv
<1>3. ASSUME NEW q \in Replica, pc[q] = "refresh" PROVE handling[q] # handling[p]
  BY <1>1, <1>3 DEF HandlingInv, Busy
<1> QED
  BY <1>1, <1>2, <1>3 DEF CreatorKnown

(* A replica's answer, in the ledger: a 201 confirms, a 200 acknowledges,  *)
(* any other fails.                                                        *)
LEMMA FinishInLedger ==
  ASSUME IInv, NEW p \in Replica, Busy(p), NEW status \in Status,
         NEW body \in Request \cup {None},
         Ends(p, status, body), UNCHANGED <<sent, tables>>,
         status \in {Created, Duplicate} => Recorded(body, KeyAt(p)),
         status = Created => body = handling[p],
         status = Duplicate => body # handling[p]
  PROVE  Ledger!Next
<1> DEFINE r == handling[p]
           told == IF status = Created THEN "created"
                   ELSE IF status = Duplicate THEN "duplicate" ELSE "failed"
<1>1. r \in Request /\ About[r] = KeyAt(p) /\ KeyAt(p) \in Key /\ Told[r] = "open"
  BY OpenAtWork
<1>2. UNCHANGED <<About, Recording>> /\ Told' = [Told EXCEPT ![r] = told]
  BY <1>1, SameAbout, SameRecording, OneTold DEF Ends, tables
<1>3. CASE status = Created
  <2>1. Recording[KeyAt(p)] = r
    BY <1>3, RecordedInLedger
  <2>2. Ledger!Confirm(r)
    BY <1>1, <1>2, <1>3, <2>1
       DEF Ledger!Confirm, Ledger!Open, Ledger!Tell, About, Recording, Told
  <2> QED
    BY <1>1, <2>2 DEF Ledger!Next
<1>4. CASE status = Duplicate
  <2>1. Recording[KeyAt(p)] = body /\ body \in Request
    BY <1>4, RecordedInLedger, RecordedType DEF IInv
  <2>2. Recording[KeyAt(p)] \notin {None, r}
    BY <1>4, <2>1, NoneAssumption
  <2>3. told = "duplicate"
    BY <1>4 DEF Created, Duplicate
  <2>4. Ledger!Acknowledge(r)
    BY <1>1, <1>2, <2>2, <2>3
       DEF Ledger!Acknowledge, Ledger!Open, Ledger!Tell, About, Recording, Told
  <2> QED
    BY <1>1, <2>4 DEF Ledger!Next
<1>5. CASE status \notin {Created, Duplicate}
  <2>1. Ledger!Fail(r)
    BY <1>1, <1>2, <1>5
       DEF Ledger!Fail, Ledger!Open, Ledger!Tell, About, Recording, Told
  <2> QED
    BY <1>1, <2>1 DEF Ledger!Next
<1> QED
  BY <1>3, <1>4, <1>5

(* A COMMIT records the deployment its handler created, or shows the       *)
(* ledger nothing.                                                         *)
LEMMA ApplyInLedger ==
  ASSUME IInv, NEW p \in Replica, pc[p] = "commit", ApplyTx(p)
  PROVE  \/ UNCHANGED deployments
         \/ /\ Recording[KeyAt(p)] = None
            /\ Recording' = [Recording EXCEPT ![KeyAt(p)] = handling[p]]
<1>1. Creates(p) \/ Reuses(p)
  BY DEF IInv, TxInv
<1>2. CASE Reuses(p)
  BY <1>2 DEF Reuses, ApplyTx
<1>3. CASE Creates(p)
  <2>1. PICK k \in Key, row \in DeploymentRow :
          /\ k = KeyAt(p) /\ row = OwnRow(p)
    BY AtWork DEF Busy
  <2>2. /\ deployments' = deployments \cup {row}
        /\ \A d \in deployments : d.key # k
        /\ row.id = handling[p] /\ row.key = k
    BY <1>3, <2>1 DEF Creates, ApplyTx, OwnRow
  <2>3. IdIn(deployments, k) = None
    BY <2>2, IdInNone
  <2>4. IdIn(deployments', k) = handling[p]
    <3>1. row \in deployments'
      BY <2>2
    <3>2. ASSUME NEW c \in deployments', c.key = row.key PROVE c = row
      BY <2>2, <3>2
    <3>3. IdIn(deployments', row.key) = row.id
      BY <3>1, <3>2, IdInRow
    <3> QED
      BY <2>2, <3>3
  <2>5. ASSUME NEW x \in Key \ {k} PROVE RecordedFor(x)' = RecordedFor(x)
    <3>1. {d \in deployments' : d.key = x} = {d \in deployments : d.key = x}
      BY <2>2
    <3>2. IdIn(deployments', x) = IdIn(deployments, x)
      BY <3>1 DEF IdIn
    <3> QED
      BY <3>2, RecordedForIsIdIn
  <2>6. Recording[k] = None /\ RecordedFor(k)' = handling[p]
    BY <2>3, <2>4, RecordedForIsIdIn DEF Recording
  <2> QED
    BY <2>1, <2>5, <2>6 DEF Recording
<1> QED
  BY <1>1, <1>2, <1>3

(* The process dies with its COMMIT executed: the deployment is recorded   *)
(* and its request failed, in one step.                                    *)
LEMMA CommitLostInLedger ==
  ASSUME IInv, NEW p \in Replica, pc[p] = "commit", ApplyTx(p),
         NEW status \in {Lost, ServerError}, Ends(p, status, None), UNCHANGED sent
  PROVE  Ledger!Next
<1>1. PICK r \in Request, k \in Key : r = handling[p] /\ k = KeyAt(p)
  BY AtWork DEF Busy
<1>2. About[r] = k /\ Told[r] = "open"
  BY <1>1, OpenAtWork DEF Busy
<1>3. status \in Status /\ status \notin {Created, Duplicate}
  BY DEF Status, Lost, ServerError, Created, Duplicate
<1>4. UNCHANGED About /\ Told' = [Told EXCEPT ![r] = "failed"]
  BY <1>1, <1>3, SameAbout, OneTold DEF Ends
<1>5. CASE UNCHANGED deployments
  <2>1. Ledger!Fail(r)
    BY <1>1, <1>2, <1>4, <1>5, SameRecording
       DEF Ledger!Fail, Ledger!Open, Ledger!Tell, About, Recording, Told
  <2> QED
    BY <2>1 DEF Ledger!Next
<1>6. CASE Recording[k] = None /\ Recording' = [Recording EXCEPT ![k] = r]
  <2>1. Ledger!Record(r)
    BY <1>1, <1>2, <1>4, <1>6 DEF Ledger!Record, Ledger!Open, About, Recording, Told
  <2> QED
    BY <2>1 DEF Ledger!Next
<1> QED
  BY <1>1, <1>5, <1>6, ApplyInLedger

LEMMA CommitInLedger ==
  ASSUME IInv, NEW p \in Replica, Commit(p)
  PROVE  [Ledger!Next]_(Ledger!vars)
<1>1. PICK r \in Request, k \in Key : r = handling[p] /\ k = KeyAt(p)
  BY AtWork DEF Commit, At, Busy
<1>2. About[r] = k /\ Told[r] = "open"
  BY <1>1, OpenAtWork DEF Commit, At, Busy
<1>3. UNCHANGED About /\ UNCHANGED Told
  BY SameAbout, SameTold DEF Commit, KeepRequests
<1>4. CASE UNCHANGED deployments
  BY <1>3, <1>4, SameRecording DEF Ledger!vars, About, Recording, Told
<1>5. CASE Recording[k] = None /\ Recording' = [Recording EXCEPT ![k] = r]
  <2>1. Ledger!Record(r)
    BY <1>1, <1>2, <1>3, <1>5 DEF Ledger!Record, Ledger!Open, About, Recording, Told
  <2> QED
    BY <2>1 DEF Ledger!Next
<1> QED
  BY <1>1, <1>4, <1>5, ApplyInLedger DEF Commit, At

(* A step that changes no request, no table and no answer. *)
LEMMA InvisibleStep ==
  ASSUME UNCHANGED <<sent, tables, reply>>
  PROVE  UNCHANGED Ledger!vars
  BY SameAbout, SameRecording, SameTold DEF Ledger!vars, About, Recording, Told, tables

LEMMA SubmitInLedger ==
  ASSUME IInv, NEW r \in Request, NEW payload \in Payload, Submit(r, payload)
  PROVE  Ledger!Next
<1>1. KeyOf[payload.event] \in Key
  BY SenderAssumption DEF Payload
<1>2. /\ sent'[r] = payload /\ payload # None /\ sent[r] = None
      /\ \A s \in Request \ {r} : sent'[s] = sent[s]
  BY NoneAssumption DEF Submit, IInv, TypeOK
<1>3. About[r] = None /\ About' = [About EXCEPT ![r] = KeyOf[payload.event]]
  <2>1. KeyAskedBy(r) = None /\ KeyAskedBy(r)' = KeyOf[payload.event]
    BY <1>2 DEF KeyAskedBy
  <2>2. \A s \in Request \ {r} : KeyAskedBy(s)' = KeyAskedBy(s)
    BY <1>2 DEF KeyAskedBy
  <2> QED
    BY <2>1, <2>2 DEF About
<1>4. UNCHANGED Recording /\ UNCHANGED Told
  BY SameRecording, SameTold DEF Submit, tables
<1>5. Ledger!Ask(r, KeyOf[payload.event])
  BY <1>3, <1>4 DEF Ledger!Ask, About, Recording, Told
<1> QED
  BY <1>1, <1>5 DEF Ledger!Next

LEMMA RefuseInLedger ==
  ASSUME IInv, NEW p \in Replica, NEW r \in Request, Waiting(p, r),
         NEW status \in {BadSignature, Unprocessable}, Refuse(p, r, status)
  PROVE  Ledger!Next
<1>1. sent[r] \in Payload /\ reply[r] = None
  BY DEF Waiting, IInv, TypeOK
<1>2. About[r] \in Key /\ Told[r] = "open"
  BY <1>1, SenderAssumption, NoneAssumption DEF About, KeyAskedBy, Told, OutcomeOf, Payload
<1>3. status \in Status /\ status \notin {Created, Duplicate}
  BY DEF Status, BadSignature, Unprocessable, Created, Duplicate
<1>4. /\ UNCHANGED About /\ UNCHANGED Recording
      /\ Told' = [Told EXCEPT ![r] = "failed"]
  BY <1>3, SameAbout, SameRecording, OneTold DEF Refuse, Answer, tables
<1>5. Ledger!Fail(r)
  BY <1>2, <1>4 DEF Ledger!Fail, Ledger!Open, Ledger!Tell, About, Recording, Told
<1> QED
  BY <1>5 DEF Ledger!Next

LEMMA KnownDeliveryInLedger ==
  ASSUME IInv, NEW p \in Replica, Busy(p), pc[p] # "refresh", AnswerKnownDelivery(p)
  PROVE  Ledger!Next
<1>1. PICK v \in deliveries : /\ v.event = EventAt(p)
                              /\ Finish(p, Duplicate, v.deployment)
                              /\ UNCHANGED <<sent, tables>>
  BY DEF AnswerKnownDelivery, FindDelivery
<1>2. Recorded(v.deployment, KeyAt(p))
  BY <1>1 DEF IInv, RowInv, DeliveriesMatchDeployments, Recorded, KeyAt
<1>3. v.deployment # handling[p]
  BY <1>2, NotYetCreator DEF Recorded
<1>4. Duplicate \in Status /\ Duplicate # Created /\ v.deployment \in Request
  BY DEF Status, Duplicate, Created, IInv, TypeOK, DeliveryRow
<1> QED
  BY <1>1, <1>2, <1>3, <1>4, FinishEnds, FinishInLedger

(* Every step of the handlers is a step of the ledger or invisible to it. *)
LEMMA StepInLedger == IInv /\ [Next]_vars => [Ledger!Next]_(Ledger!vars)
<1> SUFFICES ASSUME IInv, [Next]_vars PROVE [Ledger!Next]_(Ledger!vars)
  OBVIOUS
<1>0. {Created, Duplicate, UnknownService, ServerError} \subseteq Status
      /\ {UnknownService, ServerError, Lost} \cap {Created, Duplicate} = {}
      /\ Created # Duplicate /\ Lost \in Status
  BY DEF Status, Created, Duplicate, UnknownService, ServerError, Lost
<1>1. ASSUME NEW r \in Request, NEW payload \in Payload, Submit(r, payload)
      PROVE  Ledger!Next
  BY <1>1, SubmitInLedger
<1>2. ASSUME NEW s \in Service, RegisterService(s) PROVE UNCHANGED Ledger!vars
  BY <1>2, InvisibleStep DEF RegisterService
<1>3. ASSUME NEW p \in Replica, NEW r \in Request,
             RejectSignature(p, r) \/ RejectPayload(p, r)
      PROVE  Ledger!Next
  BY <1>3, RefuseInLedger DEF RejectSignature, RejectPayload
<1>4. ASSUME NEW p \in Replica, NEW r \in Request, Admit(p, r)
      PROVE  UNCHANGED Ledger!vars
  BY <1>4, InvisibleStep DEF Admit
<1>5. ASSUME NEW p \in Replica, FindService(p) PROVE [Ledger!Next]_(Ledger!vars)
  <2>1. CASE Finish(p, UnknownService, None)
    BY <1>0, <1>5, <2>1, FinishEnds, FinishInLedger DEF FindService, At, Busy
  <2>2. CASE UNCHANGED <<handling, deployment, tx, reply>>
    BY <1>5, <2>2, InvisibleStep DEF FindService
  <2> QED
    BY <1>5, <2>1, <2>2 DEF FindService
<1>6. ASSUME NEW p \in Replica, ReplayGuard(p) \/ RefindDelivery(p)
      PROVE  [Ledger!Next]_(Ledger!vars)
  <2>1. CASE AnswerKnownDelivery(p)
    BY <1>6, <2>1, KnownDeliveryInLedger DEF ReplayGuard, RefindDelivery, At, Busy
  <2>2. CASE ~ AnswerKnownDelivery(p)
    BY <1>6, <2>2, InvisibleStep DEF ReplayGuard, RefindDelivery, KeepRequests
  <2> QED
    BY <2>1, <2>2
<1>7. ASSUME NEW p \in Replica,
             \/ FindOrBuild(p) \/ FlushDeployment(p) \/ FlushConflict(p)
             \/ InsertDelivery(p) \/ DeliveryConflict(p)
      PROVE  UNCHANGED Ledger!vars
  BY <1>7, InvisibleStep
     DEF FindOrBuild, FlushDeployment, FlushConflict, InsertDelivery,
         DeliveryConflict, Rollback, KeepRequests
<1>8. ASSUME NEW p \in Replica, Commit(p) PROVE [Ledger!Next]_(Ledger!vars)
  BY <1>8, CommitInLedger
<1>9. ASSUME NEW p \in Replica, Respond(p) PROVE Ledger!Next
  <2>1. /\ Busy(p) /\ Recorded(deployment[p], KeyAt(p)) /\ deployment[p] \in Request
        /\ UNCHANGED <<sent, tables>>
    BY <1>9, HeldType DEF Respond, At, Busy, IInv, TxInv
  <2>2. CASE deployment[p] = handling[p] /\ Finish(p, Created, deployment[p])
    BY <1>0, <2>1, <2>2, FinishEnds, FinishInLedger
  <2>3. CASE deployment[p] # handling[p] /\ Finish(p, Duplicate, deployment[p])
    BY <1>0, <2>1, <2>3, FinishEnds, FinishInLedger
  <2> QED
    BY <1>9, <2>2, <2>3 DEF Respond
<1>10. ASSUME NEW p \in Replica, RefindDeployment(p) PROVE Ledger!Next
  <2>1. Busy(p) /\ pc[p] # "refresh" /\ UNCHANGED <<sent, tables>>
    BY <1>10 DEF RefindDeployment, At, Busy
  <2>2. CASE Finish(p, ServerError, None)
    BY <1>0, <2>1, <2>2, FinishEnds, FinishInLedger
  <2>3. ASSUME NEW d \in deployments, d.key = KeyAt(p), Finish(p, Duplicate, d.id)
        PROVE  Ledger!Next
    <3>1. d.id \in Request /\ Recorded(d.id, KeyAt(p))
      BY <2>3 DEF IInv, TypeOK, DeploymentRow, Recorded
    <3>2. d.id # handling[p]
      BY <2>1, NotYetCreator
    <3> QED
      BY <1>0, <2>1, <2>3, <3>1, <3>2, FinishEnds, FinishInLedger
  <2> QED
    BY <1>10, <2>2, <2>3 DEF RefindDeployment, FindDeployment
<1>11. ASSUME NEW p \in Replica, NEW status \in {Lost, ServerError},
              LoseTx(p), Ends(p, status, None), UNCHANGED sent
       PROVE  Ledger!Next
  <2>1. Busy(p)
    BY <1>11 DEF LoseTx, At, Busy
  <2>2. CASE UNCHANGED tables
    BY <1>0, <1>11, <2>1, <2>2, FinishInLedger
  <2>3. CASE pc[p] = "commit" /\ ApplyTx(p)
    BY <1>11, <2>3, CommitLostInLedger
  <2> QED
    BY <1>11, <2>2, <2>3 DEF LoseTx, At
<1>12. ASSUME NEW p \in Replica, DatabaseError(p) PROVE Ledger!Next
  BY <1>11, <1>12, FinishEnds DEF DatabaseError
<1>13. ASSUME NEW p \in Replica, Crash(p) PROVE [Ledger!Next]_(Ledger!vars)
  BY <1>11, <1>13, InvisibleStep DEF Crash, Ends
<1>14. CASE UNCHANGED vars
  BY <1>14, InvisibleStep DEF vars, tables
<1> QED
  BY <1>1, <1>2, <1>3, <1>4, <1>5, <1>6, <1>7, <1>8, <1>9, <1>10, <1>11, <1>12,
     <1>13, <1>14 DEF Next, Handle

LEMMA InitInLedger == Init => Ledger!Init
<1> SUFFICES ASSUME Init PROVE Ledger!Init
  OBVIOUS
<1>1. \A r \in Request : KeyAskedBy(r) = None /\ OutcomeOf(r) = "open"
  BY DEF Init, KeyAskedBy, OutcomeOf
<1>2. \A k \in Key : RecordedFor(k) = None
  BY DEF Init, RecordedFor, FindDeployment
<1> QED
  BY <1>1, <1>2 DEF Ledger!Init

(* The webhook, with its replicas, transactions, races, retries and        *)
(* crashes, is the ledger its senders rely on: a deployment is recorded    *)
(* once, only its recorder is told 201, others 200 and never too early.    *)
THEOREM WebhookImplementsLedger == Spec => ImplementsLedger
  BY InitInLedger, StepInLedger, IInvHolds, PTL DEF Spec, ImplementsLedger, Ledger!Spec
=============================================================================
