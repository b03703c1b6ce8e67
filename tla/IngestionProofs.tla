---------------------------- MODULE IngestionProofs ----------------------------
(***************************************************************************)
(* The webhook's safety properties for any number of replicas, requests,   *)
(* deliveries and deployments.                                             *)
(***************************************************************************)
EXTENDS Ingestion, FiniteSetTheorems, TLAPS

OwnRow(p) == [id |-> handling[p], key |-> KeyAt(p)]
OwnDelivery(p) == [event |-> EventAt(p), deployment |-> deployment[p]]

Busy(p) == pc[p] # "idle"
Recorded(id, k) == [id |-> id, key |-> k] \in deployments

(* A request being handled was made, is not answered and has one handler.  *)
HandlingInv(p) ==
  Busy(p) => /\ handling[p] \in Request
             /\ sent[handling[p]] \in Payload
             /\ reply[handling[p]] = None
             /\ \A q \in Replica \ {p} : Busy(q) => handling[q] # handling[p]

(* The two ways to hold a row after the SELECT of the deployment.  The     *)
(* creator's key is in no committed row, since its INSERT holds the key.   *)
Creates(p) ==
  /\ deployment[p] = handling[p]
  /\ tx[p].deployments = {OwnRow(p)}
  /\ \A d \in deployments : d.key # KeyAt(p)
Reuses(p) ==
  /\ tx[p].deployments = {}
  /\ Recorded(deployment[p], KeyAt(p))

(* What each statement of the handler can count on. *)
TxInv(p) ==
  /\ pc[p] \notin {"insert_delivery", "commit"} => tx[p] = NoTx
  /\ pc[p] = "flush" => deployment[p] = handling[p]
  /\ pc[p] \in {"insert_delivery", "commit"} => Creates(p) \/ Reuses(p)
  /\ pc[p] = "insert_delivery" => tx[p].deliveries = {}
  /\ pc[p] = "commit" => /\ tx[p].deliveries = {OwnDelivery(p)}
                         /\ \A v \in deliveries : v.event # EventAt(p)
  /\ pc[p] = "refresh" => Recorded(deployment[p], KeyAt(p))
  /\ pc[p] \in {"refind_delivery", "refind_deployment"} =>
       \E d \in deployments : d.key = KeyAt(p)

(* Open transactions hold different keys. *)
Apart(p, q) ==
  /\ tx[p].deployments # {} /\ tx[q].deployments # {} => KeyAt(p) # KeyAt(q)
  /\ pc[p] = "commit" /\ pc[q] = "commit" => EventAt(p) # EventAt(q)

ApartInv == \A p, q \in Replica : p # q => Apart(p, q)

(* A committed row names the request that made it, which is answered or    *)
(* is about to be; it came with that request's delivery, and every         *)
(* delivery with the deployment it is about.                               *)
CreatorKnown(d) ==
  /\ sent[d.id] \in Payload
  /\ d.key = KeyOf[sent[d.id].event]
  /\ \/ reply[d.id] # None
     \/ \E q \in Replica : pc[q] = "refresh" /\ handling[q] = d.id /\ deployment[q] = d.id

RowInv ==
  /\ RowsAreUnique
  /\ DeliveriesMatchDeployments
  /\ \A d \in deployments : CreatorKnown(d)

(* The answers given so far. *)
AnswerInv(r) ==
  /\ reply[r] # None => sent[r] \in Payload
  /\ Accepted(r) => Recorded(reply[r].body, KeyOf[sent[r].event])
  /\ Accepted(r) /\ reply[r].status = Created => reply[r].body = r

IInv ==
  /\ TypeOK
  /\ \A p \in Replica : HandlingInv(p)
  /\ \A p \in Replica : TxInv(p)
  /\ ApartInv
  /\ RowInv
  /\ \A r \in Request : AnswerInv(r)

-----------------------------------------------------------------------------

(* A handler at work knows its request, its event and its key. *)
LEMMA AtWork ==
  ASSUME IInv, NEW p \in Replica, Busy(p)
  PROVE  /\ handling[p] \in Request
         /\ EventAt(p) \in Event
         /\ KeyAt(p) \in Key
         /\ OwnRow(p) \in DeploymentRow
<1>1. handling[p] \in Request /\ sent[handling[p]] \in Payload
  BY DEF IInv, HandlingInv
<1>2. EventAt(p) \in Event
  BY <1>1 DEF EventAt, Payload
<1>3. KeyAt(p) \in Key
  BY <1>2, SenderAssumption DEF KeyAt
<1> QED
  BY <1>1, <1>2, <1>3 DEF OwnRow, DeploymentRow

(* A recorded row has its types. *)
LEMMA RecordedType ==
  ASSUME TypeOK, NEW id, NEW k, Recorded(id, k)
  PROVE  id \in Request /\ k \in Key
  BY DEF TypeOK, Recorded, DeploymentRow

(* The row a handler holds from its INSERT of the delivery on. *)
LEMMA HeldType ==
  ASSUME IInv, NEW p \in Replica, pc[p] \in {"insert_delivery", "commit", "refresh"}
  PROVE  deployment[p] \in Request
<1>1. Creates(p) \/ Recorded(deployment[p], KeyAt(p))
  BY DEF IInv, TxInv, Reuses
<1>2. handling[p] \in Request
  BY AtWork DEF Busy
<1> QED
  BY <1>1, <1>2, RecordedType DEF Creates, IInv

LEMMA FinishType ==
  ASSUME IInv, NEW p \in Replica, Busy(p), NEW status \in Status,
         NEW body \in Request \cup {None}, Finish(p, status, body)
  PROVE  /\ reply' \in [Request -> Reply \cup {None}]
         /\ pc' \in [Replica -> PC]
         /\ handling' \in [Replica -> Request \cup {None}]
         /\ deployment' \in [Replica -> Request \cup {None}]
         /\ tx' \in [Replica -> [deployments : SUBSET DeploymentRow,
                                 deliveries : SUBSET DeliveryRow]]
         /\ answered' \in [Replica -> SUBSET Request]
<1>1. handling[p] \in Request
  BY AtWork
<1>2. [status |-> status, body |-> body] \in Reply
  BY DEF Reply
<1> QED
  BY <1>1, <1>2 DEF Finish, Answer, Close, IInv, TypeOK, NoTx, Goto, PC

(* Counting touches one label of one replica. *)
LEMMA Counting ==
  ASSUME TypeOK, NEW p \in Replica, NEW result \in Result, Count(p, result)
  PROVE  /\ webhooks_total' \in [Replica -> [Result -> Nat]]
         /\ webhooks_total'[p][result] = webhooks_total[p][result] + 1
         /\ \A k \in Result \ {result} : webhooks_total'[p][k] = webhooks_total[p][k]
         /\ \A q \in Replica \ {p} : webhooks_total'[q] = webhooks_total[q]
<1> DEFINE counted == [webhooks_total[p] EXCEPT ![result] = @ + 1]
<1>1. webhooks_total \in [Replica -> [Result -> Nat]]
  BY DEF TypeOK
<1>2. webhooks_total' = [webhooks_total EXCEPT ![p] = counted]
  BY DEF Count
<1>3. webhooks_total[p] \in [Result -> Nat] /\ webhooks_total[p][result] \in Nat
  BY <1>1
<1>4. /\ counted \in [Result -> Nat]
      /\ counted[result] = webhooks_total[p][result] + 1
      /\ \A k \in Result \ {result} : counted[k] = webhooks_total[p][k]
  BY <1>3
<1> HIDE DEF counted
<1> QED
  BY <1>1, <1>2, <1>4

(* Every step keeps the types. *)
LEMMA TypeStep == IInv /\ [Next]_vars => TypeOK'
<1> SUFFICES ASSUME IInv, [Next]_vars PROVE TypeOK'
  OBVIOUS
<1>0. TypeOK
  BY DEF IInv
<1> USE DEF tables
<1>1. ASSUME NEW r \in Request, NEW payload \in Payload, Submit(r, payload)
      PROVE  TypeOK'
  BY <1>0, <1>1 DEF Submit, TypeOK
<1>2. ASSUME NEW s \in Service, RegisterService(s) PROVE TypeOK'
  BY <1>0, <1>2 DEF RegisterService, TypeOK
<1>3. ASSUME NEW p \in Replica, NEW r \in Request,
             RejectSignature(p, r) \/ RejectPayload(p, r)
      PROVE  TypeOK'
  <2>1. ASSUME NEW status \in Status PROVE [status |-> status, body |-> None] \in Reply
    BY DEF Reply
  <2> QED
    <3>1. ASSUME NEW status \in {BadSignature, Unprocessable}, Refuse(p, r, status)
          PROVE  /\ reply' \in [Request -> Reply \cup {None}]
                 /\ answered' \in [Replica -> SUBSET Request]
      BY <1>0, <2>1, <3>1 DEF Refuse, Answer, TypeOK, Status
    <3>2. webhooks_total' \in [Replica -> [Result -> Nat]]
      BY <1>0, <1>3, Counting DEF RejectSignature, RejectPayload, TypeOK, Result
    <3> QED
      BY <1>0, <1>3, <3>1, <3>2 DEF RejectSignature, RejectPayload, Refuse, TypeOK
<1>4. ASSUME NEW p \in Replica, NEW r \in Request, Admit(p, r) PROVE TypeOK'
  BY <1>0, <1>4 DEF Admit, Goto, PC, TypeOK
<1>5. ASSUME NEW p \in Replica, NEW result \in Result, Count(p, result)
      PROVE  webhooks_total' \in [Replica -> [Result -> Nat]]
  BY <1>0, <1>5, Counting
<1>6. Status \in SUBSET Status /\ {Created, Duplicate, UnknownService, ServerError, Lost} \subseteq Status
  BY DEF Status
<1>7. {"received", "duplicate"} \subseteq Result
  BY DEF Result
<1>8. ASSUME NEW p \in Replica, AnswerKnownDelivery(p), Busy(p) PROVE TypeOK'
  <2>1. PICK v \in deliveries : /\ Finish(p, Duplicate, v.deployment)
                                /\ Count(p, "duplicate")
                                /\ UNCHANGED <<services, sent, tables>>
    BY <1>8 DEF AnswerKnownDelivery, FindDelivery
  <2>2. v.deployment \in Request
    BY <1>0 DEF TypeOK, DeliveryRow
  <2> QED
    BY <1>0, <1>5, <1>6, <1>7, <1>8, <2>1, <2>2, FinishType DEF TypeOK
<1>9. ASSUME NEW p \in Replica, FindService(p) PROVE TypeOK'
  <2>1. CASE Finish(p, UnknownService, None)
    BY <1>0, <1>6, <1>9, <2>1, FinishType DEF FindService, At, Busy, TypeOK
  <2>2. CASE Goto(p, "find_delivery") /\ UNCHANGED <<handling, deployment, tx, reply, answered>>
    BY <1>0, <1>9, <2>2 DEF FindService, Goto, PC, TypeOK
  <2> QED
    BY <1>9, <2>1, <2>2 DEF FindService
<1>10. ASSUME NEW p \in Replica, ReplayGuard(p) \/ RefindDelivery(p) PROVE TypeOK'
  <2>1. CASE AnswerKnownDelivery(p)
    BY <1>8, <1>10, <2>1 DEF ReplayGuard, RefindDelivery, At, Busy
  <2>2. CASE ~ AnswerKnownDelivery(p)
    BY <1>0, <1>10, <2>2 DEF ReplayGuard, RefindDelivery, Goto, PC, KeepRequests, TypeOK
  <2> QED
    BY <2>1, <2>2
<1>11. ASSUME NEW p \in Replica, FindOrBuild(p) PROVE TypeOK'
  <2>1. handling[p] \in Request
    BY <1>11, AtWork DEF FindOrBuild, At, Busy
  <2>2. \A d \in deployments : d.id \in Request
    BY <1>0 DEF TypeOK, DeploymentRow
  <2> QED
    BY <1>0, <1>11, <2>1, <2>2
       DEF FindOrBuild, FindDeployment, Goto, PC, KeepRequests, TypeOK
<1>12. ASSUME NEW p \in Replica, FlushDeployment(p) PROVE TypeOK'
  <2>1. OwnRow(p) \in DeploymentRow
    BY <1>12, AtWork DEF FlushDeployment, At, Busy
  <2>2. tx' \in [Replica -> [deployments : SUBSET DeploymentRow,
                             deliveries : SUBSET DeliveryRow]]
    BY <1>0, <1>12, <2>1 DEF FlushDeployment, OwnRow, TypeOK
  <2> QED
    BY <1>0, <1>12, <2>2 DEF FlushDeployment, Goto, PC, KeepRequests, TypeOK
<1>13. ASSUME NEW p \in Replica, FlushConflict(p) \/ DeliveryConflict(p) PROVE TypeOK'
  <2>1. Rollback(p)
    BY <1>13 DEF FlushConflict, DeliveryConflict
  <2>2. tx' \in [Replica -> [deployments : SUBSET DeploymentRow,
                             deliveries : SUBSET DeliveryRow]]
    BY <1>0, <2>1 DEF Rollback, NoTx, TypeOK
  <2> QED
    BY <1>0, <2>1, <2>2 DEF Rollback, Goto, PC, KeepRequests, TypeOK
<1>14. ASSUME NEW p \in Replica, InsertDelivery(p) PROVE TypeOK'
  <2>1. [event |-> EventAt(p), deployment |-> deployment[p]] \in DeliveryRow
    BY <1>14, AtWork, HeldType DEF InsertDelivery, At, Busy, DeliveryRow
  <2>2. tx' \in [Replica -> [deployments : SUBSET DeploymentRow,
                             deliveries : SUBSET DeliveryRow]]
    BY <1>0, <1>14, <2>1 DEF InsertDelivery, TypeOK
  <2> QED
    BY <1>0, <1>14, <2>2 DEF InsertDelivery, Goto, PC, KeepRequests, TypeOK
<1>15. ASSUME NEW p \in Replica, ApplyTx(p)
       PROVE  deployments' \subseteq DeploymentRow /\ deliveries' \subseteq DeliveryRow
  BY <1>0, <1>15 DEF ApplyTx, TypeOK
<1>16. ASSUME NEW p \in Replica, Commit(p) PROVE TypeOK'
  BY <1>0, <1>15, <1>16 DEF Commit, NoTx, Goto, PC, KeepRequests, TypeOK
<1>17. ASSUME NEW p \in Replica, Respond(p) PROVE TypeOK'
  <2>1. deployment[p] \in Request /\ Busy(p)
    BY <1>17, HeldType DEF Respond, At, Busy
  <2> QED
    BY <1>0, <1>5, <1>6, <1>7, <1>17, <2>1, FinishType DEF Respond, TypeOK
<1>18. ASSUME NEW p \in Replica, RefindDeployment(p) PROVE TypeOK'
  <2>1. \A d \in deployments : d.id \in Request
    BY <1>0 DEF TypeOK, DeploymentRow
  <2>2. Busy(p)
    BY <1>18 DEF RefindDeployment, At, Busy
  <2>3. CASE Finish(p, ServerError, None) /\ UNCHANGED webhooks_total
    BY <1>0, <1>6, <1>18, <2>2, <2>3, FinishType DEF RefindDeployment, TypeOK
  <2>4. ASSUME NEW d \in deployments, Finish(p, Duplicate, d.id), Count(p, "duplicate")
        PROVE  TypeOK'
    BY <1>0, <1>5, <1>6, <1>7, <1>18, <2>1, <2>2, <2>4, FinishType
       DEF RefindDeployment, TypeOK
  <2> QED
    BY <1>18, <2>3, <2>4 DEF RefindDeployment, FindDeployment
<1>19. ASSUME NEW p \in Replica, LoseTx(p)
       PROVE  deployments' \subseteq DeploymentRow /\ deliveries' \subseteq DeliveryRow
  BY <1>0, <1>15, <1>19 DEF LoseTx, TypeOK
<1>20. ASSUME NEW p \in Replica, DatabaseError(p) PROVE TypeOK'
  <2>1. Busy(p)
    BY <1>20 DEF DatabaseError, LoseTx, At, Busy
  <2> QED
    BY <1>0, <1>6, <1>19, <1>20, <2>1, FinishType DEF DatabaseError, TypeOK
<1>21. ASSUME NEW p \in Replica, Crash(p) PROVE TypeOK'
  <2>1. /\ webhooks_total' \in [Replica -> [Result -> Nat]]
        /\ answered' \in [Replica -> SUBSET Request]
    BY <1>0, <1>21 DEF Crash, NothingCounted, TypeOK
  <2>2. CASE UNCHANGED <<tables, pc, handling, deployment, tx, reply>>
    BY <1>0, <1>21, <2>1, <2>2 DEF Crash, TypeOK
  <2>3. CASE /\ LoseTx(p) /\ Close(p)
             /\ reply' = [reply EXCEPT ![handling[p]] =
                             [status |-> Lost, body |-> None]]
    <3>1. [status |-> Lost, body |-> None] \in Reply
      BY <1>6 DEF Reply
    <3>2. handling[p] \in Request
      BY <2>3, AtWork DEF LoseTx, At, Busy
    <3> QED
      BY <1>0, <1>19, <1>21, <2>1, <2>3, <3>1, <3>2
         DEF Crash, Close, Goto, PC, NoTx, TypeOK
  <2> QED
    BY <1>21, <2>2, <2>3 DEF Crash
<1>22. CASE UNCHANGED vars
  BY <1>0, <1>22 DEF vars, TypeOK
<1> QED
  BY <1>1, <1>2, <1>3, <1>4, <1>9, <1>10, <1>11, <1>12, <1>13, <1>14, <1>16,
     <1>17, <1>18, <1>20, <1>21, <1>22 DEF Next, Handle

-----------------------------------------------------------------------------

(* The database starts empty. *)
LEMMA InitIInv == Init => IInv
<1> SUFFICES ASSUME Init PROVE IInv
  OBVIOUS
<1>1. TypeOK
  BY DEF Init, TypeOK, PC, NoTx, NothingCounted
<1>2. \A p \in Replica : HandlingInv(p) /\ TxInv(p)
  BY DEF Init, HandlingInv, TxInv, Busy
<1>3. ApartInv
  BY DEF Init, ApartInv, Apart, NoTx
<1>4. RowInv
  BY DEF Init, RowInv, RowsAreUnique, DeliveriesMatchDeployments
<1>5. \A r \in Request : AnswerInv(r)
  BY DEF Init, AnswerInv, Accepted
<1> QED
  BY <1>1, <1>2, <1>3, <1>4, <1>5 DEF IInv

-----------------------------------------------------------------------------

(* The invariant is proved step by step for a few kinds of step, and each  *)
(* action is then shown to be of one of them.                              *)

Same(q) ==
  /\ pc'[q] = pc[q]
  /\ handling'[q] = handling[q]
  /\ deployment'[q] = deployment[q]
  /\ tx'[q] = tx[q]

(* Only replica p, if any, does something. *)
Alone(p) == \A q \in Replica \ {p} : Same(q)

(* The requests being handled keep their content. *)
AsksSame == \A q \in Replica : Busy(q) => sent'[handling[q]] = sent[handling[q]]

(* The other replicas' transactions do not notice a step that leaves the   *)
(* tables alone.                                                           *)
LEMMA OthersUnaware ==
  ASSUME IInv, NEW q \in Replica, Same(q), AsksSame, UNCHANGED tables
  PROVE  TxInv(q)'
<1>1. TxInv(q)
  BY DEF IInv
<1>2. CASE Busy(q)
  <2>1. EventAt(q)' = EventAt(q) /\ KeyAt(q)' = KeyAt(q)
    BY <1>2 DEF Same, AsksSame, EventAt, KeyAt
  <2> QED
    BY <1>1, <2>1 DEF Same, tables, TxInv, Creates, Reuses, Recorded, OwnRow, OwnDelivery
<1>3. CASE ~ Busy(q)
  BY <1>1, <1>3 DEF Same, Busy, TxInv
<1> QED
  BY <1>2, <1>3

LEMMA OthersApart ==
  ASSUME IInv, NEW p \in Replica, NEW q \in Replica, p # q, Same(p), Same(q), AsksSame
  PROVE  Apart(p, q)'
<1>1. Apart(p, q)
  BY DEF IInv, ApartInv
<1>2. TxInv(p) /\ TxInv(q)
  BY DEF IInv
<1>3. CASE Busy(p) /\ Busy(q)
  <2>1. /\ EventAt(p)' = EventAt(p) /\ KeyAt(p)' = KeyAt(p)
        /\ EventAt(q)' = EventAt(q) /\ KeyAt(q)' = KeyAt(q)
    BY <1>3 DEF Same, AsksSame, EventAt, KeyAt
  <2> QED
    BY <1>1, <2>1 DEF Apart, Same
<1>4. CASE ~ (Busy(p) /\ Busy(q))
  BY <1>2, <1>4 DEF Busy, TxInv, NoTx, Apart, Same
<1> QED
  BY <1>3, <1>4

(* Committed rows keep their creator's request while sent and answered     *)
(* requests stay.                                                          *)
LEMMA RowsKept ==
  ASSUME IInv, UNCHANGED tables,
         \A r \in Request : sent[r] \in Payload => sent'[r] = sent[r],
         \A r \in Request : reply[r] # None => reply'[r] # None,
         \A q \in Replica : pc[q] = "refresh" =>
           Same(q) \/ reply'[handling[q]] # None
  PROVE  RowInv'
<1>1. ASSUME NEW d \in deployments PROVE d.id \in Request /\ sent[d.id] \in Payload
  BY DEF IInv, RowInv, CreatorKnown, TypeOK, DeploymentRow
<1>2. \A d \in deployments : sent'[d.id] = sent[d.id]
  BY <1>1
<1>3. ASSUME NEW d \in deployments PROVE CreatorKnown(d)'
  <2>1. CreatorKnown(d)
    BY DEF IInv, RowInv
  <2> QED
    BY <1>1, <1>2, <2>1 DEF CreatorKnown, Same
<1> QED
  BY <1>2, <1>3 DEF IInv, RowInv, RowsAreUnique, DeliveriesMatchDeployments, tables

(* Old answers stay true while rows are only added. *)
LEMMA AnswersKept ==
  ASSUME IInv, deployments \subseteq deployments', NEW r \in Request,
         sent[r] \in Payload => sent'[r] = sent[r],
         reply'[r] = reply[r]
  PROVE  AnswerInv(r)'
<1>1. AnswerInv(r)
  BY DEF IInv
<1> QED
  BY <1>1 DEF AnswerInv, Accepted, Recorded

(* A step that changes neither requests nor tables, of a replica that      *)
(* keeps its own conditions.                                               *)
LEMMA StatementKeeps ==
  ASSUME IInv, TypeOK', NEW p \in Replica, Busy(p), Busy(p)', pc[p] # "refresh",
         UNCHANGED <<sent, handling, reply, tables>>,
         Alone(p), TxInv(p)',
         \A q \in Replica \ {p} : Apart(p, q)' /\ Apart(q, p)'
  PROVE  IInv'
<1>1. AsksSame
  BY DEF AsksSame
<1>2. \A q \in Replica : TxInv(q)'
  BY <1>1, OthersUnaware DEF Alone
<1>3. ApartInv'
  BY <1>1, OthersApart DEF ApartInv, Alone
<1>4. \A q \in Replica : HandlingInv(q)'
  BY DEF IInv, HandlingInv, Alone, Same, Busy
<1>5. RowInv'
  BY RowsKept DEF Alone
<1>6. \A r \in Request : AnswerInv(r)'
  BY AnswersKept DEF tables
<1> QED
  BY <1>2, <1>3, <1>4, <1>5, <1>6 DEF IInv

(* The end of a request, with the handler's answer or with its process. *)
Ends(p, status, body) ==
  /\ reply' = [reply EXCEPT ![handling[p]] = [status |-> status, body |-> body]]
  /\ Close(p)

LEMMA FinishEnds ==
  ASSUME NEW p, NEW status, NEW body, Finish(p, status, body)
  PROVE  Ends(p, status, body)
  BY DEF Finish, Answer, Ends

(* A handler that answers or gives up, its tables untouched, with an       *)
(* answer that is true.                                                    *)
LEMMA FinishKeeps ==
  ASSUME IInv, TypeOK', NEW p \in Replica, Busy(p), NEW status \in Status,
         NEW body \in Request \cup {None},
         Ends(p, status, body), UNCHANGED <<sent, tables>>,
         status \in {Created, Duplicate} => Recorded(body, KeyAt(p)),
         status = Created => body = handling[p]
  PROVE  IInv'
<1> DEFINE r0 == handling[p]
<1>1. /\ r0 \in Request
      /\ sent[r0] \in Payload
      /\ \A q \in Replica \ {p} : Busy(q) => handling[q] # r0
  BY DEF IInv, HandlingInv
<1>2. AsksSame /\ Alone(p) /\ ~ Busy(p)' /\ tx'[p] = NoTx /\ pc'[p] = "idle"
  BY DEF IInv, TypeOK, AsksSame, Alone, Same, Ends, Close, Goto, Busy
<1>3. /\ reply'[r0] = [status |-> status, body |-> body]
      /\ reply'[r0] # None
      /\ \A r \in Request \ {r0} : reply'[r] = reply[r]
  BY <1>1, NoneAssumption DEF Ends, IInv, TypeOK, Reply
<1>4. ASSUME NEW q \in Replica PROVE HandlingInv(q)'
  <2>1. CASE q = p
    BY <1>2, <2>1 DEF HandlingInv
  <2>2. CASE q # p
    <3>1. HandlingInv(q) /\ Same(q)
      BY <1>2, <2>2 DEF IInv, Alone
    <3> QED
      BY <1>1, <1>2, <1>3, <2>2, <3>1 DEF HandlingInv, Alone, Same, Busy
  <2> QED
    BY <2>1, <2>2
<1>5. ASSUME NEW q \in Replica PROVE TxInv(q)'
  <2>1. CASE q = p
    BY <1>2, <2>1 DEF TxInv
  <2>2. CASE q # p
    BY <1>2, <2>2, OthersUnaware DEF Alone
  <2> QED
    BY <2>1, <2>2
<1>6. ApartInv'
  <2> SUFFICES ASSUME NEW q \in Replica, NEW s \in Replica, q # s PROVE Apart(q, s)'
    BY DEF ApartInv
  <2>1. CASE q # p /\ s # p
    BY <1>2, <2>1, OthersApart DEF Alone
  <2>2. CASE q = p \/ s = p
    BY <1>2, <2>2 DEF Apart, NoTx
  <2> QED
    BY <2>1, <2>2
<1>7. RowInv'
  BY <1>2, <1>3, RowsKept DEF Alone
<1>8. ASSUME NEW r \in Request PROVE AnswerInv(r)'
  <2>1. CASE r = r0
    <3>1. KeyOf[sent'[r0].event] = KeyAt(p) /\ deployments' = deployments
      BY DEF KeyAt, EventAt, tables
    <3> QED
      BY <1>1, <1>3, <2>1, <3>1 DEF AnswerInv, Accepted, Recorded
  <2>2. CASE r # r0
    BY <1>3, <2>2, AnswersKept DEF tables
  <2> QED
    BY <2>1, <2>2
<1> QED
  BY <1>4, <1>5, <1>6, <1>7, <1>8 DEF IInv

-----------------------------------------------------------------------------

(* COMMIT adds the handler's rows, and only those, and keeps the tables    *)
(* consistent.                                                             *)
LEMMA CommittedRows ==
  ASSUME IInv, NEW p \in Replica, pc[p] = "commit", ApplyTx(p), UNCHANGED sent
  PROVE  /\ deployments \subseteq deployments'
         /\ \A d \in deployments' : d \in deployments \/ d = OwnRow(p)
         /\ OwnRow(p) \in deployments' \ deployments => deployment[p] = handling[p]
         /\ [id |-> deployment[p], key |-> KeyAt(p)] \in deployments'
         /\ deliveries' = deliveries \cup {OwnDelivery(p)}
         /\ RowsAreUnique'
         /\ DeliveriesMatchDeployments'
<1>1. /\ Creates(p) \/ Reuses(p)
      /\ tx[p].deliveries = {OwnDelivery(p)}
      /\ \A v \in deliveries : v.event # EventAt(p)
  BY DEF IInv, TxInv
<1>2. deliveries' = deliveries \cup {OwnDelivery(p)}
  BY <1>1 DEF ApplyTx
<1>3. OwnRow(p).id = handling[p] /\ OwnRow(p).key = KeyAt(p)
  BY DEF OwnRow
<1>4. OwnDelivery(p).event = EventAt(p) /\ OwnDelivery(p).deployment = deployment[p]
  BY DEF OwnDelivery
<1>5. RowsAreUnique /\ DeliveriesMatchDeployments
  BY DEF IInv, RowInv
<1>6. \A v, w \in deliveries' : v.event = w.event => v = w
  BY <1>1, <1>2, <1>4, <1>5 DEF RowsAreUnique
<1>7. CASE Creates(p)
  <2>1. deployments' = deployments \cup {OwnRow(p)} /\ deployment[p] = handling[p]
    BY <1>7 DEF Creates, ApplyTx
  <2>2. \A c, d \in deployments' : c.key = d.key => c = d
    BY <1>3, <1>5, <1>7, <2>1 DEF RowsAreUnique, Creates
  <2>3. [id |-> deployment[p], key |-> KeyAt(p)] = OwnRow(p)
    BY <2>1 DEF OwnRow
  <2>4. ASSUME NEW d \in deployments'
        PROVE  \E v \in deliveries' : v.deployment = d.id /\ v.event = sent'[d.id].event
    <3>1. CASE d = OwnRow(p)
      BY <1>2, <1>3, <1>4, <2>1, <3>1 DEF EventAt
    <3>2. CASE d \in deployments
      BY <1>2, <1>5, <3>2 DEF DeliveriesMatchDeployments
    <3> QED
      BY <2>1, <3>1, <3>2
  <2>5. ASSUME NEW v \in deliveries'
        PROVE  [id |-> v.deployment, key |-> KeyOf[v.event]] \in deployments'
    <3>1. CASE v = OwnDelivery(p)
      BY <1>4, <2>1, <2>3, <3>1 DEF KeyAt
    <3>2. CASE v \in deliveries
      BY <1>5, <2>1, <3>2 DEF DeliveriesMatchDeployments
    <3> QED
      BY <1>2, <3>1, <3>2
  <2> QED
    BY <1>2, <1>6, <2>1, <2>2, <2>3, <2>4, <2>5
       DEF RowsAreUnique, DeliveriesMatchDeployments
<1>8. CASE Reuses(p)
  <2>1. deployments' = deployments /\ Recorded(deployment[p], KeyAt(p))
    BY <1>8 DEF Reuses, ApplyTx
  <2>2. \A c, d \in deployments' : c.key = d.key => c = d
    BY <1>5, <2>1 DEF RowsAreUnique
  <2>3. ASSUME NEW d \in deployments'
        PROVE  \E v \in deliveries' : v.deployment = d.id /\ v.event = sent'[d.id].event
    BY <1>2, <1>5, <2>1 DEF DeliveriesMatchDeployments
  <2>4. ASSUME NEW v \in deliveries'
        PROVE  [id |-> v.deployment, key |-> KeyOf[v.event]] \in deployments'
    <3>1. CASE v = OwnDelivery(p)
      BY <1>4, <2>1, <3>1 DEF KeyAt, Recorded
    <3>2. CASE v \in deliveries
      BY <1>5, <2>1, <3>2 DEF DeliveriesMatchDeployments
    <3> QED
      BY <1>2, <3>1, <3>2
  <2> QED
    BY <1>2, <1>6, <2>1, <2>2, <2>3, <2>4
       DEF RowsAreUnique, DeliveriesMatchDeployments, Recorded
<1> QED
  BY <1>1, <1>7, <1>8

(* The other replicas' transactions hold other keys than those committed.  *)
LEMMA CommittedElsewhere ==
  ASSUME IInv, NEW p \in Replica, pc[p] = "commit", ApplyTx(p), UNCHANGED sent,
         NEW q \in Replica, q # p, Same(q)
  PROVE  TxInv(q)'
<1>1. TxInv(p) /\ TxInv(q) /\ Apart(p, q)
  BY DEF IInv, ApartInv
<1>2. deployments \subseteq deployments' /\ deliveries' = deliveries \cup {OwnDelivery(p)}
  BY CommittedRows
<1>3. EventAt(q)' = EventAt(q) /\ KeyAt(q)' = KeyAt(q)
  BY DEF Same, EventAt, KeyAt
<1>4. ASSUME Creates(q), tx[q].deployments # {} PROVE Creates(q)'
  <2>1. ASSUME NEW d \in deployments' PROVE d.key # KeyAt(q)
    <3>1. CASE d \in deployments
      BY <1>4, <3>1 DEF Creates
    <3>2. CASE d \notin deployments
      <4>1. tx[p].deployments # {} /\ d.key = KeyAt(p)
        BY <1>1, <3>2 DEF ApplyTx, TxInv, Creates, Reuses, OwnRow
      <4> QED
        BY <1>1, <1>4, <4>1 DEF Apart
    <3> QED
      BY <3>1, <3>2
  <2> QED
    BY <1>3, <1>4, <2>1 DEF Creates, Same, OwnRow
<1>5. Creates(q) => tx[q].deployments # {}
  BY DEF Creates
<1>6. Reuses(q) => Reuses(q)'
  BY <1>2, <1>3 DEF Reuses, Same, Recorded
<1>7. ASSUME pc[q] = "commit" PROVE \A v \in deliveries' : v.event # EventAt(q)
  <2>1. EventAt(p) # EventAt(q)
    BY <1>1, <1>7 DEF Apart
  <2> QED
    BY <1>1, <1>2, <1>7, <2>1 DEF TxInv, OwnDelivery
<1> QED
  BY <1>1, <1>2, <1>3, <1>4, <1>5, <1>6, <1>7 DEF TxInv, Same, Recorded, OwnDelivery

(* The tables after a COMMIT, whose handler goes on to answer or dies.     *)
LEMMA CommittedRowInv ==
  ASSUME IInv, NEW p \in Replica, pc[p] = "commit", ApplyTx(p), UNCHANGED sent, Alone(p),
         \A r \in Request : reply[r] # None => reply'[r] # None,
         \/ reply'[handling[p]] # None
         \/ pc'[p] = "refresh" /\ UNCHANGED <<handling, deployment>>
  PROVE  RowInv'
<1>1. handling[p] \in Request /\ sent[handling[p]] \in Payload
  BY DEF IInv, HandlingInv, Busy
<1>2. ASSUME NEW d \in deployments' PROVE CreatorKnown(d)'
  <2>1. CASE d \in deployments
    <3>1. CreatorKnown(d) /\ d.id \in Request
      BY <2>1 DEF IInv, RowInv, TypeOK, DeploymentRow
    <3> QED
      BY <3>1 DEF CreatorKnown, Alone, Same
  <2>2. CASE d \notin deployments
    <3>1. d = OwnRow(p) /\ deployment[p] = handling[p]
      BY <2>2, CommittedRows
    <3>2. d.id = handling[p] /\ d.key = KeyOf[sent[handling[p]].event]
      BY <3>1 DEF OwnRow, KeyAt, EventAt
    <3> QED
      BY <1>1, <3>1, <3>2 DEF CreatorKnown
  <2> QED
    BY <2>1, <2>2
<1> QED
  BY <1>2, CommittedRows DEF RowInv

LEMMA CommitKeeps ==
  ASSUME IInv, TypeOK', NEW p \in Replica, Commit(p)
  PROVE  IInv'
<1>1. /\ pc[p] = "commit" /\ pc'[p] = "refresh" /\ tx'[p] = NoTx /\ ApplyTx(p)
      /\ UNCHANGED <<sent, handling, reply, deployment>>
      /\ Alone(p)
  BY DEF Commit, At, Goto, KeepRequests, IInv, TypeOK, Alone, Same
<1>2. ASSUME NEW q \in Replica PROVE HandlingInv(q)'
  <2>1. \A s \in Replica : Busy(s)' <=> Busy(s)
    BY <1>1 DEF Busy, Alone, Same
  <2> QED
    BY <1>1, <2>1 DEF IInv, HandlingInv
<1>3. ASSUME NEW q \in Replica PROVE TxInv(q)'
  <2>1. CASE q = p
    <3>1. KeyAt(p)' = KeyAt(p)
      BY <1>1 DEF KeyAt, EventAt
    <3>2. Recorded(deployment[p], KeyAt(p))'
      BY <1>1, <3>1, CommittedRows DEF Recorded
    <3> QED
      BY <1>1, <2>1, <3>2 DEF TxInv
  <2>2. CASE q # p
    BY <1>1, <2>2, CommittedElsewhere DEF Alone
  <2> QED
    BY <2>1, <2>2
<1>4. ApartInv'
  <2> SUFFICES ASSUME NEW q \in Replica, NEW s \in Replica, q # s PROVE Apart(q, s)'
    BY DEF ApartInv
  <2>1. AsksSame
    BY <1>1 DEF AsksSame
  <2>2. CASE q # p /\ s # p
    BY <1>1, <2>1, <2>2, OthersApart DEF Alone
  <2>3. CASE q = p \/ s = p
    BY <1>1, <2>3 DEF Apart, NoTx
  <2> QED
    BY <2>2, <2>3
<1>5. RowInv'
  BY <1>1, CommittedRowInv
<1>6. \A r \in Request : AnswerInv(r)'
  BY <1>1, CommittedRows, AnswersKept
<1> QED
  BY <1>2, <1>3, <1>4, <1>5, <1>6 DEF IInv

(* The process dies, or loses the database, with its COMMIT executed. *)
LEMMA CommitLostKeeps ==
  ASSUME IInv, TypeOK', NEW p \in Replica, pc[p] = "commit", ApplyTx(p),
         NEW status \in {Lost, ServerError}, Ends(p, status, None), UNCHANGED sent
  PROVE  IInv'
<1> DEFINE r0 == handling[p]
<1>1. /\ r0 \in Request
      /\ sent[r0] \in Payload
      /\ \A q \in Replica \ {p} : Busy(q) => handling[q] # r0
  BY DEF IInv, HandlingInv, Busy
<1>2. AsksSame /\ Alone(p) /\ ~ Busy(p)' /\ tx'[p] = NoTx /\ pc'[p] = "idle"
  BY DEF IInv, TypeOK, AsksSame, Alone, Same, Ends, Close, Goto, Busy
<1>3. /\ reply'[r0] = [status |-> status, body |-> None]
      /\ reply'[r0] # None
      /\ \A r \in Request \ {r0} : reply'[r] = reply[r]
  BY <1>1, NoneAssumption DEF Ends, IInv, TypeOK, Reply, Status
<1>4. ASSUME NEW q \in Replica PROVE HandlingInv(q)'
  <2>1. CASE q = p
    BY <1>2, <2>1 DEF HandlingInv
  <2>2. CASE q # p
    <3>1. HandlingInv(q) /\ Same(q)
      BY <1>2, <2>2 DEF IInv, Alone
    <3> QED
      BY <1>1, <1>2, <1>3, <2>2, <3>1 DEF HandlingInv, Alone, Same, Busy
  <2> QED
    BY <2>1, <2>2
<1>5. ASSUME NEW q \in Replica PROVE TxInv(q)'
  <2>1. CASE q = p
    BY <1>2, <2>1 DEF TxInv
  <2>2. CASE q # p
    BY <1>2, <2>2, CommittedElsewhere DEF Alone
  <2> QED
    BY <2>1, <2>2
<1>6. ApartInv'
  <2> SUFFICES ASSUME NEW q \in Replica, NEW s \in Replica, q # s PROVE Apart(q, s)'
    BY DEF ApartInv
  <2>1. CASE q # p /\ s # p
    BY <1>2, <2>1, OthersApart DEF Alone
  <2>2. CASE q = p \/ s = p
    BY <1>2, <2>2 DEF Apart, NoTx
  <2> QED
    BY <2>1, <2>2
<1>7. RowInv'
  BY <1>2, <1>3, CommittedRowInv
<1>8. ASSUME NEW r \in Request PROVE AnswerInv(r)'
  <2>1. CASE r = r0
    <3>1. ~ Accepted(r)'
      BY <1>3, <2>1 DEF Accepted, Lost, ServerError, Created, Duplicate
    <3> QED
      BY <1>1, <2>1, <3>1 DEF AnswerInv
  <2>2. CASE r # r0
    BY <1>3, <2>2, CommittedRows, AnswersKept
  <2> QED
    BY <2>1, <2>2
<1> QED
  BY <1>4, <1>5, <1>6, <1>7, <1>8 DEF IInv

-----------------------------------------------------------------------------

(* The actions, one by one. *)

LEMMA SubmitKeeps ==
  ASSUME IInv, TypeOK', NEW r \in Request, NEW payload \in Payload, Submit(r, payload)
  PROVE  IInv'
<1>1. /\ UNCHANGED <<tables, pc, handling, deployment, tx, reply>>
      /\ \A s \in Request : sent[s] \in Payload => sent'[s] = sent[s]
  BY NoneAssumption DEF Submit, IInv, TypeOK
<1>2. AsksSame /\ \A q \in Replica : Same(q)
  BY <1>1 DEF IInv, HandlingInv, AsksSame, Same
<1>3. \A q \in Replica : TxInv(q)'
  BY <1>1, <1>2, OthersUnaware
<1>4. ApartInv'
  BY <1>2, OthersApart DEF ApartInv
<1>5. \A q \in Replica : HandlingInv(q)'
  BY <1>1, <1>2 DEF IInv, HandlingInv, Busy, AsksSame
<1>6. RowInv'
  BY <1>1, <1>2, RowsKept
<1>7. \A s \in Request : AnswerInv(s)'
  BY <1>1, AnswersKept DEF tables
<1> QED
  BY <1>3, <1>4, <1>5, <1>6, <1>7 DEF IInv

(* A request refused before a transaction: 401 or 422. *)
LEMMA RefuseKeeps ==
  ASSUME IInv, TypeOK', NEW p \in Replica, NEW r \in Request, Waiting(p, r),
         NEW status \in {BadSignature, Unprocessable}, Refuse(p, r, status)
  PROVE  IInv'
<1>1. /\ UNCHANGED <<sent, tables, pc, handling, deployment, tx>>
      /\ sent[r] \in Payload
      /\ \A q \in Replica : handling[q] # r
  BY DEF Refuse, Waiting, IInv, TypeOK
<1>2. /\ reply'[r] = [status |-> status, body |-> None]
      /\ reply'[r] # None
      /\ \A s \in Request \ {r} : reply'[s] = reply[s]
  BY NoneAssumption DEF Refuse, Answer, IInv, TypeOK, Reply, Status
<1>3. AsksSame /\ \A q \in Replica : Same(q)
  BY <1>1 DEF AsksSame, Same
<1>4. \A q \in Replica : TxInv(q)'
  BY <1>1, <1>3, OthersUnaware
<1>5. ApartInv'
  BY <1>3, OthersApart DEF ApartInv
<1>6. \A q \in Replica : HandlingInv(q)'
  BY <1>1, <1>2 DEF IInv, HandlingInv, Busy
<1>7. RowInv'
  BY <1>1, <1>2, <1>3, RowsKept
<1>8. ASSUME NEW s \in Request PROVE AnswerInv(s)'
  <2>1. CASE s = r
    BY <1>1, <1>2, <2>1 DEF AnswerInv, Accepted, BadSignature, Unprocessable, Created, Duplicate
  <2>2. CASE s # r
    BY <1>1, <1>2, <2>2, AnswersKept DEF tables
  <2> QED
    BY <2>1, <2>2
<1> QED
  BY <1>4, <1>5, <1>6, <1>7, <1>8 DEF IInv

LEMMA AdmitKeeps ==
  ASSUME IInv, TypeOK', NEW p \in Replica, NEW r \in Request, Admit(p, r)
  PROVE  IInv'
<1>1. /\ pc[p] = "idle" /\ sent[r] \in Payload /\ reply[r] = None
      /\ \A q \in Replica : handling[q] # r
      /\ UNCHANGED <<sent, tables, deployment, tx, reply>>
      /\ pc'[p] = "find_service" /\ handling'[p] = r
      /\ Alone(p)
  BY DEF Admit, Waiting, At, Goto, Alone, Same, IInv, TypeOK
<1>2. AsksSame
  BY <1>1 DEF AsksSame
<1>3. ASSUME NEW q \in Replica PROVE TxInv(q)'
  <2>1. CASE q = p
    BY <1>1, <2>1 DEF IInv, TxInv
  <2>2. CASE q # p
    BY <1>1, <1>2, <2>2, OthersUnaware DEF Alone
  <2> QED
    BY <2>1, <2>2
<1>4. ApartInv'
  <2> SUFFICES ASSUME NEW q \in Replica, NEW s \in Replica, q # s PROVE Apart(q, s)'
    BY DEF ApartInv
  <2>1. CASE q # p /\ s # p
    BY <1>1, <1>2, <2>1, OthersApart DEF Alone
  <2>2. CASE q = p \/ s = p
    BY <1>1, <2>2 DEF IInv, TxInv, NoTx, Apart
  <2> QED
    BY <2>1, <2>2
<1>5. ASSUME NEW q \in Replica PROVE HandlingInv(q)'
  <2>1. CASE q = p
    BY <1>1, <2>1 DEF HandlingInv, Alone, Same
  <2>2. CASE q # p
    BY <1>1, <2>2 DEF IInv, HandlingInv, Alone, Same, Busy
  <2> QED
    BY <2>1, <2>2
<1>6. RowInv'
  BY <1>1, RowsKept DEF Alone
<1>7. \A s \in Request : AnswerInv(s)'
  BY <1>1, AnswersKept DEF tables
<1> QED
  BY <1>3, <1>4, <1>5, <1>6, <1>7 DEF IInv

(* The delivery found was about the deployment the answer names. *)
LEMMA KnownDeliveryKeeps ==
  ASSUME IInv, TypeOK', NEW p \in Replica, Busy(p), AnswerKnownDelivery(p)
  PROVE  IInv'
<1>1. PICK v \in deliveries : /\ v.event = EventAt(p)
                              /\ Finish(p, Duplicate, v.deployment)
                              /\ UNCHANGED <<sent, tables>>
  BY DEF AnswerKnownDelivery, FindDelivery
<1>2. Recorded(v.deployment, KeyAt(p))
  BY <1>1 DEF IInv, RowInv, DeliveriesMatchDeployments, Recorded, KeyAt
<1>3. Duplicate \in Status /\ Duplicate # Created /\ v.deployment \in Request
  BY DEF Status, Duplicate, Created, IInv, TypeOK, DeliveryRow
<1> QED
  BY <1>1, <1>2, <1>3, FinishEnds, FinishKeeps

(* A SELECT that leads to the next statement, or a rollback: no open       *)
(* transaction, and what the next statement counts on.                     *)
LEMMA ClosedStatementKeeps ==
  ASSUME IInv, TypeOK', NEW p \in Replica, Busy(p), pc[p] # "refresh",
         UNCHANGED <<sent, handling, reply, tables>>, Alone(p),
         tx'[p] = NoTx, pc'[p] # "commit", Busy(p)', TxInv(p)'
  PROVE  IInv'
<1>1. \A q \in Replica \ {p} : Apart(p, q)' /\ Apart(q, p)'
  BY DEF Apart, NoTx
<1> QED
  BY <1>1, StatementKeeps

LEMMA FindServiceKeeps ==
  ASSUME IInv, TypeOK', NEW p \in Replica, FindService(p)
  PROVE  IInv'
<1>1. Busy(p) /\ pc[p] = "find_service" /\ tx[p] = NoTx
  BY DEF FindService, At, Busy, IInv, TxInv
<1>2. CASE Goto(p, "find_delivery") /\ UNCHANGED <<handling, deployment, tx, reply>>
  <2>1. pc'[p] = "find_delivery" /\ Alone(p)
    BY <1>2 DEF Goto, Alone, Same, IInv, TypeOK
  <2>2. TxInv(p)'
    BY <1>1, <1>2, <2>1 DEF TxInv
  <2> QED
    BY <1>1, <1>2, <2>1, <2>2, ClosedStatementKeeps DEF FindService, Busy
<1>3. CASE Finish(p, UnknownService, None)
  BY <1>1, <1>3, FinishEnds, FinishKeeps
     DEF FindService, Status, UnknownService, Created, Duplicate
<1> QED
  BY <1>2, <1>3 DEF FindService

LEMMA ReplayGuardKeeps ==
  ASSUME IInv, TypeOK', NEW p \in Replica, ReplayGuard(p)
  PROVE  IInv'
<1>1. Busy(p) /\ pc[p] = "find_delivery" /\ tx[p] = NoTx
  BY DEF ReplayGuard, At, Busy, IInv, TxInv
<1>2. CASE AnswerKnownDelivery(p)
  BY <1>1, <1>2, KnownDeliveryKeeps
<1>3. CASE ~ AnswerKnownDelivery(p)
  <2>1. /\ Goto(p, "find_deployment") /\ KeepRequests
        /\ UNCHANGED <<tables, deployment, tx>>
    BY <1>3 DEF ReplayGuard
  <2>2. pc'[p] = "find_deployment" /\ Alone(p)
    BY <2>1 DEF Goto, KeepRequests, Alone, Same, IInv, TypeOK
  <2>3. TxInv(p)'
    BY <1>1, <2>1, <2>2 DEF TxInv
  <2> QED
    BY <1>1, <2>1, <2>2, <2>3, ClosedStatementKeeps DEF KeepRequests, Busy
<1> QED
  BY <1>2, <1>3

LEMMA FindOrBuildKeeps ==
  ASSUME IInv, TypeOK', NEW p \in Replica, FindOrBuild(p)
  PROVE  IInv'
<1>1. Busy(p) /\ pc[p] = "find_deployment" /\ tx[p] = NoTx
  BY DEF FindOrBuild, At, Busy, IInv, TxInv
<1>2. Alone(p) /\ KeepRequests /\ UNCHANGED <<tables, tx>>
  BY DEF FindOrBuild, Goto, KeepRequests, Alone, Same, IInv, TypeOK
<1>3. KeyAt(p)' = KeyAt(p)
  BY <1>2 DEF KeepRequests, KeyAt, EventAt
<1>4. CASE \E d \in FindDeployment(KeyAt(p)) :
             /\ deployment' = [deployment EXCEPT ![p] = d.id]
             /\ Goto(p, "insert_delivery")
  <2>1. PICK d \in deployments : /\ d.key = KeyAt(p)
                                 /\ deployment'[p] = d.id
                                 /\ pc'[p] = "insert_delivery"
    BY <1>4 DEF FindDeployment, Goto, IInv, TypeOK
  <2>2. d = [id |-> d.id, key |-> KeyAt(p)]
    BY <2>1 DEF IInv, TypeOK, DeploymentRow
  <2>3. Reuses(p)'
    BY <1>1, <1>2, <1>3, <2>1, <2>2 DEF Reuses, Recorded, NoTx, tables
  <2>4. TxInv(p)'
    BY <1>1, <1>2, <2>1, <2>3 DEF TxInv, NoTx
  <2> QED
    BY <1>1, <1>2, <2>1, <2>4, ClosedStatementKeeps DEF KeepRequests, Busy
<1>5. CASE deployment' = [deployment EXCEPT ![p] = handling[p]] /\ Goto(p, "flush")
  <2>1. deployment'[p] = handling[p] /\ pc'[p] = "flush"
    BY <1>5 DEF Goto, IInv, TypeOK
  <2>2. TxInv(p)'
    BY <1>1, <1>2, <2>1 DEF TxInv, KeepRequests
  <2> QED
    BY <1>1, <1>2, <2>1, <2>2, ClosedStatementKeeps DEF KeepRequests, Busy
<1> QED
  BY <1>4, <1>5 DEF FindOrBuild

LEMMA FlushDeploymentKeeps ==
  ASSUME IInv, TypeOK', NEW p \in Replica, FlushDeployment(p)
  PROVE  IInv'
<1>1. /\ Busy(p) /\ pc[p] = "flush" /\ tx[p] = NoTx /\ deployment[p] = handling[p]
      /\ \A d \in deployments : d.key # KeyAt(p)
      /\ \A q \in Replica \ {p} : \A d \in tx[q].deployments : d.key # KeyAt(p)
  BY DEF FlushDeployment, At, Busy, IInv, TxInv, FindDeployment, DeploymentKeyBusy
<1>2. /\ Alone(p) /\ KeepRequests /\ UNCHANGED <<tables, deployment>>
      /\ pc'[p] = "insert_delivery"
  BY DEF FlushDeployment, Goto, KeepRequests, Alone, Same, IInv, TypeOK
<1>3. KeyAt(p)' = KeyAt(p) /\ OwnRow(p)' = OwnRow(p)
  BY <1>2 DEF KeepRequests, KeyAt, EventAt, OwnRow
<1>4. tx'[p] = [deployments |-> {OwnRow(p)}, deliveries |-> {}]
  <2>1. tx' = [tx EXCEPT ![p].deployments = @ \cup {OwnRow(p)}]
    BY DEF FlushDeployment, OwnRow
  <2>2. tx \in [Replica -> [deployments : SUBSET DeploymentRow,
                            deliveries : SUBSET DeliveryRow]]
    BY DEF IInv, TypeOK
  <2>3. tx'[p] = [tx[p] EXCEPT !.deployments = @ \cup {OwnRow(p)}]
    BY <2>1, <2>2
  <2> QED
    BY <1>1, <2>3 DEF NoTx
<1>5. Creates(p)'
  BY <1>1, <1>2, <1>3, <1>4 DEF Creates, KeepRequests, tables
<1>6. TxInv(p)'
  BY <1>2, <1>4, <1>5 DEF TxInv
<1>7. ASSUME NEW q \in Replica \ {p} PROVE Apart(p, q)' /\ Apart(q, p)'
  <2>1. Same(q) /\ TxInv(q)
    BY <1>2 DEF Alone, IInv
  <2>2. KeyAt(q)' = KeyAt(q)
    BY <1>2, <2>1 DEF KeepRequests, KeyAt, EventAt
  <2>3. ASSUME tx[q].deployments # {} PROVE KeyAt(q) # KeyAt(p)
    <3>1. Creates(q)
      BY <2>1, <2>3 DEF TxInv, NoTx, Reuses
    <3> QED
      <4>1. OwnRow(q) \in tx[q].deployments /\ OwnRow(q).key = KeyAt(q)
        BY <3>1 DEF Creates, OwnRow
      <4> QED
        BY <1>1, <4>1
  <2> QED
    BY <1>2, <1>3, <2>1, <2>2, <2>3 DEF Apart, Same
<1> QED
  BY <1>1, <1>2, <1>6, <1>7, StatementKeeps DEF KeepRequests, Busy

(* The rollback after a lost race, when the winner's row is committed. *)
LEMMA RollbackKeeps ==
  ASSUME IInv, TypeOK', NEW p \in Replica, pc[p] \in {"flush", "insert_delivery"},
         Rollback(p), \E d \in deployments : d.key = KeyAt(p)
  PROVE  IInv'
<1>1. /\ Busy(p) /\ Alone(p) /\ KeepRequests /\ UNCHANGED tables
      /\ pc'[p] = "refind_delivery" /\ tx'[p] = NoTx
  BY DEF Rollback, Goto, KeepRequests, Alone, Same, IInv, TypeOK, Busy
<1>2. KeyAt(p)' = KeyAt(p)
  BY <1>1 DEF KeepRequests, KeyAt, EventAt
<1>3. TxInv(p)'
  BY <1>1, <1>2 DEF TxInv, tables
<1> QED
  BY <1>1, <1>3, ClosedStatementKeeps DEF KeepRequests, Busy

LEMMA ConflictKeeps ==
  ASSUME IInv, TypeOK', NEW p \in Replica, FlushConflict(p) \/ DeliveryConflict(p)
  PROVE  IInv'
<1>1. pc[p] \in {"flush", "insert_delivery"} /\ Rollback(p)
  BY DEF FlushConflict, DeliveryConflict, At
<1>2. CASE FlushConflict(p)
  BY <1>1, <1>2, RollbackKeeps DEF FlushConflict, FindDeployment
<1>3. CASE DeliveryConflict(p)
  <2>1. PICK v \in deliveries : v.event = EventAt(p)
    BY <1>3 DEF DeliveryConflict, FindDelivery
  <2>2. Recorded(v.deployment, KeyAt(p))
    BY <2>1 DEF IInv, RowInv, DeliveriesMatchDeployments, Recorded, KeyAt
  <2> QED
    BY <1>1, <2>2, RollbackKeeps DEF Recorded
<1> QED
  BY <1>2, <1>3

LEMMA InsertDeliveryKeeps ==
  ASSUME IInv, TypeOK', NEW p \in Replica, InsertDelivery(p)
  PROVE  IInv'
<1>1. /\ Busy(p) /\ pc[p] = "insert_delivery" /\ tx[p].deliveries = {}
      /\ Creates(p) \/ Reuses(p)
      /\ \A v \in deliveries : v.event # EventAt(p)
      /\ \A q \in Replica \ {p} : \A v \in tx[q].deliveries : v.event # EventAt(p)
  BY DEF InsertDelivery, At, Busy, IInv, TxInv, FindDelivery, DeliveryKeyBusy
<1>2. /\ Alone(p) /\ KeepRequests /\ UNCHANGED <<tables, deployment>>
      /\ pc'[p] = "commit"
  BY DEF InsertDelivery, Goto, KeepRequests, Alone, Same, IInv, TypeOK
<1>3. /\ KeyAt(p)' = KeyAt(p) /\ EventAt(p)' = EventAt(p)
      /\ OwnRow(p)' = OwnRow(p) /\ OwnDelivery(p)' = OwnDelivery(p)
  BY <1>2 DEF KeepRequests, KeyAt, EventAt, OwnRow, OwnDelivery
<1>4. tx'[p].deployments = tx[p].deployments /\ tx'[p].deliveries = {OwnDelivery(p)}
  BY <1>1 DEF InsertDelivery, OwnDelivery, IInv, TypeOK
<1>5. Creates(p)' \/ Reuses(p)'
  BY <1>1, <1>2, <1>3, <1>4 DEF Creates, Reuses, Recorded, KeepRequests, tables
<1>6. TxInv(p)'
  BY <1>1, <1>2, <1>3, <1>4, <1>5 DEF TxInv, tables
<1>7. ASSUME NEW q \in Replica \ {p} PROVE Apart(p, q)' /\ Apart(q, p)'
  <2>1. Same(q) /\ TxInv(q) /\ Apart(p, q) /\ Apart(q, p)
    BY <1>2 DEF Alone, IInv, ApartInv
  <2>2. KeyAt(q)' = KeyAt(q) /\ EventAt(q)' = EventAt(q)
    BY <1>2, <2>1 DEF KeepRequests, KeyAt, EventAt, Same
  <2>3. ASSUME pc[q] = "commit" PROVE EventAt(q) # EventAt(p)
    <3>1. OwnDelivery(q) \in tx[q].deliveries /\ OwnDelivery(q).event = EventAt(q)
      BY <2>1, <2>3 DEF TxInv, OwnDelivery
    <3> QED
      BY <1>1, <3>1
  <2> QED
    BY <1>3, <1>4, <2>1, <2>2, <2>3 DEF Apart, Same
<1> QED
  BY <1>1, <1>2, <1>6, <1>7, StatementKeeps DEF KeepRequests, Busy

LEMMA RespondKeeps ==
  ASSUME IInv, TypeOK', NEW p \in Replica, Respond(p)
  PROVE  IInv'
<1>1. pc[p] = "refresh" /\ Busy(p) /\ Recorded(deployment[p], KeyAt(p))
  BY DEF Respond, At, Busy, IInv, TxInv
<1>2. deployment[p] \in Request
  BY <1>1, HeldType
<1>3. UNCHANGED <<sent, tables>>
  BY DEF Respond
<1>4. {Created, Duplicate} \subseteq Status /\ Duplicate # Created
  BY DEF Status, Created, Duplicate
<1>5. CASE deployment[p] = handling[p] /\ Finish(p, Created, deployment[p])
  BY <1>1, <1>2, <1>3, <1>4, <1>5, FinishEnds, FinishKeeps
<1>6. CASE Finish(p, Duplicate, deployment[p])
  BY <1>1, <1>2, <1>3, <1>4, <1>6, FinishEnds, FinishKeeps
<1> QED
  BY <1>5, <1>6 DEF Respond

LEMMA RefindDeliveryKeeps ==
  ASSUME IInv, TypeOK', NEW p \in Replica, RefindDelivery(p)
  PROVE  IInv'
<1>1. /\ Busy(p) /\ pc[p] = "refind_delivery" /\ tx[p] = NoTx
      /\ \E d \in deployments : d.key = KeyAt(p)
  BY DEF RefindDelivery, At, Busy, IInv, TxInv
<1>2. CASE AnswerKnownDelivery(p)
  BY <1>1, <1>2, KnownDeliveryKeeps
<1>3. CASE ~ AnswerKnownDelivery(p)
  <2>1. /\ Goto(p, "refind_deployment") /\ KeepRequests
        /\ UNCHANGED <<tables, deployment, tx>>
    BY <1>3 DEF RefindDelivery
  <2>2. pc'[p] = "refind_deployment" /\ Alone(p) /\ KeyAt(p)' = KeyAt(p)
    BY <2>1 DEF Goto, KeepRequests, Alone, Same, IInv, TypeOK, KeyAt, EventAt
  <2>3. TxInv(p)'
    BY <1>1, <2>1, <2>2 DEF TxInv, tables
  <2> QED
    BY <1>1, <2>1, <2>2, <2>3, ClosedStatementKeeps DEF KeepRequests, Busy
<1> QED
  BY <1>2, <1>3

LEMMA RefindDeploymentKeeps ==
  ASSUME IInv, TypeOK', NEW p \in Replica, RefindDeployment(p)
  PROVE  IInv'
<1>1. Busy(p) /\ UNCHANGED <<sent, tables>>
  BY DEF RefindDeployment, At, Busy
<1>2. {Duplicate, ServerError} \subseteq Status /\ Duplicate # Created
      /\ ServerError \notin {Created, Duplicate}
  BY DEF Status, Created, Duplicate, ServerError
<1>3. CASE Finish(p, ServerError, None)
  BY <1>1, <1>2, <1>3, FinishEnds, FinishKeeps
<1>4. ASSUME NEW d \in deployments, d.key = KeyAt(p), Finish(p, Duplicate, d.id)
      PROVE  IInv'
  <2>1. d.id \in Request /\ Recorded(d.id, KeyAt(p))
    BY <1>4 DEF IInv, TypeOK, DeploymentRow, Recorded
  <2> QED
    BY <1>1, <1>2, <1>4, <2>1, FinishEnds, FinishKeeps
<1> QED
  BY <1>3, <1>4 DEF RefindDeployment, FindDeployment

(* A request whose process dies, or whose statement fails, leaves the rows *)
(* whole: the COMMIT took effect or it did not.                            *)
LEMMA GivenUpKeeps ==
  ASSUME IInv, TypeOK', NEW p \in Replica, NEW status \in {Lost, ServerError},
         LoseTx(p), Ends(p, status, None), UNCHANGED sent
  PROVE  IInv'
<1>1. Busy(p)
  BY DEF LoseTx, At, Busy
<1>2. status \in Status /\ status \notin {Created, Duplicate}
  BY DEF Status, Lost, ServerError, Created, Duplicate
<1>3. CASE UNCHANGED tables
  BY <1>1, <1>2, <1>3, FinishKeeps
<1>4. CASE pc[p] = "commit" /\ ApplyTx(p)
  BY <1>4, CommitLostKeeps
<1> QED
  BY <1>3, <1>4 DEF LoseTx, At

(* Services and the counter are no part of the invariant. *)
LEMMA StutterKeeps ==
  ASSUME IInv, TypeOK',
         UNCHANGED <<sent, tables, pc, handling, deployment, tx, reply>>
  PROVE  IInv'
<1>1. AsksSame /\ \A q \in Replica : Same(q)
  BY DEF AsksSame, Same
<1>2. \A q \in Replica : TxInv(q)'
  BY <1>1, OthersUnaware
<1>3. ApartInv'
  BY <1>1, OthersApart DEF ApartInv
<1>4. \A q \in Replica : HandlingInv(q)'
  BY DEF IInv, HandlingInv, Busy
<1>5. RowInv'
  BY <1>1, RowsKept
<1>6. \A r \in Request : AnswerInv(r)'
  BY AnswersKept DEF tables
<1> QED
  BY <1>2, <1>3, <1>4, <1>5, <1>6 DEF IInv

LEMMA IInvStep == IInv /\ [Next]_vars => IInv'
<1> SUFFICES ASSUME IInv, [Next]_vars PROVE IInv'
  OBVIOUS
<1>0. TypeOK'
  BY TypeStep
<1>1. ASSUME NEW r \in Request, NEW payload \in Payload, Submit(r, payload)
      PROVE  IInv'
  BY <1>0, <1>1, SubmitKeeps
<1>2. ASSUME NEW s \in Service, RegisterService(s) PROVE IInv'
  BY <1>0, <1>2, StutterKeeps DEF RegisterService
<1>3. ASSUME NEW p \in Replica, NEW r \in Request,
             RejectSignature(p, r) \/ RejectPayload(p, r)
      PROVE  IInv'
  BY <1>0, <1>3, RefuseKeeps DEF RejectSignature, RejectPayload
<1>4. ASSUME NEW p \in Replica, NEW r \in Request, Admit(p, r) PROVE IInv'
  BY <1>0, <1>4, AdmitKeeps
<1>5. ASSUME NEW p \in Replica,
             \/ FindService(p) \/ ReplayGuard(p) \/ FindOrBuild(p)
             \/ FlushDeployment(p) \/ FlushConflict(p)
             \/ InsertDelivery(p) \/ DeliveryConflict(p) \/ Commit(p)
             \/ Respond(p) \/ RefindDelivery(p) \/ RefindDeployment(p)
      PROVE  IInv'
  BY <1>0, <1>5, FindServiceKeeps, ReplayGuardKeeps, FindOrBuildKeeps,
     FlushDeploymentKeeps, ConflictKeeps, InsertDeliveryKeeps, CommitKeeps,
     RespondKeeps, RefindDeliveryKeeps, RefindDeploymentKeeps
<1>6. ASSUME NEW p \in Replica, Crash(p) \/ DatabaseError(p) PROVE IInv'
  <2>1. CASE Crash(p)
    BY <1>0, <2>1, GivenUpKeeps, StutterKeeps DEF Crash, Ends
  <2>2. CASE DatabaseError(p)
    BY <1>0, <2>2, GivenUpKeeps, FinishEnds DEF DatabaseError
  <2> QED
    BY <1>6, <2>1, <2>2
<1>7. CASE UNCHANGED vars
  BY <1>0, <1>7, StutterKeeps DEF vars, tables
<1> QED
  BY <1>1, <1>2, <1>3, <1>4, <1>5, <1>6, <1>7 DEF Next, Handle

(* The inductive invariant holds in every reachable state. *)
LEMMA IInvHolds == Spec => []IInv
  BY InitIInv, IInvStep, PTL DEF Spec

-----------------------------------------------------------------------------

(* The state is well typed; in particular a delivery row always carries    *)
(* the id of a deployment that a flush or a SELECT produced.               *)
THEOREM TypeCorrect == Spec => []TypeOK
<1>1. IInv => TypeOK
  BY DEF IInv
<1> QED
  BY <1>1, IInvHolds, PTL

(* However many deliveries race, a deployment has one row and a delivery   *)
(* has one row.                                                            *)
THEOREM UniqueRows == Spec => []RowsAreUnique
<1>1. IInv => RowsAreUnique
  BY DEF IInv, RowInv
<1> QED
  BY <1>1, IInvHolds, PTL

(* Deployments and the deliveries that report them are committed together. *)
THEOREM RowsCommittedTogether == Spec => []DeliveriesMatchDeployments
<1>1. IInv => DeliveriesMatchDeployments
  BY DEF IInv, RowInv
<1> QED
  BY <1>1, IInvHolds, PTL

(* A 200 or a 201 names the committed row of the deployment reported.      *)
THEOREM DurableAnswers == Spec => []AnswerIsDurable
<1>1. IInv => AnswerIsDurable
  BY DEF IInv, AnswerInv, AnswerIsDurable, Recorded
<1> QED
  BY <1>1, IInvHolds, PTL

(* At most one request about a deployment is told 201. *)
THEOREM CreatedAtMostOnce == Spec => []CreatedOnce
<1>1. IInv => CreatedOnce
  <2> SUFFICES ASSUME IInv, NEW r \in Request, NEW s \in Request,
                      Accepted(r), reply[r].status = Created,
                      Accepted(s), reply[s].status = Created,
                      KeyOf[sent[r].event] = KeyOf[sent[s].event]
               PROVE  r = s
    BY DEF CreatedOnce
  <2> DEFINE k == KeyOf[sent[r].event]
  <2>1. [id |-> r, key |-> k] \in deployments /\ [id |-> s, key |-> k] \in deployments
    BY DEF IInv, AnswerInv, Recorded
  <2>2. [id |-> r, key |-> k] = [id |-> s, key |-> k]
    BY <2>1 DEF IInv, RowInv, RowsAreUnique
  <2> QED
    BY <2>2
<1> QED
  BY <1>1, IInvHolds, PTL

(* A handler that lost the race and does not find its delivery finds the   *)
(* deployment: the re-raise is dead code.                                  *)
THEOREM LostRaceIsExplained == Spec => []RecoveryFindsWinner
<1>1. IInv => RecoveryFindsWinner
  BY DEF IInv, TxInv, RecoveryFindsWinner, At, FindDeployment
<1> QED
  BY <1>1, IInvHolds, PTL

(* The handler that holds an uncommitted deployment inserts its delivery   *)
(* without waiting and without a conflict.                                 *)
THEOREM CreatorNeverWaits == Spec => []CreatorWinsItsDelivery
<1>1. IInv => CreatorWinsItsDelivery
  <2> SUFFICES ASSUME IInv, NEW p \in Replica, pc[p] = "insert_delivery",
                      tx[p].deployments # {}
               PROVE  ~ DeliveryKeyBusy(p) /\ FindDelivery(EventAt(p)) = {}
    BY DEF CreatorWinsItsDelivery, At
  <2>1. Creates(p)
    BY DEF IInv, TxInv, Reuses
  <2>2. \A v \in deliveries : v.event # EventAt(p)
    BY <2>1 DEF IInv, RowInv, DeliveriesMatchDeployments, Creates, KeyAt
  <2>3. ASSUME NEW q \in Replica \ {p}, NEW v \in tx[q].deliveries
        PROVE  v.event # EventAt(p)
    <3>1. TxInv(q) /\ Apart(p, q)
      BY DEF IInv, ApartInv
    <3>2. pc[q] = "commit" /\ v = OwnDelivery(q) /\ (Creates(q) \/ Reuses(q))
      BY <3>1 DEF TxInv, NoTx
    <3>3. KeyAt(q) # KeyAt(p)
      BY <2>1, <3>1, <3>2 DEF Apart, Creates, Reuses, Recorded
    <3> QED
      BY <3>2, <3>3 DEF OwnDelivery, KeyAt
  <2> QED
    BY <2>2, <2>3 DEF DeliveryKeyBusy, FindDelivery
<1> QED
  BY <1>1, IInvHolds, PTL

-----------------------------------------------------------------------------

(* The counters and the answers. *)
ToldCreated(r) == reply[r] # None /\ reply[r].status = Created

(* The deployments whose creator the process of p told 201. *)
CreatedRows(p) == {d \in deployments : d.id \in answered[p] /\ ToldCreated(d.id)}

CountAt(p) ==
  /\ IsFiniteSet(CreatedRows(p))
  /\ webhooks_total[p]["received"] = Cardinality(CreatedRows(p))

AnsweredInv == \A p \in Replica : \A r \in answered[p] : reply[r] # None

CountInv ==
  /\ AnsweredInv
  /\ \A p \in Replica : CountAt(p)

LEMMA RowsNameRequests ==
  ASSUME TypeOK
  PROVE  \A d \in deployments : d.id \in Request
  BY DEF TypeOK, DeploymentRow

(* Nobody is answered; rows are only added by requests still open. *)
LEMMA SilentKeeps ==
  ASSUME IInv, CountInv, deployments \subseteq deployments',
         \A d \in deployments' \ deployments : reply[d.id] = None,
         UNCHANGED <<reply, webhooks_total, answered>>
  PROVE  CountInv'
<1>1. \A d \in deployments' \ deployments : ~ ToldCreated(d.id)
  BY DEF ToldCreated
<1>2. ASSUME NEW p \in Replica PROVE CreatedRows(p)' = CreatedRows(p)
  BY <1>1 DEF CreatedRows, ToldCreated
<1> QED
  BY <1>2 DEF CountInv, CountAt, AnsweredInv

(* A request that had no answer ends without a 201: for each replica that  *)
(* goes on, the deployments it counted are those it counted before.        *)
LEMMA EndKeepsRows ==
  ASSUME IInv, CountInv, NEW r \in Request, reply[r] = None,
         NEW status \in Status, NEW body \in Request \cup {None}, status # Created,
         reply' = [reply EXCEPT ![r] = [status |-> status, body |-> body]],
         deployments \subseteq deployments',
         \A d \in deployments' \ deployments : d.id = r,
         NEW q \in Replica, answered'[q] \in {answered[q], answered[q] \cup {r}}
  PROVE  /\ CreatedRows(q)' = CreatedRows(q)
         /\ \A s \in answered'[q] : reply'[s] # None
<1>1. [status |-> status, body |-> body] # None
  BY NoneAssumption DEF Reply
<1>2. /\ reply'[r] = [status |-> status, body |-> body]
      /\ \A s \in Request \ {r} : reply'[s] = reply[s]
  BY DEF IInv, TypeOK
<1>3. answered[q] \subseteq Request /\ \A s \in answered[q] : reply[s] # None
  BY DEF IInv, TypeOK, CountInv, AnsweredInv
<1>4. \A s \in answered'[q] : reply'[s] # None
  BY <1>1, <1>2, <1>3
<1>5. ASSUME NEW d \in deployments' \ deployments
      PROVE  ~ (d.id \in answered'[q] /\ reply'[d.id] # None /\ reply'[d.id].status = Created)
  BY <1>2, <1>5
<1>6. ASSUME NEW d \in deployments
      PROVE  (d.id \in answered'[q] /\ reply'[d.id] # None /\ reply'[d.id].status = Created)
               <=> (d.id \in answered[q] /\ ToldCreated(d.id))
  <2>1. CASE d.id = r
    BY <1>2, <2>1 DEF ToldCreated
  <2>2. CASE d.id # r
    <3>1. d.id \in Request
      BY RowsNameRequests DEF IInv
    <3> QED
      BY <1>2, <2>2, <3>1 DEF ToldCreated
  <2> QED
    BY <2>1, <2>2
<1>7. CreatedRows(q)' = CreatedRows(q)
  BY <1>5, <1>6 DEF CreatedRows, ToldCreated
<1> QED
  BY <1>4, <1>7

(* A replica answers, and not with a 201. *)
LEMMA OtherAnswerKeeps ==
  ASSUME IInv, CountInv, NEW p \in Replica, NEW r \in Request, reply[r] = None,
         NEW status \in Status, NEW body \in Request \cup {None}, status # Created,
         Answer(p, r, status, body),
         deployments \subseteq deployments',
         \A d \in deployments' \ deployments : d.id = r,
         \A q \in Replica : webhooks_total'[q]["received"] = webhooks_total[q]["received"]
  PROVE  CountInv'
<1>1. ASSUME NEW q \in Replica
      PROVE  /\ CreatedRows(q)' = CreatedRows(q)
             /\ \A s \in answered'[q] : reply'[s] # None
  <2>1. answered'[q] \in {answered[q], answered[q] \cup {r}}
    BY DEF Answer, IInv, TypeOK
  <2> QED
    BY <2>1, EndKeepsRows DEF Answer
<1> QED
  BY <1>1 DEF CountInv, CountAt, AnsweredInv

(* A process dies: it forgets its counter and, with it, its answers. *)
LEMMA CrashKeeps ==
  ASSUME IInv, CountInv, NEW p \in Replica,
         answered' = [answered EXCEPT ![p] = {}],
         webhooks_total' = [webhooks_total EXCEPT ![p] = NothingCounted],
         \A q \in Replica \ {p} : /\ CreatedRows(q)' = CreatedRows(q)
                                  /\ \A s \in answered'[q] : reply'[s] # None
  PROVE  CountInv'
<1>1. /\ answered'[p] = {} /\ webhooks_total'[p] = NothingCounted
      /\ \A q \in Replica \ {p} : webhooks_total'[q] = webhooks_total[q]
  BY DEF IInv, TypeOK
<1>2. CreatedRows(p)' = {}
  BY <1>1 DEF CreatedRows
<1>3. CountAt(p)'
  BY <1>1, <1>2, FS_EmptySet DEF CountAt, NothingCounted, Result
<1>4. \A q \in Replica \ {p} : CountAt(q)'
  BY <1>1 DEF CountInv, CountAt
<1> QED
  BY <1>1, <1>3, <1>4 DEF CountInv, AnsweredInv

(* The creator's answer counts its own row, which no one counted before. *)
LEMMA CreatorCounted ==
  ASSUME IInv, CountInv, NEW p \in Replica, pc[p] = "refresh", deployment[p] = handling[p],
         Finish(p, Created, deployment[p]), Count(p, "received"), UNCHANGED tables
  PROVE  CountInv'
<1> DEFINE r == handling[p]
<1>1. r \in Request /\ sent[r] \in Payload /\ reply[r] = None
  BY DEF IInv, HandlingInv, Busy
<1>2. OwnRow(p) \in deployments /\ OwnRow(p).id = r
  BY DEF IInv, TxInv, Recorded, OwnRow
<1>3. ASSUME NEW d \in deployments, d.id = r PROVE d = OwnRow(p)
  <2>1. d.key = KeyAt(p) /\ OwnRow(p).key = KeyAt(p)
    BY <1>3 DEF IInv, RowInv, CreatorKnown, KeyAt, EventAt, OwnRow
  <2> QED
    BY <1>2, <2>1 DEF IInv, RowInv, RowsAreUnique
<1>4. /\ reply'[r] = [status |-> Created, body |-> deployment[p]]
      /\ \A q \in Request \ {r} : reply'[q] = reply[q]
      /\ answered'[p] = answered[p] \cup {r}
      /\ \A q \in Replica \ {p} : answered'[q] = answered[q]
  BY <1>1 DEF Finish, Answer, IInv, TypeOK
<1>5. reply'[r] # None
  <2>1. reply'[r] \in Reply
    BY <1>1, <1>4 DEF Reply, Status
  <2> QED
    BY <2>1, NoneAssumption
<1>6. ASSUME NEW q \in Replica
      PROVE  answered[q] \subseteq Request /\ r \notin answered[q]
  BY <1>1 DEF IInv, TypeOK, CountInv, AnsweredInv
<1>7. AnsweredInv'
  BY <1>4, <1>5, <1>6 DEF CountInv, AnsweredInv
<1>8. deployments' = deployments
  BY DEF tables
<1>9. CreatedRows(p)' = CreatedRows(p) \cup {OwnRow(p)}
  <2>1. ASSUME NEW d \in deployments
        PROVE  (d.id \in answered'[p] /\ reply'[d.id] # None /\ reply'[d.id].status = Created)
                 <=> ((d.id \in answered[p] /\ ToldCreated(d.id)) \/ d = OwnRow(p))
    <3>1. d.id \in Request
      BY RowsNameRequests DEF IInv
    <3>2. CASE d.id = r
      BY <1>3, <1>4, <1>5, <3>2
    <3>3. CASE d.id # r
      BY <1>2, <1>4, <3>1, <3>3 DEF ToldCreated
    <3> QED
      BY <3>2, <3>3
  <2> QED
    BY <1>2, <1>8, <2>1 DEF CreatedRows, ToldCreated
<1>10. OwnRow(p) \notin CreatedRows(p)
  BY <1>2, <1>6 DEF CreatedRows
<1>11. /\ IsFiniteSet(CreatedRows(p)')
       /\ Cardinality(CreatedRows(p)') = Cardinality(CreatedRows(p)) + 1
  BY <1>9, <1>10, FS_AddElement DEF CountInv, CountAt
<1>12. /\ webhooks_total'[p]["received"] = webhooks_total[p]["received"] + 1
       /\ \A q \in Replica \ {p} : webhooks_total'[q] = webhooks_total[q]
  BY Counting DEF IInv, Result
<1>13. CountAt(p)'
  BY <1>11, <1>12 DEF CountInv, CountAt
<1>14. ASSUME NEW q \in Replica \ {p} PROVE CountAt(q)'
  <2>1. ASSUME NEW d \in deployments, d.id \in answered[q]
        PROVE  reply'[d.id] = reply[d.id]
    BY <1>4, <1>6, <2>1
  <2>2. CreatedRows(q)' = CreatedRows(q)
    BY <1>4, <1>8, <2>1 DEF CreatedRows, ToldCreated
  <2> QED
    BY <1>12, <2>2 DEF CountInv, CountAt
<1> QED
  BY <1>7, <1>13, <1>14 DEF CountInv

(* What a COMMIT adds belongs to its handler's request. *)
LEMMA AppliedRows ==
  ASSUME IInv, NEW p \in Replica, pc[p] = "commit", ApplyTx(p)
  PROVE  /\ deployments \subseteq deployments'
         /\ \A d \in deployments' \ deployments : d.id = handling[p]
<1>1. Creates(p) \/ Reuses(p)
  BY DEF IInv, TxInv
<1> QED
  BY <1>1 DEF ApplyTx, Creates, Reuses, OwnRow

(* Every step keeps counters and answers in agreement. *)
LEMMA CountStep ==
  ASSUME IInv, CountInv, [Next]_vars
  PROVE  CountInv'
<1> USE DEF tables
<1>1. ASSUME UNCHANGED <<tables, reply, webhooks_total, answered>> PROVE CountInv'
  BY <1>1, SilentKeeps
<1>2. ASSUME NEW p \in Replica, Count(p, "duplicate") \/ Count(p, "rejected")
      PROVE  \A q \in Replica : webhooks_total'[q]["received"] = webhooks_total[q]["received"]
  <2>1. PICK result \in Result \ {"received"} : Count(p, result)
    BY <1>2 DEF Result
  <2> QED
    BY <2>1, Counting DEF IInv, Result
<1>3. ASSUME NEW p \in Replica, Busy(p), NEW status \in Status \ {Created},
             NEW body \in Request \cup {None}, Finish(p, status, body),
             Count(p, "duplicate") \/ UNCHANGED webhooks_total,
             deployments \subseteq deployments',
             \A d \in deployments' \ deployments : d.id = handling[p]
      PROVE  CountInv'
  <2>1. handling[p] \in Request /\ reply[handling[p]] = None
    BY <1>3 DEF IInv, HandlingInv
  <2> QED
    BY <1>2, <1>3, <2>1, OtherAnswerKeeps DEF Finish
<1>4. Duplicate \in Status \ {Created} /\ ServerError \in Status \ {Created}
      /\ UnknownService \in Status \ {Created} /\ Lost \in Status \ {Created}
  BY DEF Status, Created, Duplicate, ServerError, UnknownService, Lost
<1>5. ASSUME NEW p \in Replica, Busy(p), AnswerKnownDelivery(p) PROVE CountInv'
  <2>1. PICK v \in deliveries : /\ Finish(p, Duplicate, v.deployment)
                                /\ Count(p, "duplicate")
                                /\ UNCHANGED tables
    BY <1>5 DEF AnswerKnownDelivery, FindDelivery
  <2>2. v.deployment \in Request
    BY DEF IInv, TypeOK, DeliveryRow
  <2> QED
    BY <1>3, <1>4, <1>5, <2>1, <2>2
<1>6. ASSUME NEW p \in Replica, LoseTx(p)
      PROVE  /\ Busy(p)
             /\ deployments \subseteq deployments'
             /\ \A d \in deployments' \ deployments : d.id = handling[p]
  BY <1>6, AppliedRows DEF LoseTx, At, Busy
<1>7. ASSUME NEW r \in Request, NEW payload \in Payload, Submit(r, payload) PROVE CountInv'
  BY <1>1, <1>7 DEF Submit
<1>8. ASSUME NEW s \in Service, RegisterService(s) PROVE CountInv'
  BY <1>1, <1>8 DEF RegisterService
<1>9. ASSUME NEW p \in Replica, NEW r \in Request,
             RejectSignature(p, r) \/ RejectPayload(p, r)
      PROVE  CountInv'
  <2>1. reply[r] = None /\ deployments' = deployments
    BY <1>9 DEF RejectSignature, RejectPayload, Waiting, Refuse
  <2>2. \A q \in Replica : webhooks_total'[q]["received"] = webhooks_total[q]["received"]
    BY <1>2, <1>9 DEF RejectSignature, RejectPayload
  <2>3. PICK status \in {BadSignature, Unprocessable} : Answer(p, r, status, None)
    BY <1>9 DEF RejectSignature, RejectPayload, Refuse
  <2>4. status # Created /\ status \in Status
    BY DEF BadSignature, Unprocessable, Created, Status
  <2> QED
    BY <2>1, <2>2, <2>3, <2>4, OtherAnswerKeeps
<1>10. ASSUME NEW p \in Replica, NEW r \in Request, Admit(p, r) PROVE CountInv'
  BY <1>1, <1>10 DEF Admit
<1>11. ASSUME NEW p \in Replica, FindService(p) PROVE CountInv'
  <2>1. Busy(p)
    BY <1>11 DEF FindService, At, Busy
  <2> QED
    BY <1>1, <1>3, <1>4, <1>11, <2>1 DEF FindService
<1>12. ASSUME NEW p \in Replica, ReplayGuard(p) \/ RefindDelivery(p) PROVE CountInv'
  <2>1. Busy(p)
    BY <1>12 DEF ReplayGuard, RefindDelivery, At, Busy
  <2> QED
    BY <1>1, <1>5, <1>12, <2>1 DEF ReplayGuard, RefindDelivery, KeepRequests
<1>13. ASSUME NEW p \in Replica,
              \/ FindOrBuild(p) \/ FlushDeployment(p) \/ FlushConflict(p)
              \/ InsertDelivery(p) \/ DeliveryConflict(p)
       PROVE  CountInv'
  BY <1>1, <1>13 DEF FindOrBuild, FlushDeployment, FlushConflict, InsertDelivery,
     DeliveryConflict, Rollback, KeepRequests
<1>14. ASSUME NEW p \in Replica, Commit(p) PROVE CountInv'
  <2>1. pc[p] = "commit" /\ ApplyTx(p) /\ UNCHANGED <<reply, webhooks_total, answered>>
    BY <1>14 DEF Commit, At, KeepRequests
  <2>2. reply[handling[p]] = None
    BY <2>1 DEF IInv, HandlingInv, Busy
  <2> QED
    BY <2>1, <2>2, AppliedRows, SilentKeeps
<1>15. ASSUME NEW p \in Replica, Respond(p) PROVE CountInv'
  <2>1. pc[p] = "refresh" /\ Busy(p) /\ deployment[p] \in Request
    BY <1>15, HeldType DEF Respond, At, Busy
  <2> QED
    BY <1>3, <1>4, <1>15, <2>1, CreatorCounted DEF Respond
<1>16. ASSUME NEW p \in Replica, RefindDeployment(p) PROVE CountInv'
  <2>1. Busy(p) /\ \A d \in deployments : d.id \in Request
    BY <1>16, RowsNameRequests DEF RefindDeployment, At, Busy, IInv
  <2> QED
    BY <1>3, <1>4, <1>16, <2>1 DEF RefindDeployment, FindDeployment
<1>17. ASSUME NEW p \in Replica, DatabaseError(p) PROVE CountInv'
  BY <1>3, <1>4, <1>6, <1>17 DEF DatabaseError
<1>18. ASSUME NEW p \in Replica, Crash(p) PROVE CountInv'
  <2>1. \A q \in Replica \ {p} : answered'[q] = answered[q]
    BY <1>18 DEF Crash, IInv, TypeOK
  <2>2. CASE UNCHANGED <<tables, reply>>
    <3>1. \A q \in Replica \ {p} : CreatedRows(q)' = CreatedRows(q)
      BY <2>1, <2>2 DEF CreatedRows, ToldCreated
    <3> QED
      BY <1>18, <2>1, <2>2, <3>1, CrashKeeps DEF Crash, CountInv, AnsweredInv
  <2>3. CASE /\ LoseTx(p)
             /\ reply' = [reply EXCEPT ![handling[p]] =
                             [status |-> Lost, body |-> None]]
    <3>1. handling[p] \in Request /\ reply[handling[p]] = None
      BY <1>6, <2>3 DEF IInv, HandlingInv
    <3>2. ASSUME NEW q \in Replica \ {p}
          PROVE  /\ CreatedRows(q)' = CreatedRows(q)
                 /\ \A s \in answered'[q] : reply'[s] # None
      BY <1>4, <1>6, <2>1, <2>3, <3>1, EndKeepsRows
    <3> QED
      BY <1>18, <3>2, CrashKeeps DEF Crash
  <2> QED
    BY <1>18, <2>2, <2>3 DEF Crash
<1>19. CASE UNCHANGED vars
  BY <1>1, <1>19 DEF vars
<1> QED
  BY <1>7, <1>8, <1>9, <1>10, <1>11, <1>12, <1>13, <1>14, <1>15, <1>16, <1>17, <1>18, <1>19
     DEF Next, Handle

(* Since its process started, each replica has counted as received the     *)
(* deployments whose creator it answered 201, and each once, through       *)
(* races, retries and replays on all replicas and deaths of any of them.   *)
THEOREM CounterCountsDeployments == Spec => []ReceivedCountsDeployments
<1>1. Init => CountInv
  <2> SUFFICES ASSUME Init PROVE CountInv
    OBVIOUS
  <2>1. \A p \in Replica : CreatedRows(p) = {} /\ answered[p] = {}
    BY DEF Init, CreatedRows
  <2>2. \A p \in Replica : CountAt(p)
    BY <2>1, FS_EmptySet DEF Init, CountAt, NothingCounted, Result
  <2> QED
    BY <2>1, <2>2 DEF CountInv, AnsweredInv
<1>2. CountInv => ReceivedCountsDeployments
  <2> SUFFICES ASSUME CountInv, NEW p \in Replica
               PROVE  webhooks_total[p]["received"] =
                        Cardinality({d \in deployments :
                                       d.id \in answered[p] /\ reply[d.id].status = Created})
    BY DEF ReceivedCountsDeployments
  <2>1. {d \in deployments : d.id \in answered[p] /\ reply[d.id].status = Created}
          = CreatedRows(p)
    BY DEF CreatedRows, ToldCreated, CountInv, AnsweredInv
  <2> QED
    BY <2>1 DEF CountInv, CountAt
<1> QED
  BY <1>1, <1>2, IInvHolds, CountStep, PTL DEF Spec
=============================================================================
