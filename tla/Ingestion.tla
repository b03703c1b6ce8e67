------------------------------ MODULE Ingestion ------------------------------
(***************************************************************************)
(* The deployment webhook, POST /webhooks/deployments                      *)
(* (releasepulse/api/routers/deployments.py), run by several API replicas  *)
(* against one PostgreSQL database.                                        *)
(*                                                                         *)
(* The handler is a coroutine that never awaits after it has read the      *)
(* request body, and its database calls are synchronous: one replica runs  *)
(* one handler at a time from the signature check to the answer, and only  *)
(* other replicas interleave with it, one SQL statement at a time.  The    *)
(* database is READ COMMITTED: a SELECT sees committed rows, an INSERT     *)
(* whose unique key is held by an open transaction waits for it, one whose *)
(* key is committed raises IntegrityError.                                 *)
(***************************************************************************)
EXTENDS Naturals, FiniteSets

CONSTANTS
  Replica,    \* the API processes (helm value api.replicas)
  Request,    \* HTTP requests; a retry or replay is another request
  Event,      \* delivery identities, the X-Sentinel-Event-Id header
  Key,        \* deployment identities, (source, external_id)
  Service,    \* service names a payload may carry
  KeyOf,      \* the deployment a delivery is about
  ServiceOf,  \* the service a deployment is of
  None        \* NULL / Python's None

(* Both shipped senders derive the event id from the external id and the   *)
(* time of sending, and the external id belongs to one service's release.  *)
ASSUME SenderAssumption ==
  /\ KeyOf \in [Event -> Key]
  /\ ServiceOf \in [Key -> Service]

VARIABLES
  services,       \* names registered in the services table
  sent,           \* what each request carries, None before it is made
  deployments,    \* committed rows of table deployments
  deliveries,     \* committed rows of table webhook_deliveries
  pc,             \* the next statement of the handler a replica runs
  handling,       \* the request a replica handles
  deployment,     \* the handler's local: id of the row it holds
  tx,             \* rows inserted by a replica's open transaction
  reply,          \* the answer to each request, None while there is none
  webhooks_total, \* the counter, in the memory of each replica's process
  answered        \* history: the requests a process answered since it started

vars == <<services, sent, deployments, deliveries, pc, handling, deployment,
          tx, reply, webhooks_total, answered>>

tables == <<deployments, deliveries>>

-----------------------------------------------------------------------------

(* "signed" passes verify_webhook_signature and the schema, "unsigned"     *)
(* fails the first and "malformed" passes the first and fails the second.  *)
Form == {"signed", "unsigned", "malformed"}

Payload == [event : Event, form : Form]

(* The id of a row is the request that created it (uuid4 in the code). *)
DeploymentRow == [id : Request, key : Key]
DeliveryRow == [event : Event, deployment : Request]

NoTx == [deployments |-> {}, deliveries |-> {}]

(* The HTTP statuses of the handler; Lost: the replica died first. *)
Created == 201
Duplicate == 200
BadSignature == 401
UnknownService == 404
Unprocessable == 422
ServerError == 500
Lost == 0

Status == {Created, Duplicate, BadSignature, UnknownService, Unprocessable,
           ServerError, Lost}

Reply == [status : Status, body : Request \cup {None}]

(* None is no value of the columns and fields it stands in for. *)
ASSUME NoneAssumption ==
  /\ None \notin Request
  /\ None \notin Key
  /\ None \notin Payload
  /\ None \notin Reply

Result == {"received", "duplicate", "rejected"}

NothingCounted == [k \in Result |-> 0]

PC == {"idle", "find_service", "find_delivery", "find_deployment", "flush",
       "insert_delivery", "commit", "refresh", "refind_delivery",
       "refind_deployment"}

TypeOK ==
  /\ services \subseteq Service
  /\ sent \in [Request -> Payload \cup {None}]
  /\ deployments \subseteq DeploymentRow
  /\ deliveries \subseteq DeliveryRow
  /\ pc \in [Replica -> PC]
  /\ handling \in [Replica -> Request \cup {None}]
  /\ deployment \in [Replica -> Request \cup {None}]
  /\ tx \in [Replica -> [deployments : SUBSET DeploymentRow,
                         deliveries : SUBSET DeliveryRow]]
  /\ reply \in [Request -> Reply \cup {None}]
  /\ webhooks_total \in [Replica -> [Result -> Nat]]
  /\ answered \in [Replica -> SUBSET Request]

Init ==
  /\ services = {}
  /\ sent = [r \in Request |-> None]
  /\ deployments = {}
  /\ deliveries = {}
  /\ pc = [p \in Replica |-> "idle"]
  /\ handling = [p \in Replica |-> None]
  /\ deployment = [p \in Replica |-> None]
  /\ tx = [p \in Replica |-> NoTx]
  /\ reply = [r \in Request |-> None]
  /\ webhooks_total = [p \in Replica |-> NothingCounted]
  /\ answered = [p \in Replica |-> {}]

-----------------------------------------------------------------------------

EventAt(p) == sent[handling[p]].event
KeyAt(p) == KeyOf[EventAt(p)]

(* _find_deployment and _find_delivery: what a SELECT outside any write of *)
(* the same session sees.                                                  *)
FindDeployment(k) == {d \in deployments : d.key = k}
FindDelivery(e) == {v \in deliveries : v.event = e}

(* The unique constraints.  A key is busy while another open transaction   *)
(* has inserted it.                                                        *)
DeploymentKeyBusy(p) ==
  \E q \in Replica \ {p} : \E d \in tx[q].deployments : d.key = KeyAt(p)
DeliveryKeyBusy(p) ==
  \E q \in Replica \ {p} : \E v \in tx[q].deliveries : v.event = EventAt(p)

At(p, here) == pc[p] = here
Goto(p, there) == pc' = [pc EXCEPT ![p] = there]

Answer(p, r, status, body) ==
  /\ reply' = [reply EXCEPT ![r] = [status |-> status, body |-> body]]
  /\ answered' = [answered EXCEPT ![p] = @ \cup {r}]

Count(p, result) ==
  webhooks_total' = [webhooks_total EXCEPT ![p][result] = @ + 1]

(* Mutant: get_db does not close the session. *)
FinishKeepsSession(p, status, body) ==
  /\ Answer(p, handling[p], status, body)
  /\ Goto(p, "idle")
  /\ handling' = [handling EXCEPT ![p] = None]
  /\ deployment' = [deployment EXCEPT ![p] = None]
  /\ tx' = tx

(* get_db closes the session, which drops a transaction still open. *)
Close(p) ==
  /\ Goto(p, "idle")
  /\ handling' = [handling EXCEPT ![p] = None]
  /\ deployment' = [deployment EXCEPT ![p] = None]
  /\ tx' = [tx EXCEPT ![p] = NoTx]

(* The handler returns or raises. *)
Finish(p, status, body) ==
  /\ Answer(p, handling[p], status, body)
  /\ Close(p)

(* What a handler's step inside its transaction never touches. *)
KeepRequests ==
  UNCHANGED <<services, sent, handling, reply, webhooks_total, answered>>

-----------------------------------------------------------------------------

(* Senders and the operator. *)

(* A sender makes a request: a new delivery, or one it sent before because *)
(* it saw no answer.                                                       *)
Submit(r, payload) ==
  /\ sent[r] = None
  /\ sent' = [sent EXCEPT ![r] = payload]
  /\ UNCHANGED <<services, tables, pc, handling, deployment, tx, reply,
                 webhooks_total, answered>>

(* POST /services of an unknown name. *)
RegisterService(s) ==
  /\ s \notin services
  /\ services' = services \cup {s}
  /\ UNCHANGED <<sent, tables, pc, handling, deployment, tx, reply,
                 webhooks_total, answered>>

-----------------------------------------------------------------------------

(* The handler, up to its first database call. *)

Waiting(p, r) ==
  /\ At(p, "idle")
  /\ sent[r] # None
  /\ reply[r] = None
  /\ \A q \in Replica : handling[q] # r

Refuse(p, r, status) ==
  /\ Answer(p, r, status, None)
  /\ UNCHANGED <<services, sent, tables, pc, handling, deployment, tx>>

(* verify_webhook_signature raises: counted as rejected, answered 401. *)
RejectSignature(p, r) ==
  /\ Waiting(p, r)
  /\ sent[r].form = "unsigned"
  /\ Refuse(p, r, BadSignature)
  /\ Count(p, "rejected")

(* model_validate_json raises: answered 422, not counted. *)
RejectPayload(p, r) ==
  /\ Waiting(p, r)
  /\ sent[r].form = "malformed"
  /\ Refuse(p, r, Unprocessable)
  /\ UNCHANGED webhooks_total

Admit(p, r) ==
  /\ Waiting(p, r)
  /\ sent[r].form = "signed"
  /\ handling' = [handling EXCEPT ![p] = r]
  /\ Goto(p, "find_service")
  /\ UNCHANGED <<services, sent, tables, deployment, tx, reply, webhooks_total,
                 answered>>

-----------------------------------------------------------------------------

(* The handler's statements, in order. *)

FindService(p) ==
  /\ At(p, "find_service")
  /\ \/ /\ ServiceOf[KeyAt(p)] \in services
        /\ Goto(p, "find_delivery")
        /\ UNCHANGED <<handling, deployment, tx, reply, answered>>
     \/ /\ ServiceOf[KeyAt(p)] \notin services
        /\ Finish(p, UnknownService, None)
  /\ UNCHANGED <<services, sent, tables, webhooks_total>>

(* The answer to a delivery already recorded: the deployment it was about. *)
AnswerKnownDelivery(p) ==
  \E v \in FindDelivery(EventAt(p)) :
    /\ Finish(p, Duplicate, v.deployment)
    /\ Count(p, "duplicate")
    /\ UNCHANGED <<services, sent, tables>>

(* The replay guard. *)
ReplayGuard(p) ==
  /\ At(p, "find_delivery")
  /\ \/ AnswerKnownDelivery(p)
     \/ /\ FindDelivery(EventAt(p)) = {}
        /\ Goto(p, "find_deployment")
        /\ UNCHANGED <<tables, deployment, tx>>
        /\ KeepRequests

(* Mutant: the new row is used without the id that flush assigns. *)
FindOrBuildWithoutId(p) ==
  /\ At(p, "find_deployment")
  /\ \/ \E d \in FindDeployment(KeyAt(p)) :
          /\ deployment' = [deployment EXCEPT ![p] = d.id]
          /\ Goto(p, "insert_delivery")
     \/ /\ FindDeployment(KeyAt(p)) = {}
        /\ Goto(p, "insert_delivery")
        /\ UNCHANGED deployment
  /\ UNCHANGED <<tables, tx>>
  /\ KeepRequests

(* An existing deployment is reused; otherwise a row is prepared, still    *)
(* outside the database, and the deployment held is this request's own.    *)
FindOrBuild(p) ==
  /\ At(p, "find_deployment")
  /\ \/ \E d \in FindDeployment(KeyAt(p)) :
          /\ deployment' = [deployment EXCEPT ![p] = d.id]
          /\ Goto(p, "insert_delivery")
     \/ /\ FindDeployment(KeyAt(p)) = {}
        /\ deployment' = [deployment EXCEPT ![p] = handling[p]]
        /\ Goto(p, "flush")
  /\ UNCHANGED <<tables, tx>>
  /\ KeepRequests

(* except IntegrityError: rollback, then look again. *)
Rollback(p) ==
  /\ tx' = [tx EXCEPT ![p] = NoTx]
  /\ Goto(p, "refind_delivery")
  /\ UNCHANGED <<tables, deployment>>
  /\ KeepRequests

(* Mutant: no UNIQUE (source, external_id). *)
FlushUnconstrained(p) ==
  /\ At(p, "flush")
  /\ tx' = [tx EXCEPT ![p].deployments =
              @ \cup {[id |-> handling[p], key |-> KeyAt(p)]}]
  /\ Goto(p, "insert_delivery")
  /\ UNCHANGED <<tables, deployment>>
  /\ KeepRequests

(* Mutant: db.commit() in place of db.flush(). *)
FlushCommits(p) ==
  /\ At(p, "flush")
  /\ ~ DeploymentKeyBusy(p)
  /\ FindDeployment(KeyAt(p)) = {}
  /\ deployments' = deployments \cup {[id |-> handling[p], key |-> KeyAt(p)]}
  /\ Goto(p, "insert_delivery")
  /\ UNCHANGED <<deliveries, deployment, tx>>
  /\ KeepRequests

(* INSERT INTO deployments, sent by db.flush(). *)
FlushDeployment(p) ==
  /\ At(p, "flush")
  /\ ~ DeploymentKeyBusy(p)
  /\ FindDeployment(KeyAt(p)) = {}
  /\ tx' = [tx EXCEPT ![p].deployments =
              @ \cup {[id |-> handling[p], key |-> KeyAt(p)]}]
  /\ Goto(p, "insert_delivery")
  /\ UNCHANGED <<tables, deployment>>
  /\ KeepRequests

FlushConflict(p) ==
  /\ At(p, "flush")
  /\ ~ DeploymentKeyBusy(p)
  /\ FindDeployment(KeyAt(p)) # {}
  /\ Rollback(p)

(* INSERT INTO webhook_deliveries, sent by db.commit() before COMMIT. *)
InsertDelivery(p) ==
  /\ At(p, "insert_delivery")
  /\ ~ DeliveryKeyBusy(p)
  /\ FindDelivery(EventAt(p)) = {}
  /\ tx' = [tx EXCEPT ![p].deliveries =
              @ \cup {[event |-> EventAt(p), deployment |-> deployment[p]]}]
  /\ Goto(p, "commit")
  /\ UNCHANGED <<tables, deployment>>
  /\ KeepRequests

DeliveryConflict(p) ==
  /\ At(p, "insert_delivery")
  /\ ~ DeliveryKeyBusy(p)
  /\ FindDelivery(EventAt(p)) # {}
  /\ Rollback(p)

ApplyTx(p) ==
  /\ deployments' = deployments \cup tx[p].deployments
  /\ deliveries' = deliveries \cup tx[p].deliveries

Commit(p) ==
  /\ At(p, "commit")
  /\ ApplyTx(p)
  /\ tx' = [tx EXCEPT ![p] = NoTx]
  /\ Goto(p, "refresh")
  /\ UNCHANGED deployment
  /\ KeepRequests

(* Mutant: `response.status_code = 200` is missing, the route's 201 stays. *)
RespondAlwaysCreated(p) ==
  /\ At(p, "refresh")
  /\ Finish(p, Created, deployment[p])
  /\ Count(p, "received")
  /\ UNCHANGED <<services, sent, tables>>

(* db.refresh, the counter and the answer: 201 to the request that created *)
(* the row, 200 to the others.                                             *)
Respond(p) ==
  /\ At(p, "refresh")
  /\ \/ /\ deployment[p] = handling[p]
        /\ Finish(p, Created, deployment[p])
        /\ Count(p, "received")
     \/ /\ deployment[p] # handling[p]
        /\ Finish(p, Duplicate, deployment[p])
        /\ Count(p, "duplicate")
  /\ UNCHANGED <<services, sent, tables>>

(* After a lost race: the same delivery may have won on event_id ... *)
RefindDelivery(p) ==
  /\ At(p, "refind_delivery")
  /\ \/ AnswerKnownDelivery(p)
     \/ /\ FindDelivery(EventAt(p)) = {}
        /\ Goto(p, "refind_deployment")
        /\ UNCHANGED <<tables, deployment, tx>>
        /\ KeepRequests

(* Mutant: returns the handler's own, rolled back object. *)
RefindDeploymentReturnsOwn(p) ==
  LET found == FindDeployment(KeyAt(p)) IN
  /\ At(p, "refind_deployment")
  /\ IF found = {}
       THEN Finish(p, ServerError, None) /\ UNCHANGED webhooks_total
       ELSE Finish(p, Duplicate, deployment[p]) /\ Count(p, "duplicate")
  /\ UNCHANGED <<services, sent, tables>>

(* ... or another delivery of the deployment on (source, external_id).  If *)
(* neither row is there to explain the conflict, the bare `raise` is a 500.  *)
RefindDeployment(p) ==
  LET found == FindDeployment(KeyAt(p)) IN
  /\ At(p, "refind_deployment")
  /\ IF found = {}
       THEN Finish(p, ServerError, None) /\ UNCHANGED webhooks_total
       ELSE /\ \E d \in found : Finish(p, Duplicate, d.id)
            /\ Count(p, "duplicate")
  /\ UNCHANGED <<services, sent, tables>>

-----------------------------------------------------------------------------

(* Failures.  The open transaction is lost, except that a COMMIT on the    *)
(* wire may have been executed.                                            *)
LoseTx(p) ==
  /\ ~ At(p, "idle")
  /\ \/ UNCHANGED tables
     \/ At(p, "commit") /\ ApplyTx(p)

(* The process dies (a crash, a rolling update), in the middle of a        *)
(* request or between two, and restarts with a counter at 0.               *)
Crash(p) ==
  /\ \/ /\ LoseTx(p)
        /\ reply' = [reply EXCEPT ![handling[p]] =
                        [status |-> Lost, body |-> None]]
        /\ Close(p)
     \/ At(p, "idle") /\ UNCHANGED <<tables, pc, handling, deployment, tx, reply>>
  /\ webhooks_total' = [webhooks_total EXCEPT ![p] = NothingCounted]
  /\ answered' = [answered EXCEPT ![p] = {}]
  /\ UNCHANGED <<services, sent>>

(* Mutant: the handler catches every SQLAlchemyError as a conflict. *)
DatabaseErrorCaught(p) ==
  /\ At(p, "flush") \/ At(p, "insert_delivery")
  /\ Rollback(p)

(* A statement fails for another reason, such as a lost connection. *)
DatabaseError(p) ==
  /\ LoseTx(p)
  /\ Finish(p, ServerError, None)
  /\ UNCHANGED <<services, sent, webhooks_total>>

-----------------------------------------------------------------------------

Handle(p) ==
  \/ \E r \in Request :
       RejectSignature(p, r) \/ RejectPayload(p, r) \/ Admit(p, r)
  \/ FindService(p)
  \/ ReplayGuard(p)
  \/ FindOrBuild(p)
  \/ FlushDeployment(p)
  \/ FlushConflict(p)
  \/ InsertDelivery(p)
  \/ DeliveryConflict(p)
  \/ Commit(p)
  \/ Respond(p)
  \/ RefindDelivery(p)
  \/ RefindDeployment(p)

Next ==
  \/ \E r \in Request, payload \in Payload : Submit(r, payload)
  \/ \E s \in Service : RegisterService(s)
  \/ \E p \in Replica : Handle(p) \/ Crash(p) \/ DatabaseError(p)

Spec == Init /\ [][Next]_vars

(* A replica that can take a step of its handler takes one: the event loop *)
(* runs the handler to its end and PostgreSQL wakes a waiting INSERT.      *)
FairSpec == Spec /\ \A p \in Replica : WF_vars(Handle(p))

-----------------------------------------------------------------------------

(* Properties. *)

Accepted(r) == reply[r] # None /\ reply[r].status \in {Created, Duplicate}

(* Deliveries racing on several replicas, retries and replays leave one    *)
(* deployment row per (source, external_id), and one delivery row per      *)
(* event id.                                                               *)
RowsAreUnique ==
  /\ \A c, d \in deployments : c.key = d.key => c = d
  /\ \A v, w \in deliveries : v.event = w.event => v = w

(* Of all the requests about one deployment, at most one is told 201.      *)
CreatedOnce ==
  \A r, s \in Request :
    /\ Accepted(r) /\ reply[r].status = Created
    /\ Accepted(s) /\ reply[s].status = Created
    /\ KeyOf[sent[r].event] = KeyOf[sent[s].event]
    => r = s

(* A sender told 200 or 201 can forget the deployment: it is committed,    *)
(* and the row in the answer is the row of the deployment it reported,     *)
(* whichever of the four return statements answered.                       *)
AnswerIsDurable ==
  \A r \in Request :
    Accepted(r) => [id |-> reply[r].body, key |-> KeyOf[sent[r].event]] \in deployments

(* The two INSERTs of the handler are one unit: a committed deployment has *)
(* its creator's delivery row, and every delivery row points at the        *)
(* deployment its event is about, through crashes between the statements.  *)
DeliveriesMatchDeployments ==
  /\ \A d \in deployments :
       \E v \in deliveries : v.deployment = d.id /\ v.event = sent[d.id].event
  /\ \A v \in deliveries :
       [id |-> v.deployment, key |-> KeyOf[v.event]] \in deployments

(* The `raise` after a lost race is never reached: when the delivery is    *)
(* not found again, the deployment is.                                     *)
RecoveryFindsWinner ==
  \A p \in Replica :
    At(p, "refind_deployment") => FindDeployment(KeyAt(p)) # {}

(* The handler that inserted the deployment also wins its delivery: its    *)
(* second INSERT neither waits nor conflicts.  So a handler that holds a   *)
(* row others wait for never waits itself (the two unique keys are always  *)
(* taken in one order, no deadlock), and an IntegrityError never rolls     *)
(* back a deployment that nobody else is recording.                        *)
CreatorWinsItsDelivery ==
  \A p \in Replica :
    At(p, "insert_delivery") /\ tx[p].deployments # {} =>
      ~ DeliveryKeyBusy(p) /\ FindDelivery(EventAt(p)) = {}

(* Every request made is answered or its replica died under it: waiting    *)
(* INSERTs never wait for each other in a circle.                          *)
EveryRequestAnswered ==
  \A r \in Request : sent[r] # None ~> reply[r] # None

(* What models.py says of webhook_deliveries: "One row per accepted,       *)
(* HMAC-signed webhook delivery".                                          *)
AcceptedDeliveryIsLogged ==
  \A r \in Request : Accepted(r) => FindDelivery(sent[r].event) # {}

(* The label received counts deployments, not requests: a process has      *)
(* counted each deployment whose creator it told 201 since it started, and *)
(* each once, through races, retries and replays on all replicas.  What no *)
(* process counts are the deployments whose creator died or got a 500      *)
(* between the COMMIT and the answer.                                      *)
ReceivedCountsDeployments ==
  \A p \in Replica :
    webhooks_total[p]["received"] =
      Cardinality({d \in deployments :
                     d.id \in answered[p] /\ reply[d.id].status = Created})

-----------------------------------------------------------------------------

(* The ledger the webhook promises its senders. *)

KeyAskedBy(r) == IF sent[r] = None THEN None ELSE KeyOf[sent[r].event]

RecordedFor(k) ==
  IF FindDeployment(k) = {} THEN None ELSE (CHOOSE d \in FindDeployment(k) : TRUE).id

OutcomeOf(r) ==
  IF reply[r] = None THEN "open"
  ELSE IF reply[r].status = Created THEN "created"
  ELSE IF reply[r].status = Duplicate THEN "duplicate"
  ELSE "failed"

Ledger == INSTANCE DeploymentLedger WITH
  about <- [r \in Request |-> KeyAskedBy(r)],
  recorded <- [k \in Key |-> RecordedFor(k)],
  outcome <- [r \in Request |-> OutcomeOf(r)]

(* The handler implements the ledger: a deployment is recorded once, by    *)
(* one request; only that request is told it was created, others that it   *)
(* is a duplicate and never before it is recorded.                         *)
ImplementsLedger == Ledger!Spec
=============================================================================
