------------------------------- MODULE Registry -------------------------------
(***************************************************************************)
(* The registry API (releasepulse/api/routers/services.py, endpoints.py):  *)
(* registration, PATCH and soft delete.  The handlers are plain functions, *)
(* which FastAPI runs in a thread pool, on any number of replicas: each    *)
(* has a session of its own, reads a row, commits what it changes and      *)
(* reads again, and the others interleave.  An INSERT or UPDATE and its    *)
(* COMMIT are one step: the unique index and the row lock make a           *)
(* concurrent writer wait until the COMMIT and then act on its result.     *)
(***************************************************************************)
EXTENDS FiniteSets

CONSTANTS
  Request,    \* HTTP requests of an admin
  Service,    \* service names
  EndpointId, \* primary keys (uuid4)
  Identity,   \* an endpoint's (service, environment, url, method)
  ServiceOf,  \* the service of an identity
  Column,     \* the columns PATCH may change
  Nullable,   \* those of them that may be NULL: the detector's overrides
  Value,      \* values the schemas let through
  Settings,   \* columns a POST may carry
  Changes,    \* bodies a PATCH may carry
  NULL

ASSUME RegistryAssumption ==
  /\ ServiceOf \in [Identity -> Service]
  /\ Nullable \subseteq Column
  /\ NULL \notin Value \cup Request
  /\ Settings \subseteq [Column -> Value \cup {NULL}]
  /\ \A settings \in Settings : \A c \in Column \ Nullable : settings[c] # NULL
  /\ Changes \subseteq UNION {[C -> Value \cup {NULL}] : C \in SUBSET Column}

VARIABLES
  services,  \* names in table services
  endpoints, \* table endpoints: the row of an id, NULL without a row
  sent,      \* what a request asks, NULL before it is made
  pc,        \* the next statement of its handler
  loaded,    \* the row its session holds, NULL without one
  reply,     \* its HTTP status, NULL before it is answered
  met        \* history: the requests that committed since it loaded its row

vars == <<services, endpoints, sent, pc, loaded, reply, met>>

(* deleted_at is the request that deleted the row. *)
Row == [identity : Identity, settings : [Column -> Value \cup {NULL}],
        deleted_at : Request \cup {NULL}]

Payload ==
  [op : {"create_service"}, service : Service]
  \cup [op : {"create_endpoint"}, identity : Identity, settings : Settings]
  \cup [op : {"update_endpoint"}, endpoint : EndpointId, changes : Changes]
  \cup [op : {"delete_endpoint"}, endpoint : EndpointId]

Ok == 200
Created == 201
NoContent == 204
Rejected == 400
NotFound == 404
Conflict == 409
ServerError == 500

Status == {Ok, Created, NoContent, Rejected, NotFound, Conflict, ServerError}

ASSUME NullAssumption == NULL \notin Row \cup Payload \cup Status

TypeOK ==
  /\ services \subseteq Service
  /\ endpoints \in [EndpointId -> Row \cup {NULL}]
  /\ \A e \in EndpointId : endpoints[e] # NULL =>
       \A c \in Column \ Nullable : endpoints[e].settings[c] # NULL
  /\ sent \in [Request -> Payload \cup {NULL}]
  /\ pc \in [Request -> {"new", "find", "write", "refresh", "done"}]
  /\ loaded \in [Request -> Row \cup {NULL}]
  /\ reply \in [Request -> Status \cup {NULL}]
  /\ met \in [Request -> SUBSET Request]

NewRow(identity, settings) ==
  [identity |-> identity, settings |-> settings, deleted_at |-> NULL]

NewRows == {NewRow(i, settings) : i \in Identity, settings \in Settings}

(* Some services and some of their endpoints may be registered already. *)
Init ==
  /\ services \in SUBSET Service
  /\ endpoints \in [EndpointId -> NewRows \cup {NULL}]
  /\ \A e, f \in EndpointId : endpoints[e] # NULL =>
       /\ ServiceOf[endpoints[e].identity] \in services
       /\ endpoints[f] # NULL /\ endpoints[e].identity = endpoints[f].identity => e = f
  /\ sent = [r \in Request |-> NULL]
  /\ pc = [r \in Request |-> "new"]
  /\ loaded = [r \in Request |-> NULL]
  /\ reply = [r \in Request |-> NULL]
  /\ met = [r \in Request |-> {}]

-----------------------------------------------------------------------------
Goto(r, where) == pc' = [pc EXCEPT ![r] = where]

Answer(r, status) ==
  /\ reply' = [reply EXCEPT ![r] = status]
  /\ Goto(r, "done")

(* The write of r is committed: it may undo what others wrote or will write. *)
Committed(r) ==
  met' = [q \in Request |->
            IF q # r /\ loaded[q] # NULL THEN met[q] \cup {r} ELSE met[q]]

(* The admin token is checked before the handler; what it refuses is left  *)
(* out, and so are bodies the schemas refuse.                              *)
Submit(r, payload) ==
  /\ pc[r] = "new"
  /\ sent' = [sent EXCEPT ![r] = payload]
  /\ Goto(r, IF payload.op = "create_service" THEN "write" ELSE "find")
  /\ UNCHANGED <<services, endpoints, loaded, reply, met>>

At(r, op, where) == pc[r] = where /\ sent[r].op = op

create_service(r) ==
  /\ At(r, "create_service", "write")
  /\ \/ /\ sent[r].service \notin services
        /\ services' = services \cup {sent[r].service}
        /\ Goto(r, "refresh")
        /\ UNCHANGED reply
     \/ /\ sent[r].service \in services
        /\ Answer(r, Conflict)
        /\ UNCHANGED services
  /\ UNCHANGED <<endpoints, sent, loaded, met>>

(* The service exists and validate_url, whose name resolution is the       *)
(* world's, lets the URL through or does not.                              *)
FindService(r) ==
  /\ At(r, "create_endpoint", "find")
  /\ \/ /\ ServiceOf[sent[r].identity] \notin services
        /\ Answer(r, NotFound)
     \/ /\ ServiceOf[sent[r].identity] \in services
        /\ \/ Answer(r, Rejected)
           \/ Goto(r, "write") /\ UNCHANGED reply
  /\ UNCHANGED <<services, endpoints, sent, loaded, met>>

(* Mutant: the unique index leaves deleted rows out. *)
TakenByLive(identity) ==
  \E e \in EndpointId : /\ endpoints[e] # NULL
                        /\ endpoints[e].identity = identity
                        /\ endpoints[e].deleted_at = NULL

(* UNIQUE (service_id, environment, url, method), deleted rows included. *)
Taken(identity) ==
  \E e \in EndpointId : endpoints[e] # NULL /\ endpoints[e].identity = identity

create_endpoint(r) ==
  /\ At(r, "create_endpoint", "write")
  /\ \/ /\ ~ Taken(sent[r].identity)
        /\ \E e \in EndpointId :
             /\ endpoints[e] = NULL
             /\ endpoints' = [endpoints EXCEPT ![e] =
                                NewRow(sent[r].identity, sent[r].settings)]
        /\ Goto(r, "refresh")
        /\ Committed(r)
        /\ UNCHANGED reply
     \/ /\ Taken(sent[r].identity)
        /\ Answer(r, Conflict)
        /\ UNCHANGED <<endpoints, met>>
  /\ UNCHANGED <<services, sent, loaded>>

IsLive(e) == endpoints[e] # NULL /\ endpoints[e].deleted_at = NULL

(* _get_live_endpoint *)
Load(r) ==
  /\ pc[r] = "find"
  /\ sent[r].op \in {"update_endpoint", "delete_endpoint"}
  /\ \/ /\ IsLive(sent[r].endpoint)
        /\ loaded' = [loaded EXCEPT ![r] = endpoints[sent[r].endpoint]]
        /\ Goto(r, "write")
        /\ UNCHANGED reply
     \/ /\ ~ IsLive(sent[r].endpoint)
        /\ Answer(r, NotFound)
        /\ UNCHANGED loaded
  /\ UNCHANGED <<services, endpoints, sent, met>>

(* The columns the session flushes: those set to another value than the    *)
(* loaded one.                                                             *)
Dirty(r) == {c \in DOMAIN sent[r].changes : sent[r].changes[c] # loaded[r].settings[c]}

(* Mutant: every column is written back, as loaded or changed. *)
WriteRow(r, row) ==
  [loaded[r] EXCEPT !.settings =
     [c \in Column |-> IF c \in Dirty(r) THEN sent[r].changes[c] ELSE @[c]]]

(* The UPDATE, on the row as it is by then. *)
WriteColumns(r, row) ==
  [row EXCEPT !.settings =
     [c \in Column |-> IF c \in Dirty(r) THEN sent[r].changes[c] ELSE @[c]]]

(* Mutant: no column is NOT NULL. *)
NothingForbidden(r) == FALSE

(* NOT NULL: an explicit null passes the schema, and the IntegrityError    *)
(* reaches the server.                                                     *)
Forbidden(r) == \E c \in Dirty(r) \ Nullable : sent[r].changes[c] = NULL

update_endpoint(r) ==
  LET e == sent[r].endpoint IN
  /\ At(r, "update_endpoint", "write")
  /\ \/ /\ ~ Forbidden(r)
        /\ endpoints' = [endpoints EXCEPT ![e] = WriteColumns(r, @)]
        /\ Goto(r, "refresh")
        /\ Committed(r)
        /\ UNCHANGED reply
     \/ /\ Forbidden(r)
        /\ Answer(r, ServerError)
        /\ UNCHANGED <<endpoints, met>>
  /\ UNCHANGED <<services, sent, loaded>>

(* A database error in the COMMIT leaves open whether it took effect. *)
delete_endpoint(r) ==
  LET e == sent[r].endpoint IN
  /\ At(r, "delete_endpoint", "write")
  /\ endpoints' = [endpoints EXCEPT ![e].deleted_at = r]
  /\ \E status \in {NoContent, ServerError} : Answer(r, status)
  /\ Committed(r)
  /\ UNCHANGED <<services, sent, loaded>>

(* db.refresh and the answer, which shows the row as it is by then. *)
Refresh(r) ==
  /\ pc[r] = "refresh"
  /\ Answer(r, IF sent[r].op = "update_endpoint" THEN Ok ELSE Created)
  /\ UNCHANGED <<services, endpoints, sent, loaded, met>>

(* The database is lost or the replica dies, also after a COMMIT (for a    *)
(* DELETE, which reads nothing after it, see there).                       *)
Fails(r) ==
  /\ pc[r] \in {"find", "write", "refresh"}
  /\ Answer(r, ServerError)
  /\ UNCHANGED <<services, endpoints, sent, loaded, met>>

Handle(r) ==
  \/ create_service(r)
  \/ FindService(r) \/ create_endpoint(r)
  \/ Load(r) \/ update_endpoint(r) \/ delete_endpoint(r)
  \/ Refresh(r)
  \/ Fails(r)

Next ==
  \E r \in Request : (\E payload \in Payload : Submit(r, payload)) \/ Handle(r)

Spec == Init /\ [][Next]_vars

-----------------------------------------------------------------------------
Asked(r, op) == sent[r] # NULL /\ sent[r].op = op

(***************************************************************************)
(* The checks of one URL are never split over two endpoints: an identity   *)
(* stays with its first endpoint, also when that was deleted and another   *)
(* admin registers the URL again (models.py:86, endpoints.py:55).          *)
(***************************************************************************)
OneEndpointPerIdentity ==
  \A e, f \in EndpointId :
    endpoints[e] # NULL /\ endpoints[f] # NULL
      /\ endpoints[e].identity = endpoints[f].identity => e = f

(***************************************************************************)
(* No lost update: a column a PATCH was told is applied has the value it   *)
(* sent, or that of another PATCH that sent this column and committed      *)
(* after the first loaded the row.  PATCHes of different columns, and a    *)
(* PATCH that changed nothing, never undo each other (endpoints.py:91).    *)
(***************************************************************************)
AppliedChangesHold ==
  \A r \in Request : Asked(r, "update_endpoint") /\ reply[r] = Ok =>
    LET e == sent[r].endpoint IN
    \A c \in DOMAIN sent[r].changes :
      \/ endpoints[e].settings[c] = sent[r].changes[c]
      \/ \E q \in met[r] :
           /\ Asked(q, "update_endpoint")
           /\ sent[q].endpoint = e
           /\ c \in DOMAIN sent[q].changes
           /\ endpoints[e].settings[c] = sent[q].changes[c]

(***************************************************************************)
(* A deleted endpoint never comes back and its deletion is what the admin  *)
(* was told: a PATCH that loaded the row before the DELETE committed       *)
(* writes its columns and nothing else (endpoints.py:91, 102).             *)
(***************************************************************************)
DeletionHolds ==
  \A r \in Request : Asked(r, "delete_endpoint") /\ reply[r] = NoContent =>
    endpoints[sent[r].endpoint].deleted_at # NULL
=============================================================================
