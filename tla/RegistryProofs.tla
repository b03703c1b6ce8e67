---------------------------- MODULE RegistryProofs ----------------------------
(***************************************************************************)
(* The registry's safety properties for any requests, columns and rows.    *)
(***************************************************************************)
EXTENDS Registry, TLAPS

Update == "update_endpoint"
Delete == "delete_endpoint"

(* The column has the value of another PATCH that r may have met. *)
ByOther(r, c) ==
  \E q \in met[r] :
    /\ Asked(q, Update)
    /\ sent[q].endpoint = sent[r].endpoint
    /\ c \in DOMAIN sent[q].changes
    /\ endpoints[sent[r].endpoint].settings[c] = sent[q].changes[c]

(* A request is made before it is handled and answered once. *)
InOrder(r) ==
  /\ pc[r] = "new" <=> sent[r] = NULL
  /\ pc[r] # "done" => reply[r] = NULL

(* A handler that has loaded a row holds it, and the row is still there. *)
Holds(r) ==
  /\ Asked(r, Update) \/ Asked(r, Delete)
  /\ pc[r] \in {"write", "refresh"} \/ reply[r] \in {Ok, NoContent}
  => loaded[r] # NULL /\ endpoints[sent[r].endpoint] # NULL

(* Between its two statements, a PATCH is only wrong about columns that    *)
(* a PATCH it has met wrote.                                               *)
Fresh(r) ==
  Asked(r, Update) /\ pc[r] = "write" =>
    \A c \in Column :
      \/ endpoints[sent[r].endpoint].settings[c] = loaded[r].settings[c]
      \/ ByOther(r, c)

Applied(r) ==
  Asked(r, Update) /\ (pc[r] = "refresh" \/ reply[r] = Ok) =>
    \A c \in DOMAIN sent[r].changes :
      \/ endpoints[sent[r].endpoint].settings[c] = sent[r].changes[c]
      \/ ByOther(r, c)

RequestInv(r) == InOrder(r) /\ Holds(r) /\ Fresh(r) /\ Applied(r)

IInv ==
  /\ TypeOK
  /\ \A r \in Request : RequestInv(r)
  /\ OneEndpointPerIdentity
  /\ DeletionHolds

-----------------------------------------------------------------------------

(* What a request of each kind carries. *)
LEMMA PayloadFields ==
  ASSUME NEW p \in Payload
  PROVE  /\ p.op = "create_service" => p.service \in Service
         /\ p.op = "create_endpoint" => p.identity \in Identity /\ p.settings \in Settings
         /\ p.op = Update => p.endpoint \in EndpointId /\ p.changes \in Changes
         /\ p.op = Delete => p.endpoint \in EndpointId
         /\ p.op \in {"create_service", "create_endpoint", Update, Delete}
BY DEF Payload, Update, Delete

(* A PATCH sends columns and values of theirs. *)
LEMMA ChangesAreColumns ==
  ASSUME NEW changes \in Changes
  PROVE  /\ DOMAIN changes \subseteq Column
         /\ \A c \in DOMAIN changes : changes[c] \in Value \cup {NULL}
<1>1. PICK C \in SUBSET Column : changes \in [C -> Value \cup {NULL}]
  BY RegistryAssumption
<1>2. QED
  BY <1>1

(* The requests of a state are well formed. *)
LEMMA SentFields ==
  ASSUME TypeOK, NEW r \in Request, sent[r] # NULL
  PROVE  /\ sent[r] \in Payload
         /\ sent[r].op = Update =>
              /\ sent[r].endpoint \in EndpointId
              /\ sent[r].changes \in Changes
              /\ DOMAIN sent[r].changes \subseteq Column
              /\ \A c \in DOMAIN sent[r].changes :
                   sent[r].changes[c] \in Value \cup {NULL}
         /\ sent[r].op = Delete => sent[r].endpoint \in EndpointId
         /\ sent[r].op = "create_endpoint" =>
              sent[r].identity \in Identity /\ sent[r].settings \in Settings
         /\ sent[r].op = "create_service" => sent[r].service \in Service
<1>1. sent[r] \in Payload
  BY DEF TypeOK
<1>2. QED
  BY <1>1, PayloadFields, ChangesAreColumns

LEMMA RowFields ==
  ASSUME NEW row \in Row
  PROVE  /\ row.identity \in Identity
         /\ row.settings \in [Column -> Value \cup {NULL}]
         /\ row.deleted_at \in Request \cup {NULL}
BY DEF Row

LEMMA NewRowFields ==
  ASSUME NEW i \in Identity, NEW s \in Settings
  PROVE  /\ NewRow(i, s) \in Row
         /\ NewRow(i, s).identity = i
         /\ NewRow(i, s).settings = s
         /\ \A c \in Column \ Nullable : NewRow(i, s).settings[c] # NULL
         /\ NewRow(i, s) # NULL
<1>1. s \in [Column -> Value \cup {NULL}] /\ \A c \in Column \ Nullable : s[c] # NULL
  BY RegistryAssumption
<1>2. NewRow(i, s) \in Row
  BY <1>1 DEF NewRow, Row
<1>3. NewRow(i, s).identity = i /\ NewRow(i, s).settings = s
  BY DEF NewRow
<1>4. QED
  BY <1>1, <1>2, <1>3, NullAssumption

(* What the UPDATE of a PATCH does to a row: the dirty columns, no other,  *)
(* and neither the identity nor the deletion.                              *)
LEMMA WriteColumnsFields ==
  ASSUME TypeOK, NEW r \in Request, Asked(r, Update), NEW row \in Row
  PROVE  /\ WriteColumns(r, row) \in Row
         /\ WriteColumns(r, row).identity = row.identity
         /\ WriteColumns(r, row).deleted_at = row.deleted_at
         /\ \A c \in Column : WriteColumns(r, row).settings[c] =
              IF c \in Dirty(r) THEN sent[r].changes[c] ELSE row.settings[c]
<1> DEFINE settings ==
      [c \in Column |-> IF c \in Dirty(r) THEN sent[r].changes[c] ELSE row.settings[c]]
<1>1. \A c \in Dirty(r) : sent[r].changes[c] \in Value \cup {NULL}
  BY SentFields DEF Asked, Dirty
<1>2. settings \in [Column -> Value \cup {NULL}]
  BY <1>1, RowFields
<1>3. WriteColumns(r, row) = [row EXCEPT !.settings = settings]
  BY DEF WriteColumns
<1> HIDE DEF settings
<1>4. /\ [row EXCEPT !.settings = settings] \in Row
      /\ [row EXCEPT !.settings = settings].identity = row.identity
      /\ [row EXCEPT !.settings = settings].deleted_at = row.deleted_at
      /\ [row EXCEPT !.settings = settings].settings = settings
  BY <1>2 DEF Row
<1>5. \A c \in Column : settings[c] =
        IF c \in Dirty(r) THEN sent[r].changes[c] ELSE row.settings[c]
  BY DEF settings
<1>6. QED
  BY <1>3, <1>4, <1>5

-----------------------------------------------------------------------------

LEMMA InitInv == Init => IInv
<1>1. SUFFICES ASSUME Init PROVE IInv
  OBVIOUS
<1>2. \A e \in EndpointId : endpoints[e] # NULL =>
        /\ endpoints[e] \in Row
        /\ \A c \in Column \ Nullable : endpoints[e].settings[c] # NULL
  <2>1. TAKE e \in EndpointId
  <2>2. HAVE endpoints[e] # NULL
  <2>3. endpoints[e] \in NewRows
    BY <1>1, <2>2 DEF Init
  <2>4. PICK i \in Identity, s \in Settings : endpoints[e] = NewRow(i, s)
    BY <2>3 DEF NewRows
  <2>5. QED
    BY <2>4, NewRowFields
<1>3. TypeOK
  BY <1>1, <1>2 DEF Init, TypeOK
<1>4. \A r \in Request : RequestInv(r)
  BY <1>1 DEF Init, RequestInv, InOrder, Holds, Fresh, Applied, Asked
<1>5. DeletionHolds
  BY <1>1 DEF Init, DeletionHolds, Asked
<1>6. OneEndpointPerIdentity
  BY <1>1 DEF Init, OneEndpointPerIdentity
<1>7. QED
  BY <1>3, <1>4, <1>5, <1>6 DEF IInv

(* A column met as another PATCH's stays so while the row keeps it. *)
LEMMA ByOtherStays ==
  ASSUME NEW r \in Request, NEW c, sent[r] # NULL,
         ByOther(r, c), TypeOK,
         met[r] \subseteq met'[r],
         \A q \in Request : sent[q] # NULL => sent'[q] = sent[q],
         endpoints'[sent[r].endpoint].settings[c] = endpoints[sent[r].endpoint].settings[c]
  PROVE  ByOther(r, c)'
<1>1. PICK q \in met[r] :
         /\ Asked(q, Update)
         /\ sent[q].endpoint = sent[r].endpoint
         /\ c \in DOMAIN sent[q].changes
         /\ endpoints[sent[r].endpoint].settings[c] = sent[q].changes[c]
  BY DEF ByOther
<1>2. q \in Request /\ q \in met'[r]
  BY DEF TypeOK
<1>3. sent'[q] = sent[q] /\ sent'[r] = sent[r]
  BY <1>1, <1>2 DEF Asked
<1>4. QED
  BY <1>1, <1>2, <1>3 DEF ByOther, Asked

(* A step of r does to another request q no more than a PATCH that q may   *)
(* meet.                                                                   *)
LEMMA OtherRequest ==
  ASSUME IInv, NEW r \in Request, NEW q \in Request, q # r,
         sent'[q] = sent[q], pc'[q] = pc[q], loaded'[q] = loaded[q], reply'[q] = reply[q],
         met[q] \subseteq met'[q],
         \A p \in Request : sent[p] # NULL => sent'[p] = sent[p],
         \A e \in EndpointId : endpoints[e] # NULL =>
           /\ endpoints'[e] # NULL
           /\ \A c \in Column :
                \/ endpoints'[e].settings[c] = endpoints[e].settings[c]
                \/ /\ loaded[q] # NULL => r \in met'[q]
                   /\ Asked(r, Update)
                   /\ sent[r].endpoint = e
                   /\ c \in DOMAIN sent[r].changes
                   /\ endpoints'[e].settings[c] = sent[r].changes[c]
  PROVE  RequestInv(q)'
<1> DEFINE e == sent[q].endpoint
<1>1. TypeOK /\ RequestInv(q)
  BY DEF IInv
<1>2. InOrder(q)'
  BY <1>1 DEF RequestInv, InOrder
<1>3. Asked(q, Update) \/ Asked(q, Delete) => e \in EndpointId
  BY <1>1, SentFields DEF Asked, Update, Delete
<1>4. Holds(q)'
  BY <1>1, <1>3 DEF RequestInv, Holds, Asked
<1>5. ASSUME NEW c \in Column, Asked(q, Update), loaded[q] # NULL, endpoints[e] # NULL
      PROVE  \/ endpoints'[e].settings[c] = endpoints[e].settings[c]
             \/ ByOther(q, c)'
  <2>1. CASE endpoints'[e].settings[c] # endpoints[e].settings[c]
    <3>1. /\ r \in met'[q]
          /\ Asked(r, Update)
          /\ sent[r].endpoint = e
          /\ c \in DOMAIN sent[r].changes
          /\ endpoints'[e].settings[c] = sent[r].changes[c]
      BY <1>3, <1>5, <2>1
    <3>2. sent'[r] = sent[r] /\ sent'[q] = sent[q]
      BY <3>1 DEF Asked
    <3>3. QED
      BY <3>1, <3>2 DEF ByOther, Asked
  <2>2. QED
    BY <2>1
<1>6. ASSUME NEW c \in Column, Asked(q, Update), loaded[q] # NULL, endpoints[e] # NULL,
             ByOther(q, c)
      PROVE  ByOther(q, c)'
  <2>1. CASE endpoints'[e].settings[c] = endpoints[e].settings[c]
    BY <1>1, <1>6, <2>1, ByOtherStays DEF Asked
  <2>2. QED
    BY <1>5, <1>6, <2>1
<1>7. Fresh(q)'
  <2>1. SUFFICES ASSUME Asked(q, Update), pc[q] = "write", NEW c \in Column
                 PROVE  \/ endpoints'[e].settings[c] = loaded[q].settings[c]
                        \/ ByOther(q, c)'
    BY DEF Fresh, Asked
  <2>2. loaded[q] # NULL /\ endpoints[e] # NULL
    BY <1>1, <2>1 DEF RequestInv, Holds
  <2>3. endpoints[e].settings[c] = loaded[q].settings[c] \/ ByOther(q, c)
    BY <1>1, <2>1 DEF RequestInv, Fresh
  <2>4. QED
    BY <1>5, <1>6, <2>1, <2>2, <2>3
<1>8. Applied(q)'
  <2>1. SUFFICES ASSUME Asked(q, Update), pc[q] = "refresh" \/ reply[q] = Ok,
                        NEW c \in DOMAIN sent[q].changes
                 PROVE  \/ endpoints'[e].settings[c] = sent[q].changes[c]
                        \/ ByOther(q, c)'
    BY DEF Applied, Asked
  <2>2. loaded[q] # NULL /\ endpoints[e] # NULL
    BY <1>1, <2>1 DEF RequestInv, Holds
  <2>3. endpoints[e].settings[c] = sent[q].changes[c] \/ ByOther(q, c)
    BY <1>1, <2>1 DEF RequestInv, Applied
  <2>4. c \in Column
    BY <1>1, <2>1, SentFields DEF Asked, Update
  <2>5. QED
    BY <1>5, <1>6, <2>1, <2>2, <2>3, <2>4
<1>9. QED
  BY <1>2, <1>4, <1>7, <1>8 DEF RequestInv

(* A step that writes no endpoint leaves all requests but its own alone. *)
LEMMA QuietStep ==
  ASSUME IInv, TypeOK', NEW r \in Request,
         UNCHANGED <<endpoints, met>>,
         \A q \in Request \ {r} :
           /\ sent'[q] = sent[q] /\ pc'[q] = pc[q]
           /\ loaded'[q] = loaded[q] /\ reply'[q] = reply[q],
         sent[r] # NULL => sent'[r] = sent[r],
         Asked(r, Delete)' => reply'[r] # NoContent,
         RequestInv(r)'
  PROVE  IInv'
<1>1. \A q \in Request : RequestInv(q)'
  <2>1. TAKE q \in Request
  <2>2. CASE q # r
    BY <2>2, OtherRequest
  <2>3. QED
    BY <2>2
<1>2. OneEndpointPerIdentity'
  BY DEF IInv, OneEndpointPerIdentity
<1>3. DeletionHolds'
  <2>1. SUFFICES ASSUME NEW q \in Request, Asked(q, Delete)', reply'[q] = NoContent
                 PROVE  endpoints'[sent'[q].endpoint].deleted_at # NULL
    BY DEF DeletionHolds, Delete
  <2>2. q # r
    BY <2>1
  <2>3. QED
    BY <2>1, <2>2 DEF IInv, DeletionHolds, Asked, Delete
<1>4. QED
  BY <1>1, <1>2, <1>3 DEF IInv

-----------------------------------------------------------------------------

LEMMA SubmitInv ==
  ASSUME IInv, NEW r \in Request, NEW payload \in Payload, Submit(r, payload)
  PROVE  IInv'
<1>1. TypeOK /\ RequestInv(r)
  BY DEF IInv
<1>2. sent[r] = NULL /\ reply[r] = NULL
  BY <1>1 DEF Submit, RequestInv, InOrder
<1>3. sent'[r] = payload /\ payload # NULL /\ reply'[r] = NULL
  BY <1>1, <1>2, NullAssumption DEF Submit, TypeOK
<1>4. pc'[r] = IF payload.op = "create_service" THEN "write" ELSE "find"
  BY <1>1 DEF Submit, Goto, TypeOK
<1>5. TypeOK'
  BY <1>1 DEF Submit, Goto, TypeOK
<1>6. RequestInv(r)'
  <2>1. InOrder(r)'
    BY <1>3, <1>4 DEF InOrder
  <2>2. Asked(r, Update)' \/ Asked(r, Delete)' => pc'[r] = "find"
    BY <1>3, <1>4 DEF Asked, Update, Delete
  <2>3. QED
    BY <1>3, <2>1, <2>2, NullAssumption
       DEF RequestInv, Holds, Fresh, Applied, Status, Ok, NoContent
<1>7. /\ UNCHANGED <<endpoints, met>>
      /\ \A q \in Request \ {r} :
           /\ sent'[q] = sent[q] /\ pc'[q] = pc[q]
           /\ loaded'[q] = loaded[q] /\ reply'[q] = reply[q]
  BY <1>1 DEF Submit, Goto, TypeOK
<1>8. reply'[r] # NoContent
  BY <1>3, NullAssumption DEF Status
<1>9. QED
  BY <1>2, <1>5, <1>6, <1>7, <1>8, QuietStep

(* A handler that ends with an error, or goes on to its next statement     *)
(* without having loaded or written an endpoint.                           *)
LEMMA AnswerInv ==
  ASSUME IInv, TypeOK', NEW r \in Request, NEW status \in Status \ {Ok, NoContent},
         pc[r] \in {"find", "write", "refresh"},
         Answer(r, status), UNCHANGED <<endpoints, sent, loaded, met>>
  PROVE  IInv'
<1>1. TypeOK /\ RequestInv(r)
  BY DEF IInv
<1>2. reply'[r] = status /\ pc'[r] = "done"
  BY <1>1 DEF Answer, Goto, TypeOK
<1>3. RequestInv(r)'
  BY <1>1, <1>2 DEF RequestInv, InOrder, Holds, Fresh, Applied, Asked
<1>4. QED
  BY <1>1, <1>2, <1>3, QuietStep DEF Answer, Goto, TypeOK

LEMMA ServiceInv ==
  ASSUME IInv, NEW r \in Request, create_service(r)
  PROVE  IInv'
<1>1. TypeOK /\ RequestInv(r)
  BY DEF IInv
<1>2. sent[r] # NULL /\ sent[r].op = "create_service" /\ pc[r] = "write"
  BY <1>1 DEF create_service, At, RequestInv, InOrder
<1>3. sent[r].service \in Service
  BY <1>1, <1>2, SentFields
<1>4. TypeOK'
  BY <1>1, <1>3 DEF create_service, Goto, Answer, TypeOK, Status
<1>5. CASE Answer(r, Conflict)
  BY <1>2, <1>4, <1>5, AnswerInv DEF create_service, Status, Conflict, Ok, NoContent
<1>6. CASE Goto(r, "refresh") /\ UNCHANGED reply
  <2>1. pc'[r] = "refresh" /\ reply'[r] = NULL /\ sent'[r] = sent[r]
    BY <1>1, <1>2, <1>6 DEF Goto, TypeOK, RequestInv, InOrder, create_service
  <2>2. ~ Asked(r, Update)' /\ ~ Asked(r, Delete)'
    BY <1>2, <2>1 DEF Asked, Update, Delete
  <2>3. RequestInv(r)'
    BY <1>2, <2>1, <2>2 DEF RequestInv, InOrder, Holds, Fresh, Applied
  <2>4. QED
    BY <1>1, <1>4, <1>6, <2>1, <2>2, <2>3, QuietStep
       DEF create_service, Goto, TypeOK
<1>7. QED
  BY <1>5, <1>6 DEF create_service

LEMMA FindInv ==
  ASSUME IInv, NEW r \in Request, FindService(r)
  PROVE  IInv'
<1>1. TypeOK /\ RequestInv(r)
  BY DEF IInv
<1>2. sent[r] # NULL /\ sent[r].op = "create_endpoint" /\ pc[r] = "find"
  BY <1>1 DEF FindService, At, RequestInv, InOrder
<1>3. TypeOK'
  BY <1>1 DEF FindService, Goto, Answer, TypeOK, Status
<1>4. CASE Answer(r, NotFound) \/ Answer(r, Rejected)
  BY <1>2, <1>3, <1>4, AnswerInv
     DEF FindService, Status, NotFound, Rejected, Ok, NoContent
<1>5. CASE Goto(r, "write") /\ UNCHANGED reply
  <2>1. pc'[r] = "write" /\ reply'[r] = NULL /\ sent'[r] = sent[r]
    BY <1>1, <1>2, <1>5 DEF Goto, TypeOK, RequestInv, InOrder, FindService
  <2>2. ~ Asked(r, Update)' /\ ~ Asked(r, Delete)'
    BY <1>2, <2>1 DEF Asked, Update, Delete
  <2>3. RequestInv(r)'
    BY <1>2, <2>1, <2>2 DEF RequestInv, InOrder, Holds, Fresh, Applied
  <2>4. QED
    BY <1>1, <1>3, <1>5, <2>1, <2>2, <2>3, QuietStep
       DEF FindService, Goto, TypeOK
<1>6. QED
  BY <1>4, <1>5 DEF FindService

LEMMA LoadInv ==
  ASSUME IInv, NEW r \in Request, Load(r)
  PROVE  IInv'
<1> DEFINE e == sent[r].endpoint
<1>1. TypeOK /\ RequestInv(r)
  BY DEF IInv
<1>2. sent[r] # NULL /\ pc[r] = "find" /\ reply[r] = NULL
  BY <1>1 DEF Load, RequestInv, InOrder
<1>3. e \in EndpointId
  BY <1>1, <1>2, SentFields DEF Load, Update, Delete
<1>4. TypeOK'
  BY <1>1, <1>3 DEF Load, Goto, Answer, TypeOK, Status
<1>5. CASE ~ IsLive(e)
  BY <1>2, <1>4, <1>5, AnswerInv DEF Load, Status, NotFound, Ok, NoContent
<1>6. CASE IsLive(e)
  <2>1. /\ loaded'[r] = endpoints[e] /\ endpoints[e] # NULL
        /\ pc'[r] = "write" /\ reply'[r] = NULL /\ sent' = sent
        /\ UNCHANGED <<endpoints, met>>
    BY <1>1, <1>2, <1>6 DEF Load, Goto, TypeOK, IsLive
  <2>2. reply'[r] \notin {Ok, NoContent}
    BY <2>1, NullAssumption DEF Status
  <2>3. InOrder(r)' /\ Holds(r)' /\ Fresh(r)'
    BY <1>2, <2>1 DEF InOrder, Holds, Fresh
  <2>4. Applied(r)'
    BY <2>1, <2>2 DEF Applied
  <2>5. \A q \in Request \ {r} :
          /\ sent'[q] = sent[q] /\ pc'[q] = pc[q]
          /\ loaded'[q] = loaded[q] /\ reply'[q] = reply[q]
    BY <1>1, <1>6 DEF Load, Goto, TypeOK
  <2>6. QED
    BY <1>4, <2>1, <2>2, <2>3, <2>4, <2>5, QuietStep DEF RequestInv
<1>7. QED
  BY <1>5, <1>6

LEMMA RefreshInv ==
  ASSUME IInv, NEW r \in Request, Refresh(r)
  PROVE  IInv'
<1>1. TypeOK /\ RequestInv(r)
  BY DEF IInv
<1>2. sent[r] # NULL /\ pc[r] = "refresh"
  BY <1>1 DEF Refresh, RequestInv, InOrder
<1>3. TypeOK'
  BY <1>1 DEF Refresh, Goto, Answer, TypeOK, Status
<1>4. CASE sent[r].op # Update
  BY <1>2, <1>3, <1>4, AnswerInv DEF Refresh, Update, Status, Created, Ok, NoContent
<1>5. CASE sent[r].op = Update
  <2>1. reply'[r] = Ok /\ pc'[r] = "done" /\ UNCHANGED <<endpoints, sent, loaded, met>>
    BY <1>1, <1>5 DEF Refresh, Update, Answer, Goto, TypeOK
  <2>2. RequestInv(r)'
    <3>1. Asked(r, Update) /\ ~ Asked(r, Delete)
      BY <1>2, <1>5 DEF Asked, Update, Delete
    <3>2. InOrder(r)' /\ Fresh(r)'
      BY <1>2, <2>1 DEF InOrder, Fresh
    <3>3. Holds(r)'
      BY <1>1, <1>2, <2>1, <3>1 DEF RequestInv, Holds, Asked
    <3>5. Applied(r)'
      BY <1>1, <1>2, <2>1, <3>1 DEF RequestInv, Applied, Asked, ByOther
    <3>6. QED
      BY <3>2, <3>3, <3>5 DEF RequestInv
  <2>3. QED
    BY <1>1, <1>3, <1>5, <2>1, <2>2, QuietStep
       DEF Refresh, Answer, Goto, TypeOK, Asked, Update, Delete
<1>6. QED
  BY <1>4, <1>5

LEMMA FailsInv ==
  ASSUME IInv, NEW r \in Request, Fails(r)
  PROVE  IInv'
<1>1. TypeOK'
  BY DEF IInv, Fails, Goto, Answer, TypeOK, Status
<1>2. QED
  BY <1>1, AnswerInv DEF Fails, Status, ServerError, Ok, NoContent

-----------------------------------------------------------------------------

LEMMA CreateInv ==
  ASSUME IInv, NEW r \in Request, create_endpoint(r)
  PROVE  IInv'
<1>1. TypeOK /\ RequestInv(r)
  BY DEF IInv
<1>2. sent[r] # NULL /\ sent[r].op = "create_endpoint" /\ pc[r] = "write"
  BY <1>1 DEF create_endpoint, At, RequestInv, InOrder
<1>3. sent[r].identity \in Identity /\ sent[r].settings \in Settings
  BY <1>1, <1>2, SentFields
<1>4. CASE Taken(sent[r].identity)
  <2>1. TypeOK'
    BY <1>1, <1>4 DEF create_endpoint, Goto, Answer, TypeOK, Status
  <2>2. QED
    BY <1>2, <1>4, <2>1, AnswerInv DEF create_endpoint, Status, Conflict, Ok, NoContent
<1>5. CASE ~ Taken(sent[r].identity)
  <2> DEFINE row == NewRow(sent[r].identity, sent[r].settings)
  <2>1. PICK e \in EndpointId :
          endpoints[e] = NULL /\ endpoints' = [endpoints EXCEPT ![e] = row]
    BY <1>5 DEF create_endpoint
  <2>2. row \in Row /\ row # NULL /\ row.identity = sent[r].identity
        /\ \A c \in Column \ Nullable : row.settings[c] # NULL
    BY <1>3, NewRowFields
  <2> HIDE DEF row
  <2>3. endpoints'[e] = row /\ \A f \in EndpointId \ {e} : endpoints'[f] = endpoints[f]
    BY <1>1, <2>1 DEF TypeOK
  <2>4. \A q \in Request : met[q] \subseteq met'[q] /\ met'[q] \subseteq Request
    BY <1>1, <1>5 DEF create_endpoint, Committed, TypeOK
  <2>5. /\ pc'[r] = "refresh" /\ reply' = reply /\ sent' = sent /\ loaded' = loaded
        /\ \A q \in Request \ {r} : pc'[q] = pc[q]
    BY <1>1, <1>5 DEF create_endpoint, Goto, TypeOK
  <2>6. TypeOK'
    <3>1. endpoints' \in [EndpointId -> Row \cup {NULL}]
      BY <1>1, <2>1, <2>2 DEF TypeOK
    <3>2. \A f \in EndpointId : endpoints'[f] # NULL =>
            \A c \in Column \ Nullable : endpoints'[f].settings[c] # NULL
      BY <1>1, <2>2, <2>3 DEF TypeOK
    <3>3. met' \in [Request -> SUBSET Request]
      BY <1>1, <1>5, <2>4 DEF create_endpoint, Committed
    <3>4. pc' \in [Request -> {"new", "find", "write", "refresh", "done"}]
      BY <1>1, <1>5 DEF create_endpoint, Goto, TypeOK
    <3>5. services' = services
      BY DEF create_endpoint
    <3>6. QED
      BY <1>1, <2>5, <3>1, <3>2, <3>3, <3>4, <3>5 DEF TypeOK
  <2>7. \A f \in EndpointId : endpoints[f] # NULL => endpoints'[f] = endpoints[f]
    BY <2>1, <2>3
  <2>8. \A q \in Request : RequestInv(q)'
    <3>1. TAKE q \in Request
    <3>2. CASE q = r
      <4>1. ~ Asked(r, Update)' /\ ~ Asked(r, Delete)'
        BY <1>2, <2>5 DEF Asked, Update, Delete
      <4>2. reply'[r] = NULL
        BY <1>1, <1>2, <2>5 DEF RequestInv, InOrder
      <4>3. QED
        BY <1>2, <2>5, <3>2, <4>1, <4>2 DEF RequestInv, InOrder, Holds, Fresh, Applied
    <3>3. CASE q # r
      BY <2>4, <2>5, <2>7, <3>3, OtherRequest
    <3>4. QED
      BY <3>2, <3>3
  <2>9. OneEndpointPerIdentity'
    <3>1. \A f \in EndpointId \ {e} :
            endpoints'[f] # NULL => endpoints'[f].identity # row.identity
      BY <1>5, <2>2, <2>3 DEF Taken
    <3>2. QED
      BY <2>3, <3>1 DEF IInv, OneEndpointPerIdentity
  <2>10. DeletionHolds'
    <3>1. SUFFICES ASSUME NEW q \in Request, Asked(q, Delete), reply[q] = NoContent
                   PROVE  endpoints'[sent[q].endpoint].deleted_at # NULL
      BY <2>5 DEF DeletionHolds, Asked, Delete
    <3>2. RequestInv(q) /\ DeletionHolds
      BY DEF IInv
    <3>3. endpoints[sent[q].endpoint] # NULL
      BY <3>1, <3>2 DEF RequestInv, Holds
    <3>4. sent[q].endpoint \in EndpointId
      BY <1>1, <3>1, SentFields DEF Asked, Delete
    <3>5. QED
      BY <2>7, <3>1, <3>2, <3>3, <3>4 DEF DeletionHolds, Delete
  <2>11. QED
    BY <2>6, <2>8, <2>9, <2>10 DEF IInv
<1>6. QED
  BY <1>4, <1>5

(* Types after a step that replaces one row by a row with its columns.     *)
LEMMA RowWrittenTypes ==
  ASSUME TypeOK, NEW r \in Request, NEW e \in EndpointId, NEW row \in Row,
         \A c \in Column \ Nullable : row.settings[c] # NULL,
         endpoints' = [endpoints EXCEPT ![e] = row],
         Committed(r),
         pc' \in [Request -> {"new", "find", "write", "refresh", "done"}],
         reply' \in [Request -> Status \cup {NULL}],
         UNCHANGED <<services, sent, loaded>>
  PROVE  TypeOK'
<1>1. endpoints' \in [EndpointId -> Row \cup {NULL}]
  BY DEF TypeOK
<1>2. \A f \in EndpointId : endpoints'[f] = IF f = e THEN row ELSE endpoints[f]
  BY DEF TypeOK
<1>3. \A f \in EndpointId : endpoints'[f] # NULL =>
        \A c \in Column \ Nullable : endpoints'[f].settings[c] # NULL
  BY <1>2 DEF TypeOK
<1>4. met' \in [Request -> SUBSET Request]
  BY DEF Committed, TypeOK
<1>5. QED
  BY <1>1, <1>3, <1>4 DEF TypeOK

LEMMA DeleteInv ==
  ASSUME IInv, NEW r \in Request, delete_endpoint(r)
  PROVE  IInv'
<1> DEFINE e == sent[r].endpoint
           row == [endpoints[e] EXCEPT !.deleted_at = r]
<1>1. TypeOK /\ RequestInv(r) /\ OneEndpointPerIdentity /\ DeletionHolds
  BY DEF IInv
<1>2. Asked(r, Delete) /\ pc[r] = "write"
  BY <1>1 DEF delete_endpoint, At, RequestInv, InOrder, Asked, Delete
<1>3. e \in EndpointId /\ endpoints[e] # NULL /\ endpoints[e] \in Row
  BY <1>1, <1>2, SentFields DEF RequestInv, Holds, Asked, Delete, TypeOK
<1>4. endpoints' = [endpoints EXCEPT ![e] = row]
  BY DEF delete_endpoint
<1>5. /\ row \in Row /\ row.deleted_at = r
      /\ row.identity = endpoints[e].identity
      /\ row.settings = endpoints[e].settings
  BY <1>3 DEF Row
<1> HIDE DEF row
<1>6. row # NULL /\ r # NULL
  BY <1>5, NullAssumption, RegistryAssumption
<1>7. \A f \in EndpointId : endpoints'[f] = IF f = e THEN row ELSE endpoints[f]
  BY <1>1, <1>4 DEF TypeOK
<1>8. /\ pc'[r] = "done" /\ sent' = sent /\ loaded' = loaded /\ Committed(r)
      /\ \A q \in Request \ {r} : pc'[q] = pc[q] /\ reply'[q] = reply[q]
  BY <1>1 DEF delete_endpoint, Answer, Goto, TypeOK
<1>9. TypeOK'
  <2>1. \A c \in Column \ Nullable : row.settings[c] # NULL
    BY <1>1, <1>3, <1>5 DEF TypeOK
  <2>2. /\ pc' \in [Request -> {"new", "find", "write", "refresh", "done"}]
        /\ reply' \in [Request -> Status \cup {NULL}]
    BY <1>1 DEF delete_endpoint, Answer, Goto, TypeOK, Status
  <2>3. services' = services
    BY DEF delete_endpoint
  <2>4. QED
    BY <1>1, <1>3, <1>4, <1>5, <1>8, <2>1, <2>2, <2>3, RowWrittenTypes
<1>10. \A q \in Request : RequestInv(q)'
  <2>1. TAKE q \in Request
  <2>2. CASE q = r
    <3>1. ~ Asked(r, Update) /\ loaded[r] # NULL
      BY <1>1, <1>2 DEF Asked, Update, Delete, RequestInv, Holds
    <3>2. InOrder(r)'
      BY <1>2, <1>8 DEF InOrder, Asked
    <3>3. Holds(r)'
      BY <1>3, <1>6, <1>7, <1>8, <3>1 DEF Holds
    <3>4. Fresh(r)' /\ Applied(r)'
      BY <1>8, <3>1 DEF Fresh, Applied, Asked
    <3>5. QED
      BY <2>2, <3>2, <3>3, <3>4 DEF RequestInv
  <2>3. CASE q # r
    <3>1. met[q] \subseteq met'[q]
      BY <1>8 DEF Committed
    <3>2. \A f \in EndpointId : endpoints[f] # NULL =>
            endpoints'[f] # NULL /\ endpoints'[f].settings = endpoints[f].settings
      BY <1>5, <1>6, <1>7
    <3>3. QED
      BY <1>8, <2>3, <3>1, <3>2, OtherRequest
  <2>4. QED
    BY <2>2, <2>3
<1>11. OneEndpointPerIdentity'
  BY <1>1, <1>3, <1>5, <1>7 DEF OneEndpointPerIdentity
<1>12. DeletionHolds'
  <2>1. SUFFICES ASSUME NEW q \in Request, Asked(q, Delete), reply'[q] = NoContent
                 PROVE  endpoints'[sent[q].endpoint].deleted_at # NULL
    BY <1>8 DEF DeletionHolds, Asked, Delete
  <2>2. sent[q].endpoint \in EndpointId
    BY <1>1, <2>1, SentFields DEF Asked, Delete
  <2>3. CASE sent[q].endpoint = e
    BY <1>5, <1>6, <1>7, <2>2, <2>3
  <2>4. CASE sent[q].endpoint # e
    BY <1>1, <1>7, <1>8, <2>1, <2>2, <2>4 DEF DeletionHolds, Delete
  <2>5. QED
    BY <2>3, <2>4
<1>13. QED
  BY <1>9, <1>10, <1>11, <1>12 DEF IInv

LEMMA UpdateInv ==
  ASSUME IInv, NEW r \in Request, update_endpoint(r)
  PROVE  IInv'
<1> DEFINE e == sent[r].endpoint
           row == WriteColumns(r, endpoints[e])
<1>1. TypeOK /\ RequestInv(r) /\ OneEndpointPerIdentity /\ DeletionHolds
  BY DEF IInv
<1>2. Asked(r, Update) /\ pc[r] = "write" /\ reply[r] = NULL
  BY <1>1 DEF update_endpoint, At, RequestInv, InOrder, Asked, Update
<1>3. e \in EndpointId /\ endpoints[e] # NULL /\ endpoints[e] \in Row /\ loaded[r] # NULL
  BY <1>1, <1>2, SentFields DEF RequestInv, Holds, Asked, Update, TypeOK
<1>4. CASE Forbidden(r)
  <2>1. TypeOK'
    BY <1>1, <1>4 DEF update_endpoint, Goto, Answer, TypeOK, Status
  <2>2. QED
    BY <1>2, <1>4, <2>1, AnswerInv DEF update_endpoint, Status, ServerError, Ok, NoContent
<1>5. CASE ~ Forbidden(r)
  <2>1. endpoints' = [endpoints EXCEPT ![e] = row]
    BY <1>5 DEF update_endpoint
  <2>2. /\ row \in Row
        /\ row.identity = endpoints[e].identity
        /\ row.deleted_at = endpoints[e].deleted_at
        /\ \A c \in Column : row.settings[c] =
             IF c \in Dirty(r) THEN sent[r].changes[c] ELSE endpoints[e].settings[c]
    BY <1>1, <1>2, <1>3, WriteColumnsFields
  <2> HIDE DEF row
  <2>3. row # NULL
    BY <2>2, NullAssumption
  <2>4. \A f \in EndpointId : endpoints'[f] = IF f = e THEN row ELSE endpoints[f]
    BY <1>1, <2>1 DEF TypeOK
  <2>5. /\ pc'[r] = "refresh" /\ reply' = reply /\ sent' = sent /\ loaded' = loaded
        /\ Committed(r)
        /\ \A q \in Request \ {r} : pc'[q] = pc[q]
    BY <1>1, <1>5 DEF update_endpoint, Goto, TypeOK
  <2>6. DOMAIN sent[r].changes \subseteq Column
    BY <1>1, <1>2, SentFields DEF Asked, Update
  <2>7. TypeOK'
    <3>1. \A c \in Column \ Nullable : row.settings[c] # NULL
      BY <1>1, <1>3, <1>5, <2>2 DEF TypeOK, Forbidden
    <3>2. /\ pc' \in [Request -> {"new", "find", "write", "refresh", "done"}]
          /\ reply' \in [Request -> Status \cup {NULL}]
      BY <1>1, <1>5 DEF update_endpoint, Goto, TypeOK
    <3>3. QED
      BY <1>1, <1>3, <2>1, <2>2, <2>5, <3>1, <3>2, RowWrittenTypes DEF update_endpoint
  <2>8. \A q \in Request : met[q] \subseteq met'[q]
    BY <2>5 DEF Committed
  <2>9. \A q \in Request : RequestInv(q)'
    <3>1. TAKE q \in Request
    <3>2. CASE q = r
      <4>1. reply'[r] # Ok /\ reply'[r] # NoContent
        BY <1>2, <2>5, NullAssumption DEF Status
      <4>2. InOrder(r)' /\ Fresh(r)'
        BY <1>2, <2>5 DEF InOrder, Fresh, Asked
      <4>3. Holds(r)'
        BY <1>3, <2>3, <2>4, <2>5 DEF Holds
      <4>4. Applied(r)'
        <5>1. SUFFICES ASSUME NEW c \in DOMAIN sent[r].changes
                       PROVE  \/ endpoints'[e].settings[c] = sent[r].changes[c]
                              \/ ByOther(r, c)'
          BY <2>5 DEF Applied
        <5>2. c \in Column
          BY <2>6
        <5>3. CASE c \in Dirty(r)
          BY <1>3, <2>2, <2>4, <5>2, <5>3
        <5>4. CASE c \notin Dirty(r)
          <6>1. sent[r].changes[c] = loaded[r].settings[c]
            BY <5>4 DEF Dirty
          <6>2. endpoints'[e].settings[c] = endpoints[e].settings[c]
            BY <1>3, <2>2, <2>4, <5>2, <5>4
          <6>3. endpoints[e].settings[c] = loaded[r].settings[c] \/ ByOther(r, c)
            BY <1>1, <1>2, <5>2 DEF RequestInv, Fresh
          <6>4. ByOther(r, c) => ByOther(r, c)'
            BY <1>1, <1>2, <2>5, <2>8, <6>2, ByOtherStays DEF Asked
          <6>5. QED
            BY <6>1, <6>2, <6>3, <6>4
        <5>5. QED
          BY <5>3, <5>4
      <4>5. QED
        BY <3>2, <4>2, <4>3, <4>4 DEF RequestInv
    <3>3. CASE q # r
      <4>1. loaded[q] # NULL => r \in met'[q]
        BY <2>5, <3>3 DEF Committed
      <4>2. ASSUME NEW f \in EndpointId, endpoints[f] # NULL, NEW c \in Column,
                   endpoints'[f].settings[c] # endpoints[f].settings[c]
            PROVE  /\ f = e
                   /\ c \in DOMAIN sent[r].changes
                   /\ endpoints'[f].settings[c] = sent[r].changes[c]
        BY <2>2, <2>4, <4>2 DEF Dirty
      <4>3. \A f \in EndpointId : endpoints[f] # NULL => endpoints'[f] # NULL
        BY <2>3, <2>4
      <4>4. QED
        BY <1>2, <2>5, <2>8, <3>3, <4>1, <4>2, <4>3, OtherRequest
    <3>4. QED
      BY <3>2, <3>3
  <2>10. OneEndpointPerIdentity'
    BY <1>1, <1>3, <2>2, <2>4 DEF OneEndpointPerIdentity
  <2>11. DeletionHolds'
    <3>1. SUFFICES ASSUME NEW q \in Request, Asked(q, Delete), reply[q] = NoContent
                   PROVE  endpoints'[sent[q].endpoint].deleted_at # NULL
      BY <2>5 DEF DeletionHolds, Asked, Delete
    <3>2. sent[q].endpoint \in EndpointId
      BY <1>1, <3>1, SentFields DEF Asked, Delete
    <3>3. endpoints[sent[q].endpoint].deleted_at # NULL
      BY <1>1, <3>1 DEF DeletionHolds, Delete
    <3>4. QED
      BY <2>2, <2>4, <3>2, <3>3
  <2>12. QED
    BY <2>7, <2>9, <2>10, <2>11 DEF IInv
<1>6. QED
  BY <1>4, <1>5

-----------------------------------------------------------------------------

LEMMA StepInv == IInv /\ [Next]_vars => IInv'
<1>1. SUFFICES ASSUME IInv, [Next]_vars PROVE IInv'
  OBVIOUS
<1>2. CASE UNCHANGED vars
  BY <1>1, <1>2 DEF vars, IInv, TypeOK, RequestInv, InOrder, Holds, Fresh, Applied,
     ByOther, Asked, OneEndpointPerIdentity, DeletionHolds
<1>3. CASE Next
  <2>1. PICK r \in Request : (\E payload \in Payload : Submit(r, payload)) \/ Handle(r)
    BY <1>3 DEF Next
  <2>2. CASE \E payload \in Payload : Submit(r, payload)
    BY <1>1, <2>2, SubmitInv
  <2>3. CASE Handle(r)
    BY <1>1, <2>3, ServiceInv, FindInv, CreateInv, LoadInv, UpdateInv, DeleteInv,
       RefreshInv, FailsInv DEF Handle
  <2>4. QED
    BY <2>1, <2>2, <2>3
<1>4. QED
  BY <1>1, <1>2, <1>3

(* The invariant the theorems below are read off. *)
LEMMA Invariant == Spec => []IInv
<1>1. QED
  BY InitInv, StepInv, PTL DEF Spec

(***************************************************************************)
(* The registry is well typed, and no NOT NULL column ever holds NULL,     *)
(* whatever explicit nulls a PATCH carries (schemas.py:73).                *)
(***************************************************************************)
THEOREM RegistryTypeCorrect == Spec => []TypeOK
<1>1. IInv => TypeOK
  BY DEF IInv
<1>2. QED
  BY <1>1, Invariant, PTL

(***************************************************************************)
(* However many admins register one URL, and however often it is deleted,  *)
(* it has one endpoint for ever (models.py:86).                            *)
(***************************************************************************)
THEOREM IdentityKeepsEndpoint == Spec => []OneEndpointPerIdentity
<1>1. IInv => OneEndpointPerIdentity
  BY DEF IInv
<1>2. QED
  BY <1>1, Invariant, PTL

(***************************************************************************)
(* A PATCH that was answered 200 holds until another PATCH of that column  *)
(* which committed after it had loaded the row (endpoints.py:91).          *)
(***************************************************************************)
THEOREM NoUpdateLost == Spec => []AppliedChangesHold
<1>1. IInv => AppliedChangesHold
  BY DEF IInv, RequestInv, Applied, ByOther, AppliedChangesHold, Update
<1>2. QED
  BY <1>1, Invariant, PTL

(***************************************************************************)
(* What a DELETE answered 204 for stays deleted (endpoints.py:102).        *)
(***************************************************************************)
THEOREM DeletedStaysDeleted == Spec => []DeletionHolds
<1>1. IInv => DeletionHolds
  BY DEF IInv
<1>2. QED
  BY <1>1, Invariant, PTL
=============================================================================
