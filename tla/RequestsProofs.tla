--------------------------- MODULE RequestsProofs ---------------------------
(***************************************************************************)
(* Proofs about Requests.  Invariant is inductive: every action either     *)
(* answers a call, and then the answer has to be a good one, or moves a    *)
(* call or a row on without answering.                                     *)
(***************************************************************************)
EXTENDS Requests, TLAPS

\* What holds of an answer a to request r by a call that has generated g.
GoodAnswer(r, a, g) ==
  /\ a \in AllAnswers
  /\ a.code = "ok" => a.response.to = r.procedure
  /\ a.code \in Refusals => g = MalformedID
  /\ a.code = "permission_denied" => MethodDenied(r.procedure, authCtx)
  /\ a.code = "ok" => Verdict(r, authCtx) = "pass"
  /\ a.code = "ok" /\ a.response.to = "WhoAmI" =>
       a.response.activePermissions = authCtx.permissions
  /\ a.code = "ok" =>
       \A shown \in DocumentsIn(a.response) : \E row \in committed : shown = mapToApiDocument(row)
  /\ g # MalformedID => r.procedure = "CreateDocument" /\ Verdict(r, authCtx) = "pass"

-----------------------------------------------------------------------------
(* What lies behind a verdict.                                             *)

LEMMA Passing ==
  ASSUME NEW r, NEW ctx, Verdict(r, ctx) = "pass"
  PROVE  /\ r.procedure \in Procedures
         /\ r.body # Undecodable
         /\ r.verb = "GET" => r.procedure \in NoSideEffects
         /\ ~ MethodDenied(r.procedure, ctx)
  BY DEF Verdict

LEMMA Refusing ==
  ASSUME NEW r, NEW ctx, Verdict(r, ctx) # "pass"
  PROVE  /\ Verdict(r, ctx) \in Refusals
         /\ Verdict(r, ctx) = "permission_denied" => MethodDenied(r.procedure, ctx)
  BY DEF Verdict, Refusals

LEMMA BodyType ==
  ASSUME NEW r \in Request, r.procedure \in Procedures, r.body # Undecodable
  PROVE  r.body \in Input[r.procedure]
  BY DEF Request, Procedures, AuthServiceMethods, DocumentServiceMethods

LEMMA CreateBodyType ==
  ASSUME NEW r \in Request, r.procedure = "CreateDocument", r.body # Undecodable
  PROVE  r.body \in CreateDocumentRequest
  BY BodyType DEF Input, Procedures, DocumentServiceMethods

LEMMA NewDocumentType ==
  ASSUME NEW d \in DocumentIDs, NEW body \in CreateDocumentRequest,
         body.publisher # MalformedID
  PROVE  NewDocument(d, body) \in Document /\ NewDocument(d, body).id = d
<1>1. AsMap(body.annotations) \in Annotations
  BY ApiAssumption DEF AsMap, CreateDocumentRequest
<1>2. body.publisher \in PublisherIDs
  BY DEF CreateDocumentRequest
<1>3. [publisher |-> body.publisher, year |-> 0, id |-> d,
       extension |-> body.fileExtension] \in StorageKey
  BY <1>2 DEF StorageKey, CreateDocumentRequest
<1>4. body.fileMimeType \in MimeTypes /\ body.fileSizeBytes \in Sizes
  BY DEF CreateDocumentRequest
<1> QED
  BY <1>1, <1>2, <1>3, <1>4, RequestsAssumption DEF NewDocument, Document

LEMMA ApiDocumentType ==
  ASSUME NEW d \in Document
  PROVE  mapToApiDocument(d) \in ApiDocument
  BY DEF mapToApiDocument, ApiDocument, ResourceMeta, Document

LEMMA InsertedRowType ==
  ASSUME NEW d \in Document
  PROVE  /\ InsertedRow(d) \in Document /\ InsertedRow(d).id = d.id
  BY DEF InsertedRow, Document

LEMMA UpdatedRowType ==
  ASSUME NEW d \in Document, NEW e, e.completed \in BOOLEAN, e.size \in Sizes
  PROVE  UpdatedRow(d, e) \in Document /\ UpdatedRow(d, e).id = d.id
<1>1. d.version + 1 \in Nat
  BY DEF Document
<1>2. UpdatedRow(d, e) = [d EXCEPT !.completed = e.completed, !.size = e.size,
                                   !.version = d.version + 1]
  BY DEF UpdatedRow
<1>3. UpdatedRow(d, e) \in Document
  BY <1>1, <1>2 DEF Document
<1>4. UpdatedRow(d, e).id = d.id
  BY <1>2 DEF Document
<1> QED
  BY <1>3, <1>4

-----------------------------------------------------------------------------
(* A call that answers.                                                    *)

LEMMA AnsweringKeepsInvariant ==
  ASSUME Invariant, NEW c \in Calls, NEW r \in Request, NEW a,
         GoodAnswer(r, a, generated[c]),
         Answers(c, a),
         request' = [request EXCEPT ![c] = r],
         strays' \subseteq Document,
         UNCHANGED <<tableVars, rolePermissions, usedIDs, generated, committed>>
  PROVE  Invariant'
<1> USE DEF Invariant
<1>0. authCtx' = authCtx
  BY DEF authCtx
<1>1. \A b \in Calls : answer'[b] = IF b = c THEN a ELSE answer[b]
  BY DEF Answers, TypeOK
<1>1a. \A b \in Calls : request'[b] = IF b = c THEN r ELSE request[b]
  BY DEF TypeOK
<1>1b. \A b \in Calls : stage'[b] = IF b = c THEN "answering" ELSE stage[b]
  BY DEF Answers, Becomes, TypeOK
<1>2. TypeOK'
  <2>1. doc' \in [Calls -> Document \cup {NoDocument}]
    BY DEF Answers, Holds, TypeOK
  <2>2. stage' \in [Calls -> {"idle", "insert", "collect", "select", "answering"}]
    BY DEF Answers, Becomes, TypeOK
  <2>3. request' \in [Calls -> Request \cup {NoRequest}]
    BY DEF TypeOK
  <2>4. answer' \in [Calls -> AllAnswers]
    BY DEF TypeOK, GoodAnswer, Answers
  <2>5. \A b \in Calls : answer'[b].code = "ok" => answer'[b].response.to = request'[b].procedure
    BY <1>1, <1>1a DEF TypeOK, GoodAnswer
  <2> QED
    BY <2>1, <2>2, <2>3, <2>4, <2>5 DEF TypeOK, tableVars
<1>3. CallsHold'
  BY <1>0, <1>1, <1>1a, <1>1b DEF CallsHold, GoodAnswer, Answers, Holds, TypeOK
<1>4. AnswersFollowVerdicts'
  BY <1>0, <1>1, <1>1a DEF AnswersFollowVerdicts, GoodAnswer, Reported
<1>5. RowsAreCommitted'
  BY DEF RowsAreCommitted, tableVars
<1>6. AnswersWereCommitted'
  BY <1>1 DEF AnswersWereCommitted, GoodAnswer
<1> QED
  BY <1>2, <1>3, <1>4, <1>5, <1>6

-----------------------------------------------------------------------------
(* Arrivals.                                                               *)

LEMMA IdleGeneratesNothing ==
  ASSUME Invariant, NEW c \in Calls, stage[c] = "idle"
  PROVE  generated[c] = MalformedID
  BY DEF Invariant, CallsHold

LEMMA RefusalsKeepInvariant ==
  ASSUME Invariant, NEW c \in Calls, Refuse(c)
  PROVE  Invariant'
<1>1. PICK r \in Request :
        /\ Verdict(r, authCtx) # "pass"
        /\ request' = [request EXCEPT ![c] = r]
        /\ Answers(c, Error(Verdict(r, authCtx)))
  BY DEF Refuse, Asked
<1>2. generated[c] = MalformedID
  BY IdleGeneratesNothing DEF Refuse
<1>3. GoodAnswer(r, Error(Verdict(r, authCtx)), generated[c])
  BY <1>1, <1>2, Refusing DEF GoodAnswer, Error, Refusals, AllAnswers
<1> QED
  BY <1>1, <1>3, AnsweringKeepsInvariant
     DEF Refuse, unchangedByArrival, tableVars, Invariant, TypeOK

\* An error of the handler to a request that arrived.
LEMMA EarlyErrorsKeepInvariant ==
  ASSUME Invariant, NEW c \in Calls, NEW r \in Request, NEW procedure,
         Arrives(c, r, procedure),
         NEW code \in (Refusals \cup Failures) \ {"permission_denied"},
         Answers(c, Error(code)),
         UNCHANGED <<usedIDs, generated, unchangedByArrival>>
  PROVE  Invariant'
<1>1. generated[c] = MalformedID
  BY IdleGeneratesNothing DEF Arrives
<1>2. GoodAnswer(r, Error(code), generated[c])
  BY <1>1 DEF GoodAnswer, Error, Refusals, Failures, AllAnswers
<1> QED
  BY <1>2, AnsweringKeepsInvariant
     DEF Arrives, Asked, unchangedByArrival, tableVars, Invariant, TypeOK

LEMMA WhoAmIKeepsInvariant ==
  ASSUME Invariant, NEW c \in Calls, WhoAmI(c)
  PROVE  Invariant'
<1> DEFINE a == Ok([to |-> "WhoAmI", activeRoles |-> authCtx.roles,
                    activePermissions |-> authCtx.permissions])
<1>1. PICK r \in Request : Arrives(c, r, "WhoAmI")
  BY DEF WhoAmI
<1>2. Answers(c, a)
  BY DEF WhoAmI
<1>3. generated[c] = MalformedID
  BY <1>1, IdleGeneratesNothing DEF Arrives
<1>4. a.response \in WhoAmIResponse
  <2>1. authCtx.roles = ActiveRoles
    BY DEF authCtx, AuthContext
  <2>2. authCtx.permissions \in SUBSET Permissions
    <3>1. rolePermissions \in RolePermissionTables
      BY DEF Invariant, TypeOK
    <3>2. \A role \in ActiveRoles : GetRolePermissions(role, rolePermissions) \subseteq Permissions
      BY <3>1, RequestsAssumption DEF GetRolePermissions
    <3> QED
      BY <3>2 DEF authCtx, AuthContext
  <2> QED
    BY <2>1, <2>2 DEF Ok, WhoAmIResponse
<1>5. GoodAnswer(r, a, generated[c])
  BY <1>1, <1>3, <1>4 DEF GoodAnswer, Arrives, Ok, Responses, DocumentsIn, Refusals, AllAnswers
<1> QED
  BY <1>1, <1>2, <1>5, AnsweringKeepsInvariant
     DEF Arrives, Asked, WhoAmI, unchangedByArrival, tableVars, Invariant, TypeOK

LEMMA BeginReadKeepsInvariant ==
  ASSUME Invariant, NEW c \in Calls, BeginRead(c)
  PROVE  Invariant'
<1> USE DEF Invariant
<1>1. PICK r \in Request :
        /\ Verdict(r, authCtx) = "pass"
        /\ request' = [request EXCEPT ![c] = r]
        /\ stage[c] = "idle"
  BY DEF BeginRead, Arrives, Asked
<1>2. generated[c] = MalformedID
  BY <1>1, IdleGeneratesNothing
<1>3. answer[c] = NoAnswer
  BY <1>1 DEF CallsHold
<1>4. authCtx' = authCtx
  BY DEF authCtx, BeginRead, unchangedByArrival
<1>5. \A b \in Calls : request'[b] = IF b = c THEN r ELSE request[b]
  BY <1>1 DEF TypeOK
<1>6. \A b \in Calls : stage'[b] = IF b = c THEN "select" ELSE stage[b]
  BY DEF BeginRead, Becomes, TypeOK
<1>7. TypeOK'
  BY <1>1, <1>3, <1>5 DEF TypeOK, BeginRead, Becomes, unchangedByArrival, tableVars, NoAnswer
<1>8. CallsHold'
  BY <1>1, <1>2, <1>3, <1>4, <1>5, <1>6 DEF CallsHold, BeginRead, unchangedByArrival
<1>9. AnswersFollowVerdicts'
  BY <1>3, <1>4, <1>5
     DEF AnswersFollowVerdicts, BeginRead, unchangedByArrival, NoAnswer, Refusals, Reported
<1>10. RowsAreCommitted' /\ AnswersWereCommitted'
  BY DEF RowsAreCommitted, AnswersWereCommitted, BeginRead,
         unchangedByArrival, tableVars
<1> QED
  BY <1>7, <1>8, <1>9, <1>10

LEMMA BeginCreateKeepsInvariant ==
  ASSUME Invariant, NEW c \in Calls, BeginCreate(c)
  PROVE  Invariant'
<1> USE DEF Invariant
<1>1. PICK r \in Request, d \in DocumentIDs \ usedIDs :
        /\ Arrives(c, r, "CreateDocument")
        /\ r.body.publisher # MalformedID
        /\ usedIDs' = usedIDs \cup {d}
        /\ generated' = [generated EXCEPT ![c] = d]
        /\ doc' = [doc EXCEPT ![c] = NewDocument(d, r.body)]
  BY DEF BeginCreate, Holds
<1>2. r.procedure = "CreateDocument" /\ Verdict(r, authCtx) = "pass"
  BY <1>1 DEF Arrives
<1>3. NewDocument(d, r.body) \in Document
  BY <1>1, <1>2, Passing, CreateBodyType, NewDocumentType
<1>4. answer[c] = NoAnswer
  BY <1>1 DEF CallsHold, Arrives
<1>5. authCtx' = authCtx
  BY DEF authCtx, BeginCreate, unchangedByArrival
<1>6. \A b \in Calls :
        /\ request'[b] = IF b = c THEN r ELSE request[b]
        /\ stage'[b] = IF b = c THEN "insert" ELSE stage[b]
        /\ generated'[b] = IF b = c THEN d ELSE generated[b]
        /\ doc'[b] = IF b = c THEN NewDocument(d, r.body) ELSE doc[b]
  BY <1>1 DEF TypeOK, BeginCreate, Arrives, Asked, Becomes
<1>7. request' \in [Calls -> Request \cup {NoRequest}]
  BY <1>1 DEF TypeOK, Arrives, Asked
<1>8. TypeOK'
  <2>1. stage' \in [Calls -> {"idle", "insert", "collect", "select", "answering"}]
    BY DEF TypeOK, BeginCreate, Becomes
  <2>2. doc' \in [Calls -> Document \cup {NoDocument}]
    BY <1>1, <1>3 DEF TypeOK
  <2>3. generated' \in [Calls -> DocumentIDs \cup {MalformedID}]
    BY <1>1 DEF TypeOK
  <2>4. \A b \in Calls : answer[b].code = "ok" => answer[b].response.to = request'[b].procedure
    BY <1>4, <1>6 DEF TypeOK, NoAnswer
  <2> QED
    BY <1>1, <1>7, <2>1, <2>2, <2>3, <2>4 DEF TypeOK, BeginCreate, unchangedByArrival, tableVars
<1>9. CallsHold'
  BY <1>2, <1>3, <1>4, <1>5, <1>6 DEF CallsHold, BeginCreate, unchangedByArrival
<1>10. AnswersFollowVerdicts'
  BY <1>4, <1>5, <1>6
     DEF AnswersFollowVerdicts, BeginCreate, unchangedByArrival, NoAnswer, Refusals, Reported
<1>11. RowsAreCommitted' /\ AnswersWereCommitted'
  BY DEF RowsAreCommitted, AnswersWereCommitted, BeginCreate,
         unchangedByArrival, tableVars
<1> QED
  BY <1>8, <1>9, <1>10, <1>11

LEMMA ArrivalsKeepInvariant ==
  ASSUME Invariant, NEW c \in Calls, Arrival(c)
  PROVE  Invariant'
<1>1. CASE UpdateDocumentRPC(c)
  <2>1. PICK r \in Request : Arrives(c, r, "UpdateDocument")
    BY <1>1 DEF UpdateDocumentRPC
  <2> QED
    BY <1>1, <2>1, EarlyErrorsKeepInvariant DEF UpdateDocumentRPC, Refusals
<1>2. CASE RefuseID(c)
  <2>1. PICK r \in Request, procedure \in Procedures : Arrives(c, r, procedure)
    BY <1>2 DEF RefuseID, Procedures, DocumentServiceMethods
  <2> QED
    BY <1>2, <2>1, EarlyErrorsKeepInvariant DEF RefuseID, Refusals
<1>3. CASE RefuseCreate(c)
  <2>1. PICK r \in Request : Arrives(c, r, "CreateDocument")
    BY <1>3 DEF RefuseCreate
  <2> QED
    BY <1>3, <2>1, EarlyErrorsKeepInvariant DEF RefuseCreate, Failures
<1> QED
  BY <1>1, <1>2, <1>3, RefusalsKeepInvariant, WhoAmIKeepsInvariant, BeginReadKeepsInvariant,
     BeginCreateKeepsInvariant DEF Arrival

-----------------------------------------------------------------------------
(* Handlers that answer.                                                   *)

LEMMA HandlersAnswer ==
  ASSUME Invariant, NEW c \in Calls, stage[c] \in {"insert", "collect", "select"},
         NEW a, GoodAnswer(request[c], a, generated[c]), Answers(c, a),
         strays' \subseteq Document,
         UNCHANGED <<tableVars, rolePermissions, usedIDs, request, generated, committed>>
  PROVE  Invariant'
<1>1. request[c] \in Request
  BY DEF Invariant, CallsHold
<1>2. request' = [request EXCEPT ![c] = request[c]]
  BY DEF Invariant, TypeOK
<1> QED
  BY <1>1, <1>2, AnsweringKeepsInvariant

\* What is left behind is a Document.
LEMMA LeavingKeepsType ==
  ASSUME Invariant, NEW c \in Calls, Leaves(c)
  PROVE  strays' \subseteq Document
  BY DEF Invariant, TypeOK, CallsHold, Leaves

LEMMA FailuresKeepInvariant ==
  ASSUME Invariant, NEW c \in Calls, stage[c] \in {"insert", "collect", "select"},
         NEW code \in Failures, Answers(c, Error(code)),
         strays' \subseteq Document,
         UNCHANGED <<tableVars, rolePermissions, usedIDs, request, generated, committed>>
  PROVE  Invariant'
<1>1. GoodAnswer(request[c], Error(code), generated[c])
  BY DEF GoodAnswer, Error, Refusals, Failures, AllAnswers, Invariant, CallsHold
<1> QED
  BY <1>1, HandlersAnswer

\* A response whose documents have been in the table.
LEMMA ResponsesKeepInvariant ==
  ASSUME Invariant, NEW c \in Calls, stage[c] \in {"insert", "collect", "select"},
         NEW response \in Responses, response.to = request[c].procedure,
         response.to # "WhoAmI",
         \A shown \in DocumentsIn(response) :
           \E row \in committed : shown = mapToApiDocument(row),
         Answers(c, Ok(response)),
         UNCHANGED <<request, generated, unchangedByRead>>
  PROVE  Invariant'
<1>1. Verdict(request[c], authCtx) = "pass"
  BY DEF Invariant, CallsHold
<1>2. Ok(response) \in AllAnswers
  BY DEF Ok, AllAnswers
<1>3. Ok(response).code = "ok" /\ Ok(response).response = response
  BY DEF Ok
<1>4. generated[c] # MalformedID => request[c].procedure = "CreateDocument"
  BY DEF Invariant, CallsHold
<1>5. GoodAnswer(request[c], Ok(response), generated[c])
  BY <1>1, <1>2, <1>3, <1>4 DEF GoodAnswer, Refusals
<1>6. strays' \subseteq Document
  BY DEF Invariant, TypeOK, unchangedByRead
<1> QED
  BY <1>5, <1>6, HandlersAnswer DEF unchangedByRead

LEMMA CreateReturnsKeepsInvariant ==
  ASSUME Invariant, NEW c \in Calls, CreateReturns(c)
  PROVE  Invariant'
<1> DEFINE response == [to |-> "CreateDocument", document |-> mapToApiDocument(doc[c])]
<1>1. stage[c] = "collect" /\ Answers(c, Ok(response))
  BY DEF CreateReturns
<1>2. doc[c] \in committed /\ doc[c] \in Document /\ request[c].procedure = "CreateDocument"
  BY <1>1 DEF Invariant, CallsHold, TypeOK
<1>3. response \in Responses
  BY <1>2, ApiDocumentType DEF Responses, CreateDocumentResponse
<1>4. DocumentsIn(response) = {mapToApiDocument(doc[c])}
  BY DEF DocumentsIn
<1> HIDE DEF response
<1>5. response.to = "CreateDocument"
  BY DEF response
<1> QED
  BY <1>1, <1>2, <1>3, <1>4, <1>5, ResponsesKeepInvariant DEF CreateReturns

LEMMA ListReturnsKeepsInvariant ==
  ASSUME Invariant, NEW c \in Calls, ListReturns(c)
  PROVE  Invariant'
<1>1. PICK found \in SUBSET DOMAIN documents :
        Answers(c, Ok([to |-> "ListDocuments",
                       documents |-> {mapToApiDocument(documents[d]) : d \in found}]))
  BY DEF ListReturns
<1> DEFINE shown == {mapToApiDocument(documents[d]) : d \in found}
           response == [to |-> "ListDocuments", documents |-> shown]
<1>2. \A d \in found : documents[d] \in Document /\ documents[d] \in committed
  BY DEF Invariant, TypeOK, RowsAreCommitted
<1>3. shown \subseteq ApiDocument
  BY <1>2, ApiDocumentType
<1>4. response \in Responses
  BY <1>3 DEF Responses, ListDocumentsResponse
<1>5. DocumentsIn(response) = shown
  BY DEF DocumentsIn
<1>6. \A s \in shown : \E row \in committed : s = mapToApiDocument(row)
  BY <1>2
<1>7. response.to = "ListDocuments"
  OBVIOUS
<1>8. Answers(c, Ok(response))
  BY <1>1
<1> HIDE DEF shown, response
<1> QED
  BY <1>4, <1>5, <1>6, <1>7, <1>8, ResponsesKeepInvariant DEF ListReturns

LEMMA GetReturnsKeepsInvariant ==
  ASSUME Invariant, NEW c \in Calls, GetReturns(c)
  PROVE  Invariant'
<1> DEFINE row == documents[request[c].body.id]
           response == [to |-> "GetDocument", document |-> mapToApiDocument(row)]
<1>1. Answers(c, Ok(response)) /\ request[c].body.id \in DOMAIN documents
  BY DEF GetReturns
<1>2. row \in Document /\ row \in committed
  BY <1>1 DEF Invariant, TypeOK, RowsAreCommitted
<1>3. response \in Responses
  BY <1>2, ApiDocumentType DEF Responses, GetDocumentResponse
<1>4. DocumentsIn(response) = {mapToApiDocument(row)}
  BY DEF DocumentsIn
<1>5. response.to = "GetDocument"
  OBVIOUS
<1> HIDE DEF row, response
<1> QED
  BY <1>1, <1>2, <1>3, <1>4, <1>5, ResponsesKeepInvariant DEF GetReturns

LEMMA UploadUrlReturnsKeepsInvariant ==
  ASSUME Invariant, NEW c \in Calls, UploadUrlReturns(c)
  PROVE  Invariant'
<1> DEFINE row == documents[request[c].body.id]
           response == [to |-> "CreateDocumentUploadUrl", uploadUrl |-> row.key]
<1>1. Answers(c, Ok(response)) /\ request[c].body.id \in DOMAIN documents
  BY DEF UploadUrlReturns
<1>2. row.key \in StorageKey
  BY <1>1 DEF Invariant, TypeOK, Document
<1>3. response \in Responses
  BY <1>2 DEF Responses, CreateDocumentUploadUrlResponse
<1>4. DocumentsIn(response) = {}
  BY DEF DocumentsIn
<1>5. response.to = "CreateDocumentUploadUrl"
  OBVIOUS
<1> HIDE DEF row, response
<1> QED
  BY <1>1, <1>3, <1>4, <1>5, ResponsesKeepInvariant DEF UploadUrlReturns

-----------------------------------------------------------------------------
(* Rows that move.                                                         *)

\* The part of Invariant that speaks of the table.
TableInvariant ==
  /\ publishers \in SUBSET PublisherIDs
  /\ DOMAIN documents \in SUBSET DocumentIDs
  /\ \A d \in DOMAIN documents : documents[d] \in Document
  /\ committed \subseteq Document
  /\ RowsAreCommitted

LEMMA CommittingKeepsTable ==
  ASSUME Invariant, NEW d \in Document, Commit(d)
  PROVE  TableInvariant' /\ committed' = committed \cup {InsertedRow(d)}
<1>1. /\ documents' = [e \in DOMAIN documents \cup {d.id} |->
                         IF e = d.id THEN InsertedRow(d) ELSE documents[e]]
      /\ committed' = committed \cup {InsertedRow(d)}
      /\ publishers' = publishers
  BY DEF Commit, InsertAccepted, InsertDocument
<1>2. d.id \in DocumentIDs
  BY DEF Document
<1>3. InsertedRow(d) \in Document
  BY <1>1, InsertedRowType
<1>4. RowsAreCommitted'
  BY <1>1, InsertedRowType DEF Invariant, RowsAreCommitted
<1> QED
  BY <1>1, <1>2, <1>3, <1>4 DEF Invariant, TypeOK, TableInvariant

\* The calls do not care what happens to the table, as long as nothing is taken
\* out of committed.
LEMMA TableStepsKeepInvariant ==
  ASSUME Invariant, TableInvariant', committed \subseteq committed',
         strays' \subseteq Document,
         UNCHANGED <<rolePermissions, usedIDs, callVars>>
  PROVE  Invariant'
<1> USE DEF Invariant, callVars
<1>1. TypeOK'
  BY DEF TypeOK, TableInvariant
<1>2. authCtx' = authCtx
  BY DEF authCtx
<1>3. CallsHold'
  BY <1>2 DEF CallsHold
<1>4. AnswersFollowVerdicts'
  BY <1>2 DEF AnswersFollowVerdicts, Reported
<1>5. AnswersWereCommitted'
  BY DEF AnswersWereCommitted
<1> QED
  BY <1>1, <1>3, <1>4, <1>5 DEF TableInvariant

LEMMA StrayInsertKeepsInvariant ==
  ASSUME Invariant, StrayInsert
  PROVE  Invariant'
<1>1. PICK d \in strays :
        /\ strays' = strays \ {d}
        /\ Commit(d) \/ UNCHANGED <<tableVars, committed>>
  BY DEF StrayInsert
<1>2. d \in Document /\ strays' \subseteq Document
  BY <1>1 DEF Invariant, TypeOK
<1>3. TableInvariant' /\ committed \subseteq committed'
  <2>1. CASE Commit(d)
    BY <1>2, <2>1, CommittingKeepsTable
  <2>2. CASE UNCHANGED <<tableVars, committed>>
    BY <2>2 DEF Invariant, TypeOK, TableInvariant, tableVars, RowsAreCommitted
  <2> QED
    BY <1>1, <2>1, <2>2
<1> QED
  BY <1>2, <1>3, TableStepsKeepInvariant DEF StrayInsert

LEMMA CompleteUploadKeepsInvariant ==
  ASSUME Invariant, CompleteUpload
  PROVE  Invariant'
<1>1. PICK d \in DOMAIN documents, completed \in BOOLEAN :
        /\ UpdateDocument([documents[d] EXCEPT !.completed = completed])
        /\ committed' = committed \cup {documents'[d]}
  BY DEF CompleteUpload
<1>2. documents[d] \in Document /\ documents[d].id = d
  BY DEF Invariant, TypeOK, RowsAreCommitted
<1> DEFINE e == [documents[d] EXCEPT !.completed = completed]
           row == UpdatedRow(documents[d], e)
<1>3. e.id = d /\ e.completed \in BOOLEAN /\ e.size \in Sizes
  BY <1>2 DEF Document
<1>4. documents' = [documents EXCEPT ![d] = row]
  BY <1>1, <1>3 DEF UpdateDocument
<1> HIDE DEF e
<1>5. row \in Document /\ row.id = d
  BY <1>2, <1>3, UpdatedRowType
<1> HIDE DEF row
<1>6. committed' = committed \cup {row}
  BY <1>1, <1>4
<1>7. TableInvariant'
  <2>1. \A f \in DOMAIN documents : documents'[f] = IF f = d THEN row ELSE documents[f]
    BY <1>4
  <2>2. DOMAIN documents' = DOMAIN documents /\ publishers' = publishers
    BY <1>4 DEF CompleteUpload
  <2>3. RowsAreCommitted'
    BY <1>5, <1>6, <2>1, <2>2 DEF Invariant, RowsAreCommitted
  <2> QED
    BY <1>5, <1>6, <2>1, <2>2, <2>3 DEF TableInvariant, Invariant, TypeOK
<1>8. strays' \subseteq Document
  BY DEF Invariant, TypeOK, CompleteUpload
<1> QED
  BY <1>6, <1>7, <1>8, TableStepsKeepInvariant DEF CompleteUpload

LEMMA RemovePublisherKeepsInvariant ==
  ASSUME Invariant, RemovePublisher
  PROVE  Invariant'
<1>1. PICK p \in PublisherIDs : DeletePublisher(p)
  BY DEF RemovePublisher
<1>2. TableInvariant'
  BY <1>1
     DEF DeletePublisher, TableInvariant, Invariant, TypeOK, RowsAreCommitted, RemovePublisher
<1> QED
  BY <1>2, TableStepsKeepInvariant DEF RemovePublisher, Invariant, TypeOK

-----------------------------------------------------------------------------
(* The remaining steps of a call.                                          *)

LEMMA InsertKeepsInvariant ==
  ASSUME Invariant, NEW c \in Calls, Insert(c)
  PROVE  Invariant'
<1> USE DEF Invariant
<1> DEFINE row == InsertedRow(doc[c])
<1>1. stage[c] = "insert" /\ doc[c] \in Document /\ answer[c] = NoAnswer
  BY DEF Insert, CallsHold
<1>2. row \in Document
  BY <1>1, InsertedRowType
<1>3. TableInvariant' /\ committed' = committed \cup {row}
  BY <1>1, CommittingKeepsTable DEF Insert
<1> HIDE DEF row
<1>4. doc' = [doc EXCEPT ![c] = row] /\ stage' = [stage EXCEPT ![c] = "collect"]
  BY DEF Insert, Holds, Becomes, row
<1>5. \A b \in Calls :
        /\ stage'[b] = IF b = c THEN "collect" ELSE stage[b]
        /\ doc'[b] = IF b = c THEN row ELSE doc[b]
  BY <1>4 DEF TypeOK
<1>6. UNCHANGED <<rolePermissions, usedIDs, request, answer, strays, generated>>
  BY DEF Insert
<1>7. authCtx' = authCtx
  BY <1>6 DEF authCtx
<1>8. TypeOK'
  BY <1>2, <1>3, <1>4, <1>6 DEF TypeOK, TableInvariant
<1>9. CallsHold'
  BY <1>1, <1>3, <1>5, <1>6, <1>7 DEF CallsHold
<1>10. AnswersFollowVerdicts'
  BY <1>6, <1>7 DEF AnswersFollowVerdicts, Reported
<1>11. AnswersWereCommitted'
  BY <1>3, <1>6 DEF AnswersWereCommitted
<1> QED
  BY <1>3, <1>8, <1>9, <1>10, <1>11 DEF TableInvariant

LEMMA FinishKeepsInvariant ==
  ASSUME Invariant, NEW c \in Calls, Finish(c)
  PROVE  Invariant'
<1> USE DEF Invariant
<1>1. UNCHANGED <<tableVars, rolePermissions, usedIDs, committed>>
  BY DEF Finish, unchangedByEnd
<1>2. \A b \in Calls :
        /\ stage'[b] = IF b = c THEN "idle" ELSE stage[b]
        /\ request'[b] = IF b = c THEN NoRequest ELSE request[b]
        /\ doc'[b] = IF b = c THEN NoDocument ELSE doc[b]
        /\ answer'[b] = IF b = c THEN NoAnswer ELSE answer[b]
        /\ generated'[b] = IF b = c THEN MalformedID ELSE generated[b]
  BY DEF Finish, TypeOK, Becomes, Asked, Holds
<1>3. strays' \subseteq Document
  BY LeavingKeepsType DEF Finish
<1>4. authCtx' = authCtx
  BY <1>1 DEF authCtx
<1>5. TypeOK'
  <2>1. /\ stage' \in [Calls -> {"idle", "insert", "collect", "select", "answering"}]
        /\ request' \in [Calls -> Request \cup {NoRequest}]
        /\ doc' \in [Calls -> Document \cup {NoDocument}]
        /\ generated' \in [Calls -> DocumentIDs \cup {MalformedID}]
    BY DEF Finish, TypeOK, Becomes, Asked, Holds
  <2>2. answer' \in [Calls -> AllAnswers]
    BY DEF Finish, TypeOK, AllAnswers
  <2>3. \A b \in Calls : answer'[b].code = "ok" => answer'[b].response.to = request'[b].procedure
    BY <1>2 DEF TypeOK, NoAnswer
  <2> QED
    BY <1>1, <1>3, <2>1, <2>2, <2>3 DEF TypeOK, tableVars
<1>6. CallsHold'
  BY <1>1, <1>2, <1>4 DEF CallsHold
<1>7. AnswersFollowVerdicts'
  BY <1>2, <1>4 DEF AnswersFollowVerdicts, NoAnswer, Refusals, Reported
<1>8. RowsAreCommitted'
  BY <1>1 DEF RowsAreCommitted, tableVars
<1>9. AnswersWereCommitted'
  BY <1>1, <1>2 DEF AnswersWereCommitted, NoAnswer
<1> QED
  BY <1>5, <1>6, <1>7, <1>8, <1>9

LEMMA RestartKeepsInvariant ==
  ASSUME Invariant, Restart
  PROVE  Invariant'
<1> USE DEF Invariant
<1>1. UNCHANGED <<tableVars, rolePermissions, usedIDs, committed>>
  BY DEF Restart, unchangedByEnd
<1>2. \A c \in Calls :
        /\ stage'[c] = "idle" /\ request'[c] = NoRequest /\ doc'[c] = NoDocument
        /\ answer'[c] = NoAnswer /\ generated'[c] = MalformedID
  BY DEF Restart
<1>3. strays' \subseteq Document
  BY DEF Restart, TypeOK, CallsHold
<1>4. TypeOK'
  BY <1>1, <1>2, <1>3 DEF TypeOK, Restart, tableVars, NoAnswer, AllAnswers
<1>5. CallsHold'
  BY <1>2 DEF CallsHold
<1>6. AnswersFollowVerdicts'
  BY <1>2 DEF AnswersFollowVerdicts, NoAnswer, Refusals
<1>7. RowsAreCommitted'
  BY <1>1 DEF RowsAreCommitted, tableVars
<1>8. AnswersWereCommitted'
  BY <1>2 DEF AnswersWereCommitted, NoAnswer
<1> QED
  BY <1>4, <1>5, <1>6, <1>7, <1>8

LEMMA HandlersKeepInvariant ==
  ASSUME Invariant, NEW c \in Calls, Handler(c)
  PROVE  Invariant'
<1>1. CASE InsertRefused(c)
  <2>1. strays' \subseteq Document
    BY <1>1 DEF InsertRefused, unchangedByRead, Invariant, TypeOK
  <2> QED
    BY <1>1, <2>1, FailuresKeepInvariant DEF InsertRefused, unchangedByRead, Failures
<1>2. CASE ReadFails(c)
  <2>1. strays' \subseteq Document
    BY <1>2 DEF ReadFails, unchangedByRead, Invariant, TypeOK
  <2> QED
    BY <1>2, <2>1, FailuresKeepInvariant DEF ReadFails, unchangedByRead, Failures
<1>3. CASE GivesUp(c)
  <2>1. PICK code \in {"unknown", "deadline_exceeded"} : Answers(c, Error(code))
    BY <1>3 DEF GivesUp
  <2>2. strays' \subseteq Document
    BY <1>3, LeavingKeepsType DEF GivesUp
  <2> QED
    BY <1>3, <2>1, <2>2, FailuresKeepInvariant DEF GivesUp, unchangedByEnd, Failures
<1> QED
  BY <1>1, <1>2, <1>3, InsertKeepsInvariant, CreateReturnsKeepsInvariant,
     ListReturnsKeepsInvariant, GetReturnsKeepsInvariant, UploadUrlReturnsKeepsInvariant,
     FinishKeepsInvariant DEF Handler

-----------------------------------------------------------------------------
(* The theorems.                                                           *)

LEMMA InitEstablishesInvariant ==
  ASSUME Init
  PROVE  Invariant
<1>1. DOMAIN documents = {}
  BY DEF Init
<1>2. TypeOK
  BY <1>1 DEF Init, TypeOK, NoAnswer, AllAnswers
<1>3. CallsHold
  BY DEF Init, CallsHold
<1>4. AnswersFollowVerdicts
  BY DEF Init, AnswersFollowVerdicts, NoAnswer, Refusals
<1>5. RowsAreCommitted
  BY <1>1 DEF RowsAreCommitted
<1>6. AnswersWereCommitted
  BY DEF Init, AnswersWereCommitted, NoAnswer
<1> QED
  BY <1>2, <1>3, <1>4, <1>5, <1>6 DEF Invariant

LEMMA StepsKeepInvariant ==
  ASSUME Invariant, [Next]_vars
  PROVE  Invariant'
<1>1. CASE UNCHANGED vars
  <2>1. TableInvariant'
    BY <1>1 DEF vars, tableVars, Invariant, TypeOK, TableInvariant, RowsAreCommitted
  <2> QED
    BY <1>1, <2>1, TableStepsKeepInvariant DEF vars, callVars, Invariant, TypeOK
<1>2. CASE Next
  BY <1>2, ArrivalsKeepInvariant, HandlersKeepInvariant, StrayInsertKeepsInvariant,
     RestartKeepsInvariant, CompleteUploadKeepsInvariant, RemovePublisherKeepsInvariant DEF Next
<1> QED
  BY <1>1, <1>2

(* In every reachable state calls hold what their stage says, answers      *)
(* follow from the verdicts and every row of the table is in committed.    *)
THEOREM InvariantHolds == Spec => []Invariant
<1>1. Init => Invariant
  BY InitEstablishesInvariant
<1>2. Invariant /\ [Next]_vars => Invariant'
  BY StepsKeepInvariant
<1> QED
  BY <1>1, <1>2, PTL DEF Spec

(* The variables have their types, and a successful answer is one of the   *)
(* method that was called.                                                 *)
THEOREM TypeCorrect == Spec => []TypeOK
<1>1. Invariant => TypeOK
  BY DEF Invariant
<1> QED
  BY <1>1, InvariantHolds, PTL

\* An id that may be in the table belongs to a call that was let through.
LEMMA StoringCalls ==
  ASSUME Invariant, NEW c \in Calls, MayBeStored(c)
  PROVE  /\ generated[c] # MalformedID
         /\ request[c].procedure = "CreateDocument"
         /\ Verdict(request[c], authCtx) = "pass"
<1>1. PICK d \in committed \cup strays : d.id = generated[c]
  BY DEF MayBeStored
<1>2. d \in Document
  BY DEF Invariant, TypeOK
<1>3. d.id \in DocumentIDs
  BY <1>2 DEF Document
<1>4. generated[c] # MalformedID
  BY <1>1, <1>3, ApiAssumption
<1> QED
  BY <1>4 DEF Invariant, CallsHold

(* A refused call has stored nothing, and no INSERT of it is on its way.   *)
THEOREM RefusedCallsStoreNothingHolds == Spec => []RefusedCallsStoreNothing
<1>1. Invariant => RefusedCallsStoreNothing
  <2> SUFFICES ASSUME Invariant, NEW c \in Calls, answer[c].code \in Refusals
               PROVE  ~ MayBeStored(c)
    BY DEF RefusedCallsStoreNothing
  <2>1. generated[c] = MalformedID
    BY DEF Invariant, AnswersFollowVerdicts
  <2> QED
    BY <2>1, StoringCalls
<1> QED
  BY <1>1, InvariantHolds, PTL

(* A GET stores nothing: the one procedure that stores is not open to it.  *)
THEOREM SafeCallsStoreNothingHolds == Spec => []SafeCallsStoreNothing
<1>1. Invariant => SafeCallsStoreNothing
  BY StoringCalls, Passing DEF SafeCallsStoreNothing, NoSideEffects
<1> QED
  BY <1>1, InvariantHolds, PTL

(* What WhoAmI reports is what the methods of the service go by.           *)
THEOREM PermissionsHoldAsReportedHolds == Spec => []PermissionsHoldAsReported
<1>1. Invariant => PermissionsHoldAsReported
  <2> SUFFICES ASSUME Invariant, NEW b \in Calls, NEW c \in Calls,
                      answer[b].code = "ok", answer[b].response.to = "WhoAmI",
                      stage[c] # "idle", request[c].procedure \in DOMAIN MethodPermission
               PROVE  IF MethodPermission[request[c].procedure] \in Reported(b)
                      THEN answer[c].code # "permission_denied"
                      ELSE answer[c].code # "ok" /\ ~ MayBeStored(c)
    BY DEF PermissionsHoldAsReported
  <2>1. Reported(b) = authCtx.permissions
    BY DEF Invariant, AnswersFollowVerdicts
  <2>2. CASE MethodPermission[request[c].procedure] \in Reported(b)
    BY <2>1, <2>2 DEF Invariant, AnswersFollowVerdicts, MethodDenied
  <2>3. CASE MethodPermission[request[c].procedure] \notin Reported(b)
    <3>1. MethodDenied(request[c].procedure, authCtx)
      BY <2>1, <2>3 DEF MethodDenied
    <3>2. Verdict(request[c], authCtx) # "pass"
      BY <3>1, Passing
    <3> QED
      BY <2>3, <3>2, StoringCalls DEF Invariant, AnswersFollowVerdicts
  <2> QED
    BY <2>2, <2>3
<1> QED
  BY <1>1, InvariantHolds, PTL

(* Every document a client is shown has been a row of the table.           *)
THEOREM AnswersWereCommittedHolds == Spec => []AnswersWereCommitted
<1>1. Invariant => AnswersWereCommitted
  BY DEF Invariant
<1> QED
  BY <1>1, InvariantHolds, PTL

=============================================================================
