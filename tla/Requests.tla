------------------------------ MODULE Requests ------------------------------
(***************************************************************************)
(* RPCs from the network to the table and back: Api's verdict on a request,*)
(* DocumentHandler and AuthHandler, the statements they run, and the code  *)
(* the client is answered with.  DocumentService has what signed URLs and  *)
(* files do later, DocumentReads what masks and filters do.                *)
(*                                                                         *)
(* A call is one goroutine.  It is cut where it waits for the database:    *)
(* its INSERT or its SELECT is sent, runs, and its answer is collected, and *)
(* the connection, the deadline or the client may be gone by then.  A      *)
(* statement nobody waits for any more may still run.                      *)
(***************************************************************************)
EXTENDS Api

CONSTANTS
  Calls,                 \* the requests that can be in flight together
  RolePermissionTables,  \* rolePermissions, and other tables it may be edited to
  MaxVersion             \* bound: how often documents are updated

ASSUME RequestsAssumption ==
  /\ \A table \in RolePermissionTables :
       \A role \in DOMAIN table : table[role] \subseteq Permissions
  /\ "default" \in VolumeNames
  /\ MaxVersion \in Nat

VARIABLES
  rolePermissions, \* the table of the running program
  usedIDs,         \* the UUIDs generated so far
  stage,           \* what each call does next
  request,         \* what it was asked
  doc,             \* its local Document: the one it inserts, the row it has got
  answer,          \* what it answers
  strays,          \* INSERTs whose caller is gone
  generated,       \* the id each call has generated
  committed        \* every row the table has ever had

vars == <<tableVars, rolePermissions, usedIDs, stage, request, doc, answer, strays,
          generated, committed>>

callVars == <<stage, request, doc, answer, generated>>

-----------------------------------------------------------------------------
NoRequest == [procedure |-> "none"]
NoDocument == [id |-> MalformedID]
NoAnswer == [code |-> "none"]

Error(code) == [code |-> code]
Ok(response) == [code |-> "ok", response |-> response]

authCtx == AuthContext(ActiveRoles, rolePermissions)

Init ==
  /\ publishers \in SUBSET PublisherIDs
  /\ documents = << >>
  /\ rolePermissions \in RolePermissionTables
  /\ usedIDs = {}
  /\ stage = [c \in Calls |-> "idle"]
  /\ request = [c \in Calls |-> NoRequest]
  /\ doc = [c \in Calls |-> NoDocument]
  /\ answer = [c \in Calls |-> NoAnswer]
  /\ strays = {}
  /\ generated = [c \in Calls |-> MalformedID]
  /\ committed = {}

-----------------------------------------------------------------------------
Becomes(c, s) == stage' = [stage EXCEPT ![c] = s]
Holds(c, d) == doc' = [doc EXCEPT ![c] = d]
Asked(c, r) == request' = [request EXCEPT ![c] = r]

\* The handler of c returns.
Answers(c, a) ==
  /\ Becomes(c, "answering")
  /\ Holds(c, NoDocument)
  /\ answer' = [answer EXCEPT ![c] = a]

\* mapToApiDocument
mapToApiDocument(d) ==
  [meta |-> [annotations |-> d.annotations, version |-> d.version],
   id |-> d.id, publisher |-> d.publisher, fileUploadCompleted |-> d.completed,
   fileMimeType |-> d.mimeType, fileSizeBytes |-> d.size,
   fileStorageVolume |-> d.volume, fileStorageKey |-> d.key]

-----------------------------------------------------------------------------
(* A request arrives.                                                      *)

unchangedByArrival == <<tableVars, rolePermissions, strays, committed>>

\* It does not get to its handler.
Refuse(c) ==
  /\ stage[c] = "idle"
  /\ \E r \in Request :
       /\ Verdict(r, authCtx) # "pass"
       /\ Asked(c, r)
       /\ Answers(c, Error(Verdict(r, authCtx)))
  /\ UNCHANGED <<usedIDs, generated, unchangedByArrival>>

Arrives(c, r, procedure) ==
  /\ stage[c] = "idle"
  /\ r.procedure = procedure
  /\ Verdict(r, authCtx) = "pass"
  /\ Asked(c, r)

WhoAmI(c) ==
  /\ \E r \in Request : Arrives(c, r, "WhoAmI")
  /\ Answers(c, Ok([to |-> "WhoAmI", activeRoles |-> authCtx.roles,
                    activePermissions |-> authCtx.permissions]))
  /\ UNCHANGED <<usedIDs, generated, unchangedByArrival>>

UpdateDocumentRPC(c) ==
  /\ \E r \in Request : Arrives(c, r, "UpdateDocument")
  /\ Answers(c, Error("unimplemented"))
  /\ UNCHANGED <<usedIDs, generated, unchangedByArrival>>

\* uuid.Parse refuses the id in the message.
RefuseID(c) ==
  /\ \E r \in Request :
       \/ /\ \E p \in {"GetDocument", "CreateDocumentUploadUrl"} : Arrives(c, r, p)
          /\ r.body.id = MalformedID
       \/ /\ Arrives(c, r, "CreateDocument")
          /\ r.body.publisher = MalformedID
  /\ Answers(c, Error("invalid_argument"))
  /\ UNCHANGED <<usedIDs, generated, unchangedByArrival>>

\* ListDocuments, GetDocument, CreateDocumentUploadUrl: the SELECT is sent.
BeginRead(c) ==
  /\ \E r \in Request :
       \/ Arrives(c, r, "ListDocuments")
       \/ /\ \E p \in {"GetDocument", "CreateDocumentUploadUrl"} : Arrives(c, r, p)
          /\ r.body.id # MalformedID
  /\ Becomes(c, "select")
  /\ UNCHANGED <<usedIDs, doc, answer, generated, unchangedByArrival>>

\* A request without annotations would be stored with NULL.
AsMap_Nil(annotations) == annotations

\* Annotations.AsMap() of no Struct is an empty map.
AsMap(annotations) == IF annotations = NoAnnotations THEN EmptyAnnotations ELSE annotations

\* newDoc (the year in the key is DocumentService's subject).
NewDocument(d, body) ==
  [id |-> d, publisher |-> body.publisher, annotations |-> AsMap(body.annotations),
   completed |-> FALSE, mimeType |-> body.fileMimeType, size |-> body.fileSizeBytes,
   volume |-> "default", version |-> 0,
   key |-> [publisher |-> body.publisher, year |-> 0, id |-> d,
            extension |-> body.fileExtension]]

\* CreateDocument: the INSERT is sent.
BeginCreate(c) ==
  /\ \E r \in Request, d \in DocumentIDs \ usedIDs :
       /\ Arrives(c, r, "CreateDocument")
       /\ r.body.publisher # MalformedID
       /\ usedIDs' = usedIDs \cup {d}
       /\ generated' = [generated EXCEPT ![c] = d]
       /\ Holds(c, NewDocument(d, r.body))
  /\ Becomes(c, "insert")
  /\ UNCHANGED <<answer, unchangedByArrival>>

\* The extension does not match the MIME type, or no UUID could be generated:
\* an Error of the domain, which is no connect.Error.
RefuseCreate(c) ==
  /\ \E r \in Request :
       /\ Arrives(c, r, "CreateDocument")
       /\ r.body.publisher # MalformedID
  /\ Answers(c, Error("unknown"))
  /\ UNCHANGED <<usedIDs, generated, unchangedByArrival>>

-----------------------------------------------------------------------------
(* The database and the rest of the handlers.                              *)

unchangedByRead == <<tableVars, rolePermissions, usedIDs, strays, committed>>

Commit(d) ==
  /\ InsertAccepted(d)
  /\ InsertDocument(d)
  /\ committed' = committed \cup {InsertedRow(d)}
  /\ UNCHANGED publishers

\* The handler goes on with newDoc and not with the row.
Insert_KeepsNewDoc(c) ==
  /\ stage[c] = "insert"
  /\ Commit(doc[c])
  /\ Holds(c, doc[c])
  /\ Becomes(c, "collect")
  /\ UNCHANGED <<rolePermissions, usedIDs, request, answer, strays, generated>>

Insert(c) ==
  /\ stage[c] = "insert"
  /\ Commit(doc[c])
  /\ Holds(c, InsertedRow(doc[c]))
  /\ Becomes(c, "collect")
  /\ UNCHANGED <<rolePermissions, usedIDs, request, answer, strays, generated>>

\* A constraint refuses the row.
InsertRefused(c) ==
  /\ stage[c] = "insert"
  /\ ~ InsertAccepted(doc[c])
  /\ Answers(c, Error("unknown"))
  /\ UNCHANGED <<request, generated, unchangedByRead>>

CreateReturns(c) ==
  /\ stage[c] = "collect"
  /\ Answers(c, Ok([to |-> "CreateDocument",
                    document |-> mapToApiDocument(doc[c])]))
  /\ UNCHANGED <<request, generated, unchangedByRead>>

\* A filter selects some of the rows; nothing else of the request does.
ListReturns(c) ==
  /\ stage[c] = "select"
  /\ request[c].procedure = "ListDocuments"
  /\ \E found \in SUBSET DOMAIN documents :
       /\ ~ request[c].body.filtered => found = DOMAIN documents
       /\ Answers(c, Ok([to |-> "ListDocuments",
                         documents |-> {mapToApiDocument(documents[d]) : d \in found}]))
  /\ UNCHANGED <<request, generated, unchangedByRead>>

GetReturns(c) ==
  /\ stage[c] = "select"
  /\ request[c].procedure = "GetDocument"
  /\ request[c].body.id \in DOMAIN documents
  /\ Answers(c, Ok([to |-> "GetDocument",
                    document |-> mapToApiDocument(documents[request[c].body.id])]))
  /\ UNCHANGED <<request, generated, unchangedByRead>>

\* CreateDocumentUploadURL has its row, and goes on with that.
UploadUrlReturns(c) ==
  /\ stage[c] = "select"
  /\ request[c].procedure = "CreateDocumentUploadUrl"
  /\ request[c].body.id \in DOMAIN documents
  /\ ~ documents[request[c].body.id].completed
  /\ Answers(c, Ok([to |-> "CreateDocumentUploadUrl",
                    uploadUrl |-> documents[request[c].body.id].key]))
  /\ UNCHANGED <<request, generated, unchangedByRead>>

\* No such row, an upload that is completed, a volume that is not registered, a
\* mask or a filter that is refused: the domain's error kinds are lost.
ReadFails(c) ==
  /\ stage[c] = "select"
  /\ Answers(c, Error("unknown"))
  /\ UNCHANGED <<request, generated, unchangedByRead>>

-----------------------------------------------------------------------------
(* Calls end; what is left behind of one that waits for its INSERT.        *)

Leaves(c) == strays' = IF stage[c] = "insert" THEN strays \cup {doc[c]} ELSE strays

unchangedByEnd == <<tableVars, rolePermissions, usedIDs, committed>>

\* Every error of the repository is taken for the caller's.
GivesUp_BlamesCaller(c) ==
  /\ stage[c] \in {"insert", "collect", "select"}
  /\ Answers(c, Error("invalid_argument"))
  /\ Leaves(c)
  /\ UNCHANGED <<request, generated, unchangedByEnd>>

\* The connection to the database is lost, or the call's deadline is over.
GivesUp(c) ==
  /\ stage[c] \in {"insert", "collect", "select"}
  /\ \E code \in {"unknown", "deadline_exceeded"} : Answers(c, Error(code))
  /\ Leaves(c)
  /\ UNCHANGED <<request, generated, unchangedByEnd>>

\* The answer is delivered, the client is gone, or the handler has panicked and
\* the connection is closed without one: another call may follow.
Finish(c) ==
  /\ stage[c] # "idle"
  /\ Becomes(c, "idle")
  /\ Asked(c, NoRequest)
  /\ Holds(c, NoDocument)
  /\ answer' = [answer EXCEPT ![c] = NoAnswer]
  /\ generated' = [generated EXCEPT ![c] = MalformedID]
  /\ Leaves(c)
  /\ UNCHANGED unchangedByEnd

\* The database runs a statement that was on its way, or never gets it.
StrayInsert ==
  /\ \E d \in strays :
       /\ strays' = strays \ {d}
       /\ \/ Commit(d)
          \/ UNCHANGED <<tableVars, committed>>
  /\ UNCHANGED <<rolePermissions, usedIDs, callVars>>

\* The process stops and starts again.
Restart ==
  /\ stage' = [c \in Calls |-> "idle"]
  /\ request' = [c \in Calls |-> NoRequest]
  /\ doc' = [c \in Calls |-> NoDocument]
  /\ answer' = [c \in Calls |-> NoAnswer]
  /\ generated' = [c \in Calls |-> MalformedID]
  /\ strays' = strays \cup {doc[c] : c \in {b \in Calls : stage[b] = "insert"}}
  /\ UNCHANGED unchangedByEnd

-----------------------------------------------------------------------------
(* The other actors on the table (see DocumentService).                    *)

CompleteUpload ==
  /\ \E d \in DOMAIN documents, completed \in BOOLEAN :
       /\ documents[d].version < MaxVersion
       /\ UpdateDocument([documents[d] EXCEPT !.completed = completed])
       /\ committed' = committed \cup {documents'[d]}
  /\ UNCHANGED <<publishers, rolePermissions, usedIDs, strays, callVars>>

RemovePublisher ==
  /\ \E p \in PublisherIDs : DeletePublisher(p)
  /\ UNCHANGED <<rolePermissions, usedIDs, strays, committed, callVars>>

-----------------------------------------------------------------------------
Arrival(c) ==
  \/ Refuse(c) \/ WhoAmI(c) \/ UpdateDocumentRPC(c) \/ RefuseID(c)
  \/ BeginRead(c) \/ BeginCreate(c) \/ RefuseCreate(c)

Handler(c) ==
  \/ Insert(c) \/ InsertRefused(c) \/ CreateReturns(c)
  \/ ListReturns(c) \/ GetReturns(c) \/ UploadUrlReturns(c) \/ ReadFails(c)
  \/ GivesUp(c) \/ Finish(c)

Next ==
  \/ \E c \in Calls : Arrival(c) \/ Handler(c)
  \/ StrayInsert \/ Restart \/ CompleteUpload \/ RemovePublisher

Spec == Init /\ [][Next]_vars

-----------------------------------------------------------------------------
(* Properties.                                                             *)

WhoAmIResponse ==
  [to : {"WhoAmI"}, activeRoles : SUBSET ActiveRoles,
   activePermissions : SUBSET Permissions]

Responses ==
  WhoAmIResponse \cup ListDocumentsResponse \cup GetDocumentResponse
    \cup CreateDocumentResponse \cup CreateDocumentUploadUrlResponse

AllAnswers ==
  {NoAnswer} \cup [code : Refusals \cup Failures] \cup [code : {"ok"}, response : Responses]

(* Types; and a successful answer has its method's response type.          *)
TypeOK ==
  /\ publishers \in SUBSET PublisherIDs
  /\ DOMAIN documents \in SUBSET DocumentIDs
  /\ \A d \in DOMAIN documents : documents[d] \in Document
  /\ rolePermissions \in RolePermissionTables
  /\ usedIDs \in SUBSET DocumentIDs
  /\ stage \in [Calls -> {"idle", "insert", "collect", "select", "answering"}]
  /\ request \in [Calls -> Request \cup {NoRequest}]
  /\ doc \in [Calls -> Document \cup {NoDocument}]
  /\ answer \in [Calls -> AllAnswers]
  /\ \A c \in Calls : answer[c].code = "ok" => answer[c].response.to = request[c].procedure
  /\ strays \subseteq Document
  /\ generated \in [Calls -> DocumentIDs \cup {MalformedID}]
  /\ committed \subseteq Document

\* The document of call c is in the table, was, or may still get there.
MayBeStored(c) == \E d \in committed \cup strays : d.id = generated[c]

(* A client that is told its request was refused (not found, not allowed,  *)
(* not permitted, invalid, unimplemented) has stored nothing and will not  *)
(* have: only of an unknown error and of a deadline it cannot tell.        *)
RefusedCallsStoreNothing ==
  \A c \in Calls : answer[c].code \in Refusals => ~ MayBeStored(c)

(* GET is for methods without side effects (document.proto:64, :68): what  *)
(* a proxy or a browser may repeat stores nothing.                         *)
SafeCallsStoreNothing ==
  \A c \in Calls : stage[c] # "idle" /\ request[c].verb = "GET" => ~ MayBeStored(c)

Reported(c) == answer[c].response.activePermissions

(* A caller whom WhoAmI reports a permission is never denied the methods   *)
(* that require it, and one whom it does not report it neither gets a      *)
(* document or a URL from them nor stores one.                             *)
PermissionsHoldAsReported ==
  \A b, c \in Calls :
    /\ answer[b].code = "ok" /\ answer[b].response.to = "WhoAmI"
    /\ stage[c] # "idle" /\ request[c].procedure \in DOMAIN MethodPermission
    => IF MethodPermission[request[c].procedure] \in Reported(b)
       THEN answer[c].code # "permission_denied"
       ELSE answer[c].code # "ok" /\ ~ MayBeStored(c)

DocumentsIn(response) ==
  CASE response.to = "ListDocuments" -> response.documents
    [] response.to \in {"GetDocument", "CreateDocument"} -> {response.document}
    [] OTHER -> {}

(* Whatever document a client is shown has been in the table exactly like  *)
(* that: no answer shows a draft, a row that was refused, or columns of two *)
(* versions.                                                               *)
AnswersWereCommitted ==
  \A c \in Calls : answer[c].code = "ok" =>
    \A shown \in DocumentsIn(answer[c].response) :
      \E row \in committed : shown = mapToApiDocument(row)

-----------------------------------------------------------------------------
(* The inductive invariant behind these properties.                        *)

\* What a call holds at each stage; whoever has generated an id was let
\* through to CreateDocument.
CallsHold ==
  \A c \in Calls :
    /\ stage[c] = "idle" => request[c] = NoRequest /\ generated[c] = MalformedID
    /\ stage[c] # "idle" => request[c] \in Request
    /\ stage[c] # "answering" => answer[c] = NoAnswer
    /\ stage[c] \in {"insert", "collect", "select"} => Verdict(request[c], authCtx) = "pass"
    /\ stage[c] \in {"insert", "collect"} => request[c].procedure = "CreateDocument"
    /\ stage[c] = "insert" => doc[c] \in Document
    /\ stage[c] = "collect" => doc[c] \in committed
    /\ generated[c] # MalformedID =>
         request[c].procedure = "CreateDocument" /\ Verdict(request[c], authCtx) = "pass"

\* An answer follows from the verdict on the request.
AnswersFollowVerdicts ==
  \A c \in Calls :
    /\ answer[c].code \in Refusals => generated[c] = MalformedID
    /\ answer[c].code = "permission_denied" => MethodDenied(request[c].procedure, authCtx)
    /\ answer[c].code = "ok" => Verdict(request[c], authCtx) = "pass"
    /\ answer[c].code = "ok" /\ answer[c].response.to = "WhoAmI" =>
         Reported(c) = authCtx.permissions

RowsAreCommitted ==
  \A d \in DOMAIN documents : documents[d] \in committed /\ documents[d].id = d

Invariant ==
  /\ TypeOK
  /\ CallsHold
  /\ AnswersFollowVerdicts
  /\ RowsAreCommitted
  /\ AnswersWereCommitted

=============================================================================
