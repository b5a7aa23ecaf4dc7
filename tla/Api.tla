-------------------------------- MODULE Api --------------------------------
(***************************************************************************)
(* The API that cortex serves: its messages and methods, as the code that  *)
(* is generated from api/exonex declares them, the routes that NewServer   *)
(* mounts, and the interceptors a request passes before its handler        *)
(* (internal/cortex/auth, pkg/grpc).  None of it has a state: what becomes *)
(* of a request on its way to the handler depends on the request alone.    *)
(*                                                                         *)
(* Of a message only the fields are kept that some code reads or writes    *)
(* and some property tells apart: page_size, page_token, order_by and      *)
(* show_deleted are read by nobody.                                        *)
(***************************************************************************)
EXTENDS DocumentTable

CONSTANTS
  MalformedID,     \* a text that uuid.Parse refuses
  NoAnnotations,   \* the annotations of a request that has none
  EmptyAnnotations \* {}

ASSUME ApiAssumption ==
  /\ MalformedID \notin DocumentIDs \cup PublisherIDs
  /\ NoAnnotations \notin Annotations
  /\ EmptyAnnotations \in Annotations

-----------------------------------------------------------------------------
(* Messages.                                                               *)

ResourceMeta == [annotations : Annotations, version : Nat]

ApiDocument ==
  [meta : ResourceMeta, id : DocumentIDs, publisher : PublisherIDs,
   fileUploadCompleted : BOOLEAN, fileMimeType : MimeTypes, fileSizeBytes : Sizes,
   fileStorageVolume : VolumeNames, fileStorageKey : StorageKey]

WhoAmIRequest == [type : {"WhoAmIRequest"}]

\* Only whether there is a filter: which rows it selects is FilterMeaning's
\* subject.
ListDocumentsRequest == [type : {"ListDocumentsRequest"}, filtered : BOOLEAN]

GetDocumentRequest ==
  [type : {"GetDocumentRequest"}, id : DocumentIDs \cup {MalformedID}]

CreateDocumentRequest ==
  [type : {"CreateDocumentRequest"},
   annotations : Annotations \cup {NoAnnotations},
   publisher : PublisherIDs \cup {MalformedID},
   fileMimeType : MimeTypes, fileExtension : Extensions, fileSizeBytes : Sizes]

CreateDocumentUploadUrlRequest ==
  [type : {"CreateDocumentUploadUrlRequest"}, id : DocumentIDs \cup {MalformedID}]

UpdateDocumentRequest == [type : {"UpdateDocumentRequest"}]

ListDocumentsResponse ==
  [to : {"ListDocuments"}, documents : SUBSET ApiDocument]

GetDocumentResponse == [to : {"GetDocument"}, document : ApiDocument]

CreateDocumentResponse == [to : {"CreateDocument"}, document : ApiDocument]

\* The URL, by the place it leads to (see DocumentService).
CreateDocumentUploadUrlResponse ==
  [to : {"CreateDocumentUploadUrl"}, uploadUrl : StorageKey]

-----------------------------------------------------------------------------
(* Methods, and what document.proto says of them.                          *)

AuthServiceMethods == {"WhoAmI"}

DocumentServiceMethods ==
  {"ListDocuments", "GetDocument", "CreateDocument", "CreateDocumentUploadUrl",
   "UpdateDocument"}

\* The methods of the services NewServer mounts.  AnalysisService and
\* ArtifactService are generated and not mounted.
Procedures == AuthServiceMethods \cup DocumentServiceMethods

\* The options of the generated handlers.
NoSideEffects_Create == {"ListDocuments", "GetDocument", "CreateDocument"}

NoSideEffects == {"ListDocuments", "GetDocument"}

Input ==
  [WhoAmI |-> WhoAmIRequest,
   ListDocuments |-> ListDocumentsRequest,
   GetDocument |-> GetDocumentRequest,
   CreateDocument |-> CreateDocumentRequest,
   CreateDocumentUploadUrl |-> CreateDocumentUploadUrlRequest,
   UpdateDocument |-> UpdateDocumentRequest]

Permissions ==
  {"documents.read", "documents.create", "documents.upload_url.create",
   "documents.update", "documents.delete",
   "documents.update/file_upload_completed", "documents.update/file_size_bytes"}

MethodPermission ==
  [ListDocuments |-> "documents.read",
   GetDocument |-> "documents.read",
   CreateDocument |-> "documents.create",
   CreateDocumentUploadUrl |-> "documents.upload_url.create",
   UpdateDocument |-> "documents.update"]

-----------------------------------------------------------------------------
(* Requests and what may come back.                                        *)

\* A body that is no message of the input's type.
Undecodable == [type |-> "undecodable"]

\* net/http hands any path to the mux; "elsewhere" stands for those that are
\* not a method of a mounted service (nor the reflection's).
Request ==
  [verb : {"GET", "POST"}, procedure : {"elsewhere"}, body : {Undecodable}]
    \cup UNION {[verb : {"GET", "POST"}, procedure : {p}, body : Input[p] \cup {Undecodable}]
                  : p \in Procedures}

\* The outcomes that say the request itself was refused; the others of an error.
Refusals ==
  {"not_found", "method_not_allowed", "invalid_argument", "permission_denied", "unimplemented"}

Failures == {"internal", "unknown", "deadline_exceeded"}

-----------------------------------------------------------------------------
(* The way to the handler.                                                 *)

\* GetRolePermissions: a role the table does not know has none.
GetRolePermissions(role, table) == IF role \in DOMAIN table THEN table[role] ELSE {}

\* NewContext(WithRoles(roles)); table is rolePermissions.
AuthContext(roles, table) ==
  [roles |-> roles, permissions |-> UNION {GetRolePermissions(r, table) : r \in roles}]

\* CreateAuthContextInterceptor: every caller is the same.
ActiveRoles == {"unauthenticated"}

\* Without its option the method is open to everybody.
MethodDenied_OnlyWrites(procedure, authCtx) ==
  /\ procedure \in DOMAIN MethodPermission \ NoSideEffects
  /\ MethodPermission[procedure] \notin authCtx.permissions

\* CreateMethodPermissionInterceptor.  Its context and its descriptor are
\* always there: AuthContext runs first, and the method has been routed.
MethodDenied(procedure, authCtx) ==
  /\ procedure \in DOMAIN MethodPermission
  /\ MethodPermission[procedure] \notin authCtx.permissions

\* The fields with the option field_type = FIELD_TYPE_ANNOTATIONS: no message
\* has one.
AnnotationFields == {}

\* validateFieldTypes.  verifyAnnotations gives the schema bytes, which are no
\* JSON object to it, so it refuses whatever the field holds.
FieldViolations(body) == {f \in AnnotationFields \cap DOMAIN body : body[f] # NoAnnotations}

\* The mux and the service's handler, the codec, and the interceptors, in their
\* order; "pass" is the way through to the handler.  (validate.NewInterceptor
\* finds no rules in these messages.)
Verdict(request, authCtx) ==
  IF request.procedure \notin Procedures THEN "not_found"
  ELSE IF request.verb = "GET" /\ request.procedure \notin NoSideEffects
    THEN "method_not_allowed"
  ELSE IF request.body = Undecodable THEN "invalid_argument"
  ELSE IF MethodDenied(request.procedure, authCtx) THEN "permission_denied"
  ELSE IF FieldViolations(request.body) # {} THEN "invalid_argument"
  ELSE "pass"

=============================================================================
