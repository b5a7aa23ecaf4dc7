--------------------------- MODULE DocumentService ---------------------------
(***************************************************************************)
(* The life of a document: DocumentHandler and DocumentService             *)
(* (internal/cortex) over the documents table and the object storage.      *)
(*                                                                         *)
(* A handler is a goroutine serving one request; a client that retries     *)
(* while its first request is still being served has two of them.  It is   *)
(* cut where another actor can come in between: before each SQL statement, *)
(* between reading the row and signing a URL for it, and before the        *)
(* response reaches the client.  Around the handlers act the clients that  *)
(* upload files, the callers of DocumentRepository.UpdateDocument, the SQL *)
(* client that deletes publishers, the clock, and restarts of the process. *)
(***************************************************************************)
EXTENDS DocumentTable, ObjectStorage, FiniteSets

CONSTANTS
    Handlers,           \* the requests that can be in flight together
    Contents,           \* what a file can contain
    MalformedID,        \* a caller's string that uuid.Parse refuses
    ExtensionsByType,   \* mime.ExtensionsByType: [MimeTypes -> SUBSET Extensions]
    Configurations,     \* values of Config.Volumes the process may start with
    UploadUrlLifetime,  \* time.Hour, in units of the clock
    YearLength,         \* clock units per calendar year
    \* Bounds of the model:
    MaxTime, MaxVersion, MaxUrls

ASSUME ServiceAssumption ==
    /\ UploadUrlLifetime \in Nat \ {0}
    /\ YearLength \in Nat \ {0}
    /\ MaxTime \in Nat /\ MaxVersion \in Nat /\ MaxUrls \in Nat
    /\ ExtensionsByType \in [MimeTypes -> SUBSET Extensions]
    /\ MalformedID \notin DocumentIDs \cup PublisherIDs
    \* GetVolumeManager refuses to start without a volume.
    /\ \A volumes \in Configurations :
          /\ DOMAIN volumes \in (SUBSET VolumeNames) \ {{}}
          /\ \A name \in DOMAIN volumes : volumes[name] \in VolumeConfig
    /\ "default" \in VolumeNames

VARIABLES
    volumes,    \* Config.Volumes of the running process
    stage,      \* what each handler does next
    wanted,     \* the id an upload URL was asked for
    doc,        \* the handler's local Document
    answer,     \* what the handler returns
    usedIDs,    \* the UUIDs generated so far
    urls,       \* the upload URLs clients have received
    acked,      \* the ids of the documents clients were told were created
    born,       \* every document as it was first stored
    now         \* the clock

vars == <<tableVars, objects, volumes, stage, wanted, doc, answer,
          usedIDs, urls, acked, born, now>>

handlerVars == <<stage, wanted, doc, answer>>
historyVars == <<usedIDs, urls, acked, born>>

-----------------------------------------------------------------------------

\* domain.ErrorKind values that leave the service, and the handler's own
\* connect.CodeInvalidArgument for an id it cannot parse.
ErrorKinds == {"INVALID_ARGUMENT", "FAILED_PRECONDITION", "INTERNAL"}

PresignedRequest ==
    [volume: VolumeNames, key: StorageKey, mimeType: MimeTypes, size: Sizes,
     signed: SUBSET Headers, signedBy: Adapter, signedAt: Nat]

\* CreateDocumentUploadUrlResponse: the URL and the expiry the client is told.
UploadUrl == [request: PresignedRequest, expiresAt: Nat]

Files == [mimeType: MimeTypes, size: Sizes, content: Contents]

NoDocument == [id |-> MalformedID]
NoAnswer == [kind |-> "none"]

DocumentAnswer(d) == [kind |-> "document", id |-> d]
UrlAnswer(u) == [kind |-> "url", url |-> u]
ErrorAnswer(e) == [kind |-> "error", error |-> e]

Answers ==
    {NoAnswer}
        \cup [kind: {"document"}, id: DocumentIDs]
        \cup [kind: {"url"}, url: UploadUrl]
        \cup [kind: {"error"}, error: ErrorKinds]

Init ==
    /\ publishers \in SUBSET PublisherIDs
    /\ documents = << >>
    /\ objects = << >>
    /\ volumes \in Configurations
    /\ stage = [c \in Handlers |-> "idle"]
    /\ wanted = [c \in Handlers |-> MalformedID]
    /\ doc = [c \in Handlers |-> NoDocument]
    /\ answer = [c \in Handlers |-> NoAnswer]
    /\ usedIDs = {}
    /\ urls = {}
    /\ acked = {}
    /\ born = << >>
    /\ now = 0

-----------------------------------------------------------------------------

\* Handler c is done and returns a.
Return(c, a) ==
    /\ stage' = [stage EXCEPT ![c] = "return"]
    /\ answer' = [answer EXCEPT ![c] = a]
    /\ wanted' = [wanted EXCEPT ![c] = MalformedID]
    /\ doc' = [doc EXCEPT ![c] = NoDocument]

\* The request of handler c is over.
Finish(c) ==
    /\ stage' = [stage EXCEPT ![c] = "idle"]
    /\ answer' = [answer EXCEPT ![c] = NoAnswer]
    /\ wanted' = [wanted EXCEPT ![c] = MalformedID]
    /\ doc' = [doc EXCEPT ![c] = NoDocument]

(***************************************************************************)
(* CreateDocument.                                                         *)
(***************************************************************************)
Year(t) == t \div YearLength

StorageKeyOf_PerYear(publisher, d, extension, t) ==
    [publisher |-> publisher, year |-> Year(t),
     id |-> CHOOSE e \in DocumentIDs : TRUE, extension |-> extension]

\* buildStorageKey
StorageKeyOf(publisher, d, extension, t) ==
    [publisher |-> publisher, year |-> Year(t), id |-> d, extension |-> extension]

ExtensionMatchesMimeType(extension, mimeType) ==
    extension \in ExtensionsByType[mimeType]

\* An unparsable publisher id or an extension that is not one of the MIME
\* type's: nothing is allocated or stored.
RefuseCreate(c) ==
    /\ stage[c] = "idle"
    /\ \E publisher \in PublisherIDs \cup {MalformedID},
          mimeType \in MimeTypes, extension \in Extensions :
          \/ publisher = MalformedID
          \/ ~ ExtensionMatchesMimeType(extension, mimeType)
    /\ Return(c, ErrorAnswer("INVALID_ARGUMENT"))
    /\ UNCHANGED <<tableVars, objects, volumes, historyVars, now>>

\* The request is valid: allocate an id, derive the key, build newDoc.
BeginCreate(c) ==
    /\ stage[c] = "idle"
    /\ \E publisher \in PublisherIDs, annotations \in Annotations,
          mimeType \in MimeTypes, size \in Sizes,
          extension \in Extensions, d \in DocumentIDs \ usedIDs :
          /\ ExtensionMatchesMimeType(extension, mimeType)
          /\ usedIDs' = usedIDs \cup {d}
          /\ doc' = [doc EXCEPT ![c] =
                [id |-> d, publisher |-> publisher, annotations |-> annotations,
                 completed |-> FALSE,
                 mimeType |-> mimeType, size |-> size, volume |-> "default",
                 key |-> StorageKeyOf(publisher, d, extension, now), version |-> 0]]
    /\ stage' = [stage EXCEPT ![c] = "insert"]
    /\ UNCHANGED <<tableVars, objects, volumes, wanted, answer, urls, acked, born, now>>

\* The INSERT commits.  The handler reads the returned row, or loses the
\* connection before it has read it and reports an internal error.
Insert(c) ==
    /\ stage[c] = "insert"
    /\ InsertAccepted(doc[c])
    /\ InsertDocument(doc[c])
    /\ born' = [d \in DOMAIN born \cup {doc[c].id} |->
                   IF d = doc[c].id THEN InsertedRow(doc[c]) ELSE born[d]]
    /\ \/ Return(c, DocumentAnswer(doc[c].id))
       \/ Return(c, ErrorAnswer("INTERNAL"))
    /\ UNCHANGED <<publishers, objects, volumes, usedIDs, urls, acked, now>>

\* A forgotten early return: the client is told of a document that is not there.
InsertFails_IgnoresError(c) ==
    /\ stage[c] = "insert"
    /\ Return(c, DocumentAnswer(doc[c].id))
    /\ UNCHANGED <<tableVars, objects, volumes, historyVars, now>>

\* No UUID could be generated, a constraint refuses the INSERT (a publisher that
\* is not there, annotations that are not flat), or the database is out of reach.
InsertFails(c) ==
    /\ stage[c] = "insert"
    /\ Return(c, ErrorAnswer("INTERNAL"))
    /\ UNCHANGED <<tableVars, objects, volumes, historyVars, now>>

(***************************************************************************)
(* CreateDocumentUploadUrl.                                                *)
(***************************************************************************)
RefuseUploadUrl(c) ==
    /\ stage[c] = "idle"
    /\ Return(c, ErrorAnswer("INVALID_ARGUMENT"))
    /\ UNCHANGED <<tableVars, objects, volumes, historyVars, now>>

BeginUploadUrl(c) ==
    /\ stage[c] = "idle"
    /\ Cardinality(urls) < MaxUrls
    /\ \E d \in DocumentIDs : wanted' = [wanted EXCEPT ![c] = d]
    /\ stage' = [stage EXCEPT ![c] = "load"]
    /\ UNCHANGED <<tableVars, objects, volumes, doc, answer, historyVars, now>>

\* GetDocument(ctx, id, nil) returns the row.
Load(c) ==
    /\ stage[c] = "load"
    /\ wanted[c] \in DOMAIN documents
    /\ doc' = [doc EXCEPT ![c] = documents[wanted[c]]]
    /\ stage' = [stage EXCEPT ![c] = "presign"]
    /\ UNCHANGED <<tableVars, objects, volumes, wanted, answer, historyVars, now>>

\* No row (pgx.ErrNoRows) and a database that cannot be reached are the same
\* internal error.
LoadFails(c) ==
    /\ stage[c] = "load"
    /\ Return(c, ErrorAnswer("INTERNAL"))
    /\ UNCHANGED <<tableVars, objects, volumes, historyVars, now>>

\* Everything after the read works on the Document that was read.
UploadUrlFor_RebuildsKey(d, t) ==
    LET adapter == VolumeManager(volumes)[d.volume]
        key == StorageKeyOf(d.publisher, d.id, d.key.extension, t)
    IN  [request |-> PresignedPut(adapter, [d EXCEPT !.key = key], t),
         expiresAt |-> t + UploadUrlLifetime]

UploadUrlFor(d, t) ==
    LET adapter == VolumeManager(volumes)[d.volume]
    IN  [request |-> PresignedPut(adapter, d, t), expiresAt |-> t + UploadUrlLifetime]

\* GetAdapter finds the document's volume, and its adapter can sign.
CanPresign(d) ==
    /\ d.volume \in DOMAIN VolumeManager(volumes)
    /\ Presignable(VolumeManager(volumes)[d.volume])

Presign(c) ==
    /\ stage[c] = "presign"
    /\ ~ doc[c].completed
    /\ CanPresign(doc[c])
    /\ Return(c, UrlAnswer(UploadUrlFor(doc[c], now)))
    /\ UNCHANGED <<tableVars, objects, volumes, historyVars, now>>

RefuseCompleted(c) ==
    /\ stage[c] = "presign"
    /\ doc[c].completed
    /\ Return(c, ErrorAnswer("FAILED_PRECONDITION"))
    /\ UNCHANGED <<tableVars, objects, volumes, historyVars, now>>

\* The volume is not registered, or its credentials are empty.
PresignFails(c) ==
    /\ stage[c] = "presign"
    /\ ~ doc[c].completed
    /\ ~ CanPresign(doc[c])
    /\ Return(c, ErrorAnswer("INTERNAL"))
    /\ UNCHANGED <<tableVars, objects, volumes, historyVars, now>>

(***************************************************************************)
(* The end of a request: the response arrives, or the client has given up  *)
(* (its context is cancelled, the write timeout has closed its connection) *)
(* at whatever point the handler had reached.                              *)
(***************************************************************************)
Deliver(c) ==
    /\ stage[c] = "return"
    /\ urls' = IF answer[c].kind = "url" THEN urls \cup {answer[c].url} ELSE urls
    /\ acked' = IF answer[c].kind = "document" THEN acked \cup {answer[c].id} ELSE acked
    /\ Finish(c)
    /\ UNCHANGED <<tableVars, objects, volumes, usedIDs, born, now>>

GiveUp(c) ==
    /\ stage[c] # "idle"
    /\ Finish(c)
    /\ UNCHANGED <<tableVars, objects, volumes, historyVars, now>>

-----------------------------------------------------------------------------

(***************************************************************************)
(* The other actors.                                                       *)
(***************************************************************************)

\* A client sends a file to a URL it holds, as often as it likes.
UploadFile ==
    /\ \E u \in urls, f \in Files :
          PutAccepted(u.request, f, now) /\ PutObject(u.request, f)
    /\ UNCHANGED <<tableVars, volumes, handlerVars, historyVars, now>>

\* A caller of DocumentRepository.UpdateDocument, whatever it has changed in the
\* Document it holds.
CompleteUpload ==
    /\ \E d \in DOMAIN documents, completed \in BOOLEAN, size \in Sizes,
          mimeType \in MimeTypes :
          /\ documents[d].version < MaxVersion
          /\ UpdateDocument([documents[d] EXCEPT !.completed = completed, !.size = size,
                                                 !.mimeType = mimeType])
    /\ UNCHANGED <<publishers, objects, volumes, handlerVars, historyVars, now>>

RemovePublisher ==
    /\ \E p \in PublisherIDs : DeletePublisher(p)
    /\ UNCHANGED <<objects, volumes, handlerVars, historyVars, now>>

Tick ==
    /\ now < MaxTime
    /\ now' = now + 1
    /\ UNCHANGED <<tableVars, objects, volumes, handlerVars, historyVars>>

\* The process stops, with every request in flight, and starts again.
Restart ==
    /\ volumes' \in Configurations
    /\ stage' = [c \in Handlers |-> "idle"]
    /\ wanted' = [c \in Handlers |-> MalformedID]
    /\ doc' = [c \in Handlers |-> NoDocument]
    /\ answer' = [c \in Handlers |-> NoAnswer]
    /\ UNCHANGED <<tableVars, objects, historyVars, now>>

-----------------------------------------------------------------------------

Handler(c) ==
    \/ RefuseCreate(c) \/ BeginCreate(c) \/ Insert(c) \/ InsertFails(c)
    \/ RefuseUploadUrl(c) \/ BeginUploadUrl(c) \/ Load(c) \/ LoadFails(c)
    \/ Presign(c) \/ RefuseCompleted(c) \/ PresignFails(c)
    \/ Deliver(c) \/ GiveUp(c)

Next ==
    \/ \E c \in Handlers : Handler(c)
    \/ UploadFile \/ CompleteUpload \/ RemovePublisher \/ Tick \/ Restart

Spec == Init /\ [][Next]_vars

-----------------------------------------------------------------------------

(***************************************************************************)
(* Properties.                                                             *)
(***************************************************************************)

Stages == {"idle", "insert", "load", "presign", "return"}

\* The values the variables take.
TypeOK ==
    /\ publishers \in SUBSET PublisherIDs
    /\ DOMAIN documents \in SUBSET DocumentIDs
    /\ \A d \in DOMAIN documents : documents[d] \in Document
    /\ DOMAIN objects \in SUBSET (VolumeNames \X StorageKey)
    /\ \A l \in DOMAIN objects : objects[l] \in Files
    /\ volumes \in Configurations
    /\ stage \in [Handlers -> Stages]
    /\ wanted \in [Handlers -> DocumentIDs \cup {MalformedID}]
    /\ doc \in [Handlers -> Document \cup {NoDocument}]
    /\ answer \in [Handlers -> Answers]
    /\ usedIDs \in SUBSET DocumentIDs
    /\ urls \in SUBSET UploadUrl
    /\ acked \in SUBSET DocumentIDs
    /\ DOMAIN born \in SUBSET DocumentIDs
    /\ \A d \in DOMAIN born : born[d] \in Document
    /\ now \in Nat

\* Two documents never share a place in the object storage, not even one that
\* is still being inserted or one that was deleted (buildStorageKey).
OneLocationPerDocument ==
    LET known == {born[d] : d \in DOMAIN born}
                     \cup {doc[c] : c \in {h \in Handlers : stage[h] \in {"insert", "presign"}}}
    IN  \A x, y \in known : Location(x) = Location(y) => x.id = y.id

\* A file in the object storage lies where some stored document's file belongs
\* and has the MIME type that document declared, whenever it was uploaded and
\* whatever URL it went through.
FilesMatchTheirDocuments ==
    \A l \in DOMAIN objects :
        \E d \in DOMAIN born :
            Location(born[d]) = l /\ objects[l].mimeType = born[d].mimeType

\* "They always belong to a Publisher" (docs/.../reference/data-model.md:19),
\* whatever deletion of the publisher races with the creation.
BelongsToPublisher ==
    \A d \in DOMAIN documents : documents[d].publisher \in publishers

Kept(d) ==
    /\ d \in DOMAIN born
    /\ d \in DOMAIN documents \/ born[d].publisher \notin publishers

\* A document whose creation was acknowledged is still there after restarts,
\* lost responses and retries, unless its publisher was deleted.
AcknowledgedDocumentsAreKept == \A d \in acked : Kept(d)

\* A URL that a client holds leads to the place of its document, as it was
\* derived when the document was created, and asks for the declared type.
UrlsLeadToTheirDocument ==
    \A u \in urls :
        \E d \in DOMAIN born :
            /\ Location(born[d]) = Location(u.request)
            /\ born[d].mimeType = u.request.mimeType

\* Once a file is stored no upload replaces it, whatever URLs are still out.
FilesAreWriteOnce ==
    [][\A l \in DOMAIN objects : l \in DOMAIN objects' /\ objects'[l] = objects[l]]_vars

\* publisher and file_mime_type are "immutable once set" (document.proto:29 and
\* :41); the place of the file never moves either.
IdentityIsImmutable ==
    \A d \in DOMAIN documents :
        /\ documents[d].publisher = born[d].publisher
        /\ documents[d].mimeType = born[d].mimeType
        /\ Location(documents[d]) = Location(born[d])

-----------------------------------------------------------------------------

(***************************************************************************)
(* The service implements FileRegistry: a document is registered by its    *)
(* INSERT, its file is the object at its location.                         *)
(***************************************************************************)
Stored == {d \in DOMAIN born : Location(born[d]) \in DOMAIN objects}

Registry == INSTANCE FileRegistry WITH
    registered <- [d \in DOMAIN born |-> born[d].mimeType],
    files <- [d \in Stored |-> objects[Location(born[d])]]

ImplementsFileRegistry == Registry!Spec

-----------------------------------------------------------------------------

(***************************************************************************)
(* The inductive invariant behind these properties.                        *)
(***************************************************************************)

\* A handler about to insert or to sign holds a Document, one about to load an id.
HandlersHoldDocuments ==
    \A c \in Handlers :
        /\ stage[c] \in {"insert", "presign"} => doc[c] \in Document
        /\ stage[c] = "load" => wanted[c] \in DocumentIDs

SameFile(x, y) ==
    /\ x.id = y.id /\ x.publisher = y.publisher
    /\ x.mimeType = y.mimeType /\ Location(x) = Location(y)

\* A generated id names one document, which carries it in its storage key.
IDsIdentifyDocuments ==
    /\ DOMAIN documents \subseteq DOMAIN born
    /\ DOMAIN born \subseteq usedIDs
    /\ \A d \in DOMAIN born : born[d].id = d /\ born[d].key.id = d
    /\ \A d \in DOMAIN documents : SameFile(documents[d], born[d])

\* A document being inserted is new, and no other handler is inserting it.
InsertsAreNew ==
    \A c \in Handlers : stage[c] = "insert" =>
        /\ doc[c].id \in usedIDs \ DOMAIN born
        /\ doc[c].key.id = doc[c].id
        /\ \A h \in Handlers \ {c} : stage[h] = "insert" => doc[h].id # doc[c].id

\* A copy a handler has read is out of date only in what updates may change.
CopiesKeepTheFile ==
    \A c \in Handlers : stage[c] = "presign" =>
        doc[c].id \in DOMAIN born /\ SameFile(doc[c], born[doc[c].id])

\* A request signs every header, for the place and the type of some document.
SignedForADocument(request) ==
    /\ request.signed = Headers
    /\ \E d \in DOMAIN born :
          /\ Location(born[d]) = Location(request)
          /\ born[d].mimeType = request.mimeType

UrlsAreSigned == \A u \in urls : SignedForADocument(u.request)

UrlAnswersAreSigned ==
    \A c \in Handlers : answer[c].kind = "url" => SignedForADocument(answer[c].url.request)

\* What the client was told, or is about to be told, is there.
DocumentAnswersAreKept ==
    \A c \in Handlers : answer[c].kind = "document" => Kept(answer[c].id)

Invariant ==
    /\ TypeOK
    /\ HandlersHoldDocuments
    /\ IDsIdentifyDocuments
    /\ InsertsAreNew
    /\ CopiesKeepTheFile
    /\ UrlsAreSigned
    /\ UrlAnswersAreSigned
    /\ FilesMatchTheirDocuments
    /\ BelongsToPublisher
    /\ AcknowledgedDocumentsAreKept
    /\ DocumentAnswersAreKept

-----------------------------------------------------------------------------

(***************************************************************************)
(* What the documentation says and the code does not do.                   *)
(***************************************************************************)

\* "creates a new Presigned Upload URL for the Document that can be used to
\* upload the File directly to S3" (document.go:195): a URL just signed takes
\* the document's file as long as none is stored.
FreshUrlIsUsable ==
    \A u \in urls, f \in Files :
        /\ now = u.request.signedAt
        /\ Location(u.request) \notin DOMAIN objects
        /\ f.mimeType = u.request.mimeType /\ f.size = u.request.size
        => PutAccepted(u.request, f, now)

\* expires_at (document.proto:133): until then the URL takes the document's file.
UrlIsUsableUntilItExpires ==
    \A u \in urls, f \in Files :
        /\ now < u.expiresAt
        /\ Location(u.request) \notin DOMAIN objects
        /\ f.mimeType = u.request.mimeType /\ f.size = u.request.size
        => PutAccepted(u.request, f, now)

=============================================================================
