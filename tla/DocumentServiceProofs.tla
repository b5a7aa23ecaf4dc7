----------------------- MODULE DocumentServiceProofs -----------------------
(***************************************************************************)
(* Theorems about DocumentService, for every value of its constants.       *)
(***************************************************************************)
EXTENDS DocumentService, TLAPS

-----------------------------------------------------------------------------

(***************************************************************************)
(* Lemmas about the operators.                                             *)
(***************************************************************************)

\* The year of a natural time is a natural number (time.Now().Year()).
LEMMA YearType ==
    ASSUME NEW t \in Nat
    PROVE  Year(t) \in Nat
BY ServiceAssumption DEF Year

\* buildStorageKey makes a storage key, which carries the document's id.
LEMMA StorageKeyType ==
    ASSUME NEW p \in PublisherIDs, NEW d \in DocumentIDs, NEW e \in Extensions,
           NEW t \in Nat
    PROVE  /\ StorageKeyOf(p, d, e, t) \in StorageKey
           /\ StorageKeyOf(p, d, e, t).id = d
BY YearType DEF StorageKeyOf, StorageKey

\* The row an INSERT stores is a Document with the same file.
LEMMA InsertedRowType ==
    ASSUME NEW x \in Document
    PROVE  /\ InsertedRow(x) \in Document
           /\ SameFile(InsertedRow(x), x)
           /\ InsertedRow(x).key = x.key
BY DEF InsertedRow, Document, SameFile, Location

\* The row an UPDATE stores is a Document with the same file.
LEMMA UpdatedRowType ==
    ASSUME NEW x \in Document, NEW y, y.completed \in BOOLEAN, y.size \in Sizes
    PROVE  UpdatedRow(x, y) \in Document /\ SameFile(UpdatedRow(x, y), x)
<1>1. x.version + 1 \in Nat
  BY DEF Document
<1> QED
  BY <1>1 DEF UpdatedRow, Document, SameFile, Location

\* Every registered adapter holds two credentials.
LEMMA AdapterType ==
    ASSUME volumes \in Configurations,
           NEW name \in DOMAIN VolumeManager(volumes)
    PROVE  VolumeManager(volumes)[name] \in Adapter
BY ServiceAssumption
   DEF VolumeManager, RegisterVolume, NewAdapter, Adapter, VolumeConfig

\* CreateDocumentUploadURL answers with a request for the place and the type of
\* the Document it was given, with every header signed.
LEMMA UploadUrlType ==
    ASSUME volumes \in Configurations,
           NEW x \in Document, x.volume \in DOMAIN VolumeManager(volumes),
           NEW t \in Nat
    PROVE  /\ UploadUrlFor(x, t) \in UploadUrl
           /\ UploadUrlFor(x, t).request.signed = Headers
           /\ Location(UploadUrlFor(x, t).request) = Location(x)
           /\ UploadUrlFor(x, t).request.mimeType = x.mimeType
<1> DEFINE adapter == VolumeManager(volumes)[x.volume]
<1>1. adapter \in Adapter
  BY AdapterType
<1> HIDE DEF adapter
<1>2. /\ PresignedPut(adapter, x, t) \in PresignedRequest
      /\ PresignedPut(adapter, x, t).signed = Headers
      /\ Location(PresignedPut(adapter, x, t)) = Location(x)
      /\ PresignedPut(adapter, x, t).mimeType = x.mimeType
  BY <1>1 DEF PresignedPut, PresignedRequest, Document, Location
<1>3. UploadUrlFor(x, t) = [request |-> PresignedPut(adapter, x, t),
                            expiresAt |-> t + UploadUrlLifetime]
  BY DEF UploadUrlFor, adapter
<1>4. t + UploadUrlLifetime \in Nat
  BY ServiceAssumption
<1> QED
  BY <1>2, <1>3, <1>4 DEF UploadUrl

-----------------------------------------------------------------------------

(***************************************************************************)
(* Type correctness.  A step that answers or ends a request leaves the     *)
(* handlers well typed.                                                    *)
(***************************************************************************)

HandlersTypeOK ==
    /\ stage \in [Handlers -> Stages]
    /\ wanted \in [Handlers -> DocumentIDs \cup {MalformedID}]
    /\ doc \in [Handlers -> Document \cup {NoDocument}]
    /\ answer \in [Handlers -> Answers]
    /\ HandlersHoldDocuments

LEMMA ReturnType ==
    ASSUME HandlersTypeOK, NEW c \in Handlers, NEW a \in Answers, Return(c, a)
    PROVE  HandlersTypeOK'
BY DEF HandlersTypeOK, HandlersHoldDocuments, Return, Stages

LEMMA FinishType ==
    ASSUME HandlersTypeOK, NEW c \in Handlers, Finish(c)
    PROVE  HandlersTypeOK'
BY DEF HandlersTypeOK, HandlersHoldDocuments, Finish, Stages, Answers

\* Init establishes the types.
LEMMA InitType == Init => TypeOK /\ HandlersHoldDocuments
<1> SUFFICES ASSUME Init PROVE TypeOK /\ HandlersHoldDocuments
  OBVIOUS
<1>1. /\ stage \in [Handlers -> Stages]
      /\ answer \in [Handlers -> Answers]
  BY DEF Init, Stages, Answers
<1>2. /\ wanted \in [Handlers -> DocumentIDs \cup {MalformedID}]
      /\ doc \in [Handlers -> Document \cup {NoDocument}]
  BY DEF Init
<1>3. HandlersHoldDocuments
  BY DEF Init, HandlersHoldDocuments
<1> QED
  BY <1>1, <1>2, <1>3 DEF Init, TypeOK

\* Every step of every actor preserves the types.
LEMMA NextType ==
    ASSUME TypeOK, HandlersHoldDocuments, [Next]_vars
    PROVE  TypeOK' /\ HandlersHoldDocuments'
<1> USE DEF TypeOK
<1>0. HandlersTypeOK
  BY DEF HandlersTypeOK
<1>1. ASSUME NEW c \in Handlers, Handler(c) PROVE TypeOK' /\ HandlersHoldDocuments'
  <2> \A e \in ErrorKinds : ErrorAnswer(e) \in Answers
    BY DEF ErrorAnswer, Answers
  <2> {"INVALID_ARGUMENT", "FAILED_PRECONDITION", "INTERNAL"} \subseteq ErrorKinds
    BY DEF ErrorKinds
  <2>1. CASE \/ RefuseCreate(c) \/ InsertFails(c) \/ RefuseUploadUrl(c)
             \/ LoadFails(c) \/ RefuseCompleted(c) \/ PresignFails(c)
    <3>1. HandlersTypeOK'
      BY <1>0, <2>1, ReturnType
         DEF RefuseCreate, InsertFails, RefuseUploadUrl, LoadFails, RefuseCompleted,
             PresignFails
    <3> QED
      BY <3>1, <2>1
         DEF HandlersTypeOK, RefuseCreate, InsertFails, RefuseUploadUrl, LoadFails,
             RefuseCompleted, PresignFails, tableVars, historyVars
  <2>2. CASE BeginCreate(c)
    <3>1. PICK publisher \in PublisherIDs, annotations \in Annotations,
               mimeType \in MimeTypes, size \in Sizes,
               extension \in Extensions, d \in DocumentIDs \ usedIDs :
             /\ usedIDs' = usedIDs \cup {d}
             /\ doc' = [doc EXCEPT ![c] =
                  [id |-> d, publisher |-> publisher, annotations |-> annotations,
                   completed |-> FALSE, mimeType |-> mimeType, size |-> size, volume |-> "default",
                   key |-> StorageKeyOf(publisher, d, extension, now), version |-> 0]]
      BY <2>2 DEF BeginCreate
    <3>2. StorageKeyOf(publisher, d, extension, now) \in StorageKey
      BY StorageKeyType
    <3>3. [id |-> d, publisher |-> publisher, annotations |-> annotations,
           completed |-> FALSE, mimeType |-> mimeType, size |-> size, volume |-> "default",
           key |-> StorageKeyOf(publisher, d, extension, now), version |-> 0] \in Document
      BY <3>2, ServiceAssumption DEF Document
    <3>4. doc' \in [Handlers -> Document \cup {NoDocument}] /\ doc'[c] \in Document
      BY <3>1, <3>3
    <3>5. stage' = [stage EXCEPT ![c] = "insert"]
      BY <2>2 DEF BeginCreate
    <3>6. HandlersHoldDocuments'
      BY <3>1, <3>4, <3>5, <2>2 DEF HandlersHoldDocuments, BeginCreate
    <3> QED
      BY <3>1, <3>4, <3>5, <3>6, <2>2 DEF BeginCreate, tableVars, Stages
  <2>3. CASE Insert(c)
    <3>1. doc[c] \in Document /\ InsertedRow(doc[c]) \in Document
      BY <2>3, InsertedRowType DEF Insert, HandlersHoldDocuments
    <3>2. doc[c].id \in DocumentIDs
      BY <3>1 DEF Document
    <3>3. DocumentAnswer(doc[c].id) \in Answers
      BY <3>2 DEF DocumentAnswer, Answers
    <3>4. HandlersTypeOK'
      BY <1>0, <2>3, <3>3, ReturnType DEF Insert
    <3>5. /\ DOMAIN documents' \in SUBSET DocumentIDs
          /\ \A d \in DOMAIN documents' : documents'[d] \in Document
      BY <2>3, <3>1, <3>2 DEF Insert, InsertDocument
    <3>6. /\ DOMAIN born' \in SUBSET DocumentIDs
          /\ \A d \in DOMAIN born' : born'[d] \in Document
      BY <2>3, <3>1, <3>2 DEF Insert
    <3> QED
      BY <2>3, <3>4, <3>5, <3>6 DEF HandlersTypeOK, Insert
  <2>4. CASE BeginUploadUrl(c)
    BY <2>4 DEF BeginUploadUrl, HandlersHoldDocuments, Stages, tableVars, historyVars
  <2>5. CASE Load(c)
    BY <2>5 DEF Load, HandlersHoldDocuments, Stages, tableVars, historyVars
  <2>6. CASE Presign(c)
    <3>1. UploadUrlFor(doc[c], now) \in UploadUrl
      BY <2>6, UploadUrlType DEF Presign, CanPresign, HandlersHoldDocuments
    <3>2. UrlAnswer(UploadUrlFor(doc[c], now)) \in Answers
      BY <3>1 DEF UrlAnswer, Answers
    <3>3. HandlersTypeOK'
      BY <1>0, <2>6, <3>2, ReturnType DEF Presign
    <3> QED
      BY <2>6, <3>3 DEF HandlersTypeOK, Presign, tableVars, historyVars
  <2>7. CASE Deliver(c)
    <3>1. HandlersTypeOK'
      BY <1>0, <2>7, FinishType DEF Deliver
    <3>2. urls' \in SUBSET UploadUrl /\ acked' \in SUBSET DocumentIDs
      BY <2>7, answer[c] \in Answers DEF Deliver, Answers, NoAnswer
    <3> QED
      BY <2>7, <3>1, <3>2 DEF HandlersTypeOK, Deliver, tableVars
  <2>8. CASE GiveUp(c)
    <3>1. HandlersTypeOK'
      BY <1>0, <2>8, FinishType DEF GiveUp
    <3> QED
      BY <2>8, <3>1 DEF HandlersTypeOK, GiveUp, tableVars, historyVars
  <2> QED
    BY <1>1, <2>1, <2>2, <2>3, <2>4, <2>5, <2>6, <2>7, <2>8 DEF Handler
<1>2. CASE UploadFile
  <2>1. PICK u \in urls, f \in Files : PutObject(u.request, f)
    BY <1>2 DEF UploadFile
  <2>2. Location(u.request) \in VolumeNames \X StorageKey
    BY DEF UploadUrl, PresignedRequest, Location
  <2>3. /\ DOMAIN objects' \in SUBSET (VolumeNames \X StorageKey)
        /\ \A l \in DOMAIN objects' : objects'[l] \in Files
    BY <2>1, <2>2 DEF PutObject
  <2> QED
    BY <1>2, <2>3
       DEF UploadFile, HandlersHoldDocuments, tableVars, handlerVars, historyVars
<1>3. CASE CompleteUpload
  <2>1. PICK d \in DOMAIN documents, completed \in BOOLEAN, size \in Sizes,
             mimeType \in MimeTypes :
           UpdateDocument([documents[d] EXCEPT !.completed = completed, !.size = size,
                                               !.mimeType = mimeType])
    BY <1>3 DEF CompleteUpload
  <2> DEFINE y == [documents[d] EXCEPT !.completed = completed, !.size = size,
                                     !.mimeType = mimeType]
  <2>2. y.completed \in BOOLEAN /\ y.size \in Sizes /\ y.id = documents[d].id
    BY DEF Document
  <2> HIDE DEF y
  <2>3. documents' = [documents EXCEPT ![y.id] = UpdatedRow(documents[y.id], y)]
    BY <2>1 DEF UpdateDocument, y
  <2>4. y.id \in DOMAIN documents => UpdatedRow(documents[y.id], y) \in Document
    BY <2>2, UpdatedRowType
  <2>5. /\ DOMAIN documents' \in SUBSET DocumentIDs
        /\ \A e \in DOMAIN documents' : documents'[e] \in Document
    BY <2>3, <2>4
  <2> QED
    BY <1>3, <2>5 DEF CompleteUpload, HandlersHoldDocuments, handlerVars, historyVars
<1>4. CASE RemovePublisher
  BY <1>4
     DEF RemovePublisher, DeletePublisher, HandlersHoldDocuments, handlerVars, historyVars
<1>5. CASE Tick
  BY <1>5, ServiceAssumption
     DEF Tick, HandlersHoldDocuments, tableVars, handlerVars, historyVars
<1>6. CASE Restart
  BY <1>6 DEF Restart, HandlersHoldDocuments, tableVars, historyVars, Stages, Answers
<1>7. CASE UNCHANGED vars
  BY <1>7 DEF vars, HandlersHoldDocuments, tableVars
<1> QED
  BY <1>1, <1>2, <1>3, <1>4, <1>5, <1>6, <1>7 DEF Next

\* The variables keep their types in every behaviour of the service.
THEOREM TypeCorrect == Spec => []TypeOK
<1>1. TypeOK /\ HandlersHoldDocuments /\ [Next]_vars => (TypeOK /\ HandlersHoldDocuments)'
  BY NextType
<1> QED
  BY InitType, <1>1, PTL DEF Spec

-----------------------------------------------------------------------------

(***************************************************************************)
(* The invariant.  First, what a step leaves alone stays true: as long as  *)
(* the documents ever stored keep their first value, a request signed for  *)
(* one of them stays so.                                                   *)
(***************************************************************************)

BornGrows ==
    /\ DOMAIN born \subseteq DOMAIN born'
    /\ \A d \in DOMAIN born : born'[d] = born[d]

LEMMA SignedForADocumentStands ==
    ASSUME NEW request, SignedForADocument(request), BornGrows
    PROVE  \E d \in DOMAIN born' :
              /\ Location(born'[d]) = Location(request)
              /\ born'[d].mimeType = request.mimeType
BY DEF SignedForADocument, BornGrows

\* A step that changes neither the tables nor the objects keeps what the
\* invariant says of them.
LEMMA TablesStand ==
    ASSUME Invariant, UNCHANGED <<tableVars, objects, usedIDs, born>>
    PROVE  IDsIdentifyDocuments' /\ FilesMatchTheirDocuments' /\ BelongsToPublisher'
BY DEF Invariant, IDsIdentifyDocuments, FilesMatchTheirDocuments, BelongsToPublisher,
       tableVars, SameFile, Location

\* A handler that answers with an error, or ends, has nothing left to promise.
LEMMA HandlerLetsGo ==
    ASSUME Invariant, TypeOK', NEW c \in Handlers,
           UNCHANGED <<tableVars, objects, usedIDs, born>>,
           \/ \E e \in ErrorKinds : Return(c, ErrorAnswer(e))
           \/ Finish(c)
    PROVE  /\ InsertsAreNew' /\ CopiesKeepTheFile'
           /\ UrlAnswersAreSigned' /\ DocumentAnswersAreKept'
<1> USE DEF Invariant, TypeOK
<1>1. /\ stage'[c] \in {"return", "idle"}
      /\ answer'[c].kind \in {"error", "none"}
      /\ \A h \in Handlers \ {c} :
            stage'[h] = stage[h] /\ doc'[h] = doc[h] /\ answer'[h] = answer[h]
  BY DEF Return, Finish, ErrorAnswer, NoAnswer
<1>2. InsertsAreNew'
  BY <1>1 DEF InsertsAreNew
<1>3. CopiesKeepTheFile'
  BY <1>1 DEF CopiesKeepTheFile, SameFile, Location
<1>4. UrlAnswersAreSigned'
  BY <1>1 DEF UrlAnswersAreSigned, SignedForADocument, Location
<1>5. DocumentAnswersAreKept'
  BY <1>1 DEF DocumentAnswersAreKept, Kept, tableVars
<1> QED
  BY <1>2, <1>3, <1>4, <1>5

\* The steps of a handler that change no table, no object and no history.
LEMMA QuietStep ==
    ASSUME Invariant, TypeOK', HandlersHoldDocuments', NEW c \in Handlers,
           \/ \E e \in ErrorKinds : Return(c, ErrorAnswer(e))
           \/ Finish(c),
           UNCHANGED <<tableVars, objects, historyVars>>
    PROVE  Invariant'
<1> USE DEF historyVars
<1>1. IDsIdentifyDocuments' /\ FilesMatchTheirDocuments' /\ BelongsToPublisher'
  BY TablesStand
<1>2. /\ InsertsAreNew' /\ CopiesKeepTheFile'
      /\ UrlAnswersAreSigned' /\ DocumentAnswersAreKept'
  BY HandlerLetsGo
<1>3. UrlsAreSigned' /\ AcknowledgedDocumentsAreKept'
  BY DEF Invariant, UrlsAreSigned, SignedForADocument, Location,
         AcknowledgedDocumentsAreKept, Kept, tableVars
<1> QED
  BY <1>1, <1>2, <1>3 DEF Invariant

LEMMA BeginCreateKeepsInvariant ==
    ASSUME Invariant, TypeOK', HandlersHoldDocuments', NEW c \in Handlers, BeginCreate(c)
    PROVE  Invariant'
<1> USE DEF Invariant, TypeOK
<1>1. PICK d \in DocumentIDs \ usedIDs :
         usedIDs' = usedIDs \cup {d} /\ doc'[c].id = d /\ doc'[c].key.id = d
  BY StorageKeyType DEF BeginCreate
<1>2. /\ stage'[c] = "insert" /\ answer' = answer
      /\ \A h \in Handlers \ {c} : stage'[h] = stage[h] /\ doc'[h] = doc[h]
      /\ UNCHANGED <<publishers, documents, objects, born, urls, acked>>
  BY DEF BeginCreate, tableVars
<1>3. InsertsAreNew'
  BY <1>1, <1>2 DEF InsertsAreNew, IDsIdentifyDocuments
<1>4. CopiesKeepTheFile'
  BY <1>2 DEF CopiesKeepTheFile, SameFile, Location
<1>5. IDsIdentifyDocuments'
  BY <1>1, <1>2 DEF IDsIdentifyDocuments, SameFile, Location
<1>6. UrlsAreSigned' /\ UrlAnswersAreSigned' /\ FilesMatchTheirDocuments'
  BY <1>2 DEF UrlsAreSigned, UrlAnswersAreSigned, SignedForADocument,
              FilesMatchTheirDocuments, Location
<1>7. BelongsToPublisher' /\ AcknowledgedDocumentsAreKept' /\ DocumentAnswersAreKept'
  BY <1>2 DEF BelongsToPublisher, AcknowledgedDocumentsAreKept, DocumentAnswersAreKept, Kept
<1> QED
  BY <1>3, <1>4, <1>5, <1>6, <1>7

LEMMA InsertKeepsInvariant ==
    ASSUME Invariant, TypeOK', HandlersHoldDocuments', NEW c \in Handlers, Insert(c)
    PROVE  Invariant'
<1> USE DEF Invariant, TypeOK
<1> DEFINE n == doc[c].id
           row == InsertedRow(doc[c])
<1>1. /\ n \in usedIDs \ DOMAIN born
      /\ row.id = n /\ row.key.id = n /\ row.publisher \in publishers
      /\ row \in Document /\ SameFile(row, row)
  BY InsertedRowType
     DEF Insert, InsertAccepted, InsertsAreNew, HandlersHoldDocuments, SameFile
<1>2. /\ DOMAIN born' = DOMAIN born \cup {n} /\ born'[n] = row
      /\ \A d \in DOMAIN born : born'[d] = born[d]
      /\ DOMAIN documents' = DOMAIN documents \cup {n} /\ documents'[n] = row
      /\ \A d \in DOMAIN documents \ {n} : documents'[d] = documents[d]
      /\ UNCHANGED <<publishers, objects, usedIDs, urls, acked>>
  BY <1>1 DEF Insert, InsertDocument
<1>3. /\ stage'[c] = "return"
      /\ \A h \in Handlers \ {c} :
            stage'[h] = stage[h] /\ doc'[h] = doc[h] /\ answer'[h] = answer[h]
      /\ \/ answer'[c].kind = "error"
         \/ answer'[c].kind = "document" /\ answer'[c].id = n
  BY DEF Insert, Return, ErrorAnswer, DocumentAnswer
<1> HIDE DEF n, row
<1>4. BornGrows
  BY <1>2 DEF BornGrows
<1>5. IDsIdentifyDocuments'
  BY <1>1, <1>2 DEF IDsIdentifyDocuments, SameFile, Location
<1>6. InsertsAreNew'
  <2>1. \A h \in Handlers \ {c} : stage[h] = "insert" => doc[h].id # n
    BY DEF Insert, InsertsAreNew, n
  <2> QED
    BY <1>2, <1>3, <2>1 DEF InsertsAreNew
<1>7. CopiesKeepTheFile'
  BY <1>2, <1>3 DEF CopiesKeepTheFile, SameFile, Location
<1>8. UrlsAreSigned'
  BY <1>2, <1>4, SignedForADocumentStands DEF UrlsAreSigned, SignedForADocument, Location
<1>9. UrlAnswersAreSigned'
  BY <1>3, <1>4, SignedForADocumentStands DEF UrlAnswersAreSigned, SignedForADocument, Location
<1>10. FilesMatchTheirDocuments'
  BY <1>2 DEF FilesMatchTheirDocuments, Location
<1>11. BelongsToPublisher'
  BY <1>1, <1>2 DEF BelongsToPublisher
<1>12. AcknowledgedDocumentsAreKept' /\ DocumentAnswersAreKept'
  BY <1>2, <1>3 DEF AcknowledgedDocumentsAreKept, DocumentAnswersAreKept, Kept
<1> QED
  BY <1>5, <1>6, <1>7, <1>8, <1>9, <1>10, <1>11, <1>12

LEMMA LoadKeepsInvariant ==
    ASSUME Invariant, TypeOK', HandlersHoldDocuments', NEW c \in Handlers,
           BeginUploadUrl(c) \/ Load(c)
    PROVE  Invariant'
<1> USE DEF Invariant, TypeOK
<1>1. /\ UNCHANGED <<tableVars, objects, historyVars, answer>>
      /\ \A h \in Handlers \ {c} : stage'[h] = stage[h] /\ doc'[h] = doc[h]
      /\ stage'[c] \in {"load", "presign"}
  BY DEF BeginUploadUrl, Load
<1>2. IDsIdentifyDocuments' /\ FilesMatchTheirDocuments' /\ BelongsToPublisher'
  BY <1>1, TablesStand DEF historyVars
<1>3. InsertsAreNew'
  BY <1>1 DEF InsertsAreNew, historyVars
<1>4. CopiesKeepTheFile'
  <2>1. stage'[c] = "presign" => doc'[c].id \in DOMAIN born /\ SameFile(doc'[c], born[doc'[c].id])
    BY DEF BeginUploadUrl, Load, IDsIdentifyDocuments, SameFile, Location
  <2> QED
    BY <1>1, <2>1 DEF CopiesKeepTheFile, SameFile, Location, historyVars
<1>5. UrlsAreSigned' /\ UrlAnswersAreSigned'
  BY <1>1 DEF UrlsAreSigned, UrlAnswersAreSigned, SignedForADocument, Location, historyVars
<1>6. AcknowledgedDocumentsAreKept' /\ DocumentAnswersAreKept'
  BY <1>1 DEF AcknowledgedDocumentsAreKept, DocumentAnswersAreKept, Kept, historyVars, tableVars
<1> QED
  BY <1>2, <1>3, <1>4, <1>5, <1>6

LEMMA PresignKeepsInvariant ==
    ASSUME Invariant, TypeOK', HandlersHoldDocuments', NEW c \in Handlers, Presign(c)
    PROVE  Invariant'
<1> USE DEF Invariant, TypeOK
<1>1. /\ UNCHANGED <<tableVars, objects, historyVars>>
      /\ stage'[c] = "return"
      /\ \A h \in Handlers \ {c} :
            stage'[h] = stage[h] /\ doc'[h] = doc[h] /\ answer'[h] = answer[h]
      /\ answer'[c] = UrlAnswer(UploadUrlFor(doc[c], now))
  BY DEF Presign, Return
<1>2. IDsIdentifyDocuments' /\ FilesMatchTheirDocuments' /\ BelongsToPublisher'
  BY <1>1, TablesStand DEF historyVars
<1>3. InsertsAreNew' /\ CopiesKeepTheFile'
  BY <1>1 DEF InsertsAreNew, CopiesKeepTheFile, SameFile, Location, historyVars
<1>4. UrlAnswersAreSigned'
  <2> DEFINE r == UploadUrlFor(doc[c], now).request
             d == doc[c].id
  <2>1. /\ r.signed = Headers /\ r.mimeType = doc[c].mimeType
        /\ Location(r) = Location(doc[c])
    BY UploadUrlType DEF Presign, CanPresign, HandlersHoldDocuments
  <2>2. /\ d \in DOMAIN born /\ Location(born[d]) = Location(doc[c])
        /\ born[d].mimeType = doc[c].mimeType
    BY DEF Presign, CopiesKeepTheFile, SameFile
  <2>3. answer'[c].url.request = r
    BY <1>1 DEF UrlAnswer
  <2> HIDE DEF r, d
  <2>4. \E e \in DOMAIN born : Location(born[e]) = Location(r) /\ born[e].mimeType = r.mimeType
    BY <2>1, <2>2
  <2> QED
    BY <1>1, <2>1, <2>3, <2>4
       DEF UrlAnswersAreSigned, SignedForADocument, Location, historyVars
<1>5. UrlsAreSigned'
  BY <1>1 DEF UrlsAreSigned, SignedForADocument, Location, historyVars
<1>6. AcknowledgedDocumentsAreKept' /\ DocumentAnswersAreKept'
  BY <1>1 DEF AcknowledgedDocumentsAreKept, DocumentAnswersAreKept, Kept, historyVars,
              tableVars, UrlAnswer
<1> QED
  BY <1>2, <1>3, <1>4, <1>5, <1>6

LEMMA DeliverKeepsInvariant ==
    ASSUME Invariant, TypeOK', HandlersHoldDocuments', NEW c \in Handlers, Deliver(c)
    PROVE  Invariant'
<1> USE DEF Invariant
<1>1. Finish(c) /\ UNCHANGED <<tableVars, objects, usedIDs, born>>
  BY DEF Deliver
<1>2. IDsIdentifyDocuments' /\ FilesMatchTheirDocuments' /\ BelongsToPublisher'
  BY <1>1, TablesStand
<1>3. /\ InsertsAreNew' /\ CopiesKeepTheFile'
      /\ UrlAnswersAreSigned' /\ DocumentAnswersAreKept'
  BY <1>1, HandlerLetsGo
<1>4. UrlsAreSigned'
  BY <1>1 DEF Deliver, UrlsAreSigned, UrlAnswersAreSigned, SignedForADocument, Location
<1>5. AcknowledgedDocumentsAreKept'
  BY <1>1 DEF Deliver, AcknowledgedDocumentsAreKept, DocumentAnswersAreKept, Kept, tableVars
<1> QED
  BY <1>2, <1>3, <1>4, <1>5

\* The steps of the other actors that change no handler.
LEMMA HandlersStand ==
    ASSUME Invariant, TypeOK', HandlersHoldDocuments',
           UNCHANGED <<publishers, stage, wanted, doc, answer, usedIDs, urls, acked, born>>,
           DOMAIN documents' = DOMAIN documents
    PROVE  /\ InsertsAreNew' /\ CopiesKeepTheFile'
           /\ UrlsAreSigned' /\ UrlAnswersAreSigned'
           /\ AcknowledgedDocumentsAreKept' /\ DocumentAnswersAreKept'
<1> USE DEF Invariant
<1>1. InsertsAreNew' /\ CopiesKeepTheFile'
  BY DEF InsertsAreNew, CopiesKeepTheFile, SameFile, Location
<1>2. UrlsAreSigned' /\ UrlAnswersAreSigned'
  BY DEF UrlsAreSigned, UrlAnswersAreSigned, SignedForADocument, Location
<1>3. AcknowledgedDocumentsAreKept' /\ DocumentAnswersAreKept'
  BY DEF AcknowledgedDocumentsAreKept, DocumentAnswersAreKept, Kept
<1> QED
  BY <1>1, <1>2, <1>3

LEMMA UploadFileKeepsInvariant ==
    ASSUME Invariant, TypeOK', HandlersHoldDocuments', UploadFile
    PROVE  Invariant'
<1> USE DEF Invariant
<1>1. PICK u \in urls, f \in Files :
         PutAccepted(u.request, f, now) /\ PutObject(u.request, f)
  BY DEF UploadFile
<1>2. UNCHANGED <<tableVars, handlerVars, historyVars>>
  BY DEF UploadFile
<1>3. /\ InsertsAreNew' /\ CopiesKeepTheFile'
      /\ UrlsAreSigned' /\ UrlAnswersAreSigned'
      /\ AcknowledgedDocumentsAreKept' /\ DocumentAnswersAreKept'
  BY <1>2, HandlersStand DEF tableVars, handlerVars, historyVars
<1>4. IDsIdentifyDocuments' /\ BelongsToPublisher'
  BY <1>2 DEF IDsIdentifyDocuments, BelongsToPublisher, SameFile, Location, tableVars,
              historyVars
<1>5. FilesMatchTheirDocuments'
  <2>1. PICK d \in DOMAIN born :
           Location(born[d]) = Location(u.request) /\ born[d].mimeType = u.request.mimeType
    BY DEF UrlsAreSigned, SignedForADocument
  <2>2. f.mimeType = u.request.mimeType
    BY <1>1 DEF PutAccepted, UrlsAreSigned, SignedForADocument, Headers
  <2>3. /\ DOMAIN objects' = DOMAIN objects \cup {Location(u.request)}
        /\ objects'[Location(u.request)] = f
        /\ \A l \in DOMAIN objects : l # Location(u.request) => objects'[l] = objects[l]
    BY <1>1 DEF PutObject
  <2>4. born' = born
    BY <1>2 DEF historyVars
  <2> QED
    BY <2>1, <2>2, <2>3, <2>4 DEF FilesMatchTheirDocuments, Location
<1> QED
  BY <1>3, <1>4, <1>5

LEMMA CompleteUploadKeepsInvariant ==
    ASSUME Invariant, TypeOK', HandlersHoldDocuments', CompleteUpload
    PROVE  Invariant'
<1> USE DEF Invariant, TypeOK
<1>1. PICK d \in DOMAIN documents, completed \in BOOLEAN, size \in Sizes,
           mimeType \in MimeTypes :
         UpdateDocument([documents[d] EXCEPT !.completed = completed, !.size = size,
                                             !.mimeType = mimeType])
  BY DEF CompleteUpload
<1> DEFINE y == [documents[d] EXCEPT !.completed = completed, !.size = size,
                                     !.mimeType = mimeType]
<1>2. y.completed \in BOOLEAN /\ y.size \in Sizes /\ y.id = d
  BY DEF Document, IDsIdentifyDocuments, SameFile
<1> HIDE DEF y
<1>3. documents' = [documents EXCEPT ![d] = UpdatedRow(documents[d], y)]
  BY <1>1, <1>2 DEF UpdateDocument, y
<1>4. \A e \in DOMAIN documents : SameFile(documents'[e], documents[e])
  BY <1>2, <1>3, UpdatedRowType DEF SameFile
<1>5. /\ UNCHANGED <<publishers, objects, handlerVars, historyVars>>
      /\ DOMAIN documents' = DOMAIN documents
  BY <1>3 DEF CompleteUpload
<1>6. /\ InsertsAreNew' /\ CopiesKeepTheFile'
      /\ UrlsAreSigned' /\ UrlAnswersAreSigned'
      /\ AcknowledgedDocumentsAreKept' /\ DocumentAnswersAreKept'
  BY <1>5, HandlersStand DEF handlerVars, historyVars
<1>7. IDsIdentifyDocuments' /\ BelongsToPublisher'
  BY <1>4, <1>5 DEF IDsIdentifyDocuments, BelongsToPublisher, SameFile, Location, historyVars
<1>8. FilesMatchTheirDocuments'
  BY <1>5 DEF FilesMatchTheirDocuments, Location, historyVars
<1> QED
  BY <1>6, <1>7, <1>8

LEMMA RemovePublisherKeepsInvariant ==
    ASSUME Invariant, TypeOK', HandlersHoldDocuments', RemovePublisher
    PROVE  Invariant'
<1> USE DEF Invariant
<1>1. PICK p \in PublisherIDs : DeletePublisher(p)
  BY DEF RemovePublisher
<1>2. /\ publishers' = publishers \ {p}
      /\ DOMAIN documents' = {e \in DOMAIN documents : documents[e].publisher # p}
      /\ \A e \in DOMAIN documents' : documents'[e] = documents[e]
      /\ UNCHANGED <<objects, handlerVars, historyVars>>
  BY <1>1 DEF RemovePublisher, DeletePublisher
<1>3. IDsIdentifyDocuments' /\ BelongsToPublisher'
  BY <1>2 DEF IDsIdentifyDocuments, BelongsToPublisher, SameFile, Location, historyVars
<1>4. InsertsAreNew' /\ CopiesKeepTheFile'
  BY <1>2 DEF InsertsAreNew, CopiesKeepTheFile, SameFile, Location, handlerVars, historyVars
<1>5. UrlsAreSigned' /\ UrlAnswersAreSigned' /\ FilesMatchTheirDocuments'
  BY <1>2 DEF UrlsAreSigned, UrlAnswersAreSigned, SignedForADocument,
              FilesMatchTheirDocuments, Location, handlerVars, historyVars
<1>6. AcknowledgedDocumentsAreKept' /\ DocumentAnswersAreKept'
  <2>1. \A d : Kept(d) => Kept(d)'
    BY <1>2 DEF Kept, IDsIdentifyDocuments, SameFile, historyVars
  <2> QED
    BY <1>2, <2>1
       DEF AcknowledgedDocumentsAreKept, DocumentAnswersAreKept, Kept, handlerVars, historyVars
<1> QED
  BY <1>3, <1>4, <1>5, <1>6

LEMMA RestartKeepsInvariant ==
    ASSUME Invariant, TypeOK', HandlersHoldDocuments', Restart
    PROVE  Invariant'
<1> USE DEF Invariant
<1>1. IDsIdentifyDocuments' /\ FilesMatchTheirDocuments' /\ BelongsToPublisher'
  BY TablesStand DEF Restart, historyVars
<1>2. \A c \in Handlers : stage'[c] = "idle" /\ answer'[c].kind = "none"
  BY DEF Restart, NoAnswer
<1>3. /\ InsertsAreNew' /\ CopiesKeepTheFile'
      /\ UrlAnswersAreSigned' /\ DocumentAnswersAreKept'
  BY <1>2 DEF InsertsAreNew, CopiesKeepTheFile, UrlAnswersAreSigned, DocumentAnswersAreKept
<1>4. UrlsAreSigned' /\ AcknowledgedDocumentsAreKept'
  BY DEF Restart, UrlsAreSigned, SignedForADocument, AcknowledgedDocumentsAreKept, Kept,
         Location, historyVars, tableVars
<1> QED
  BY <1>1, <1>3, <1>4

LEMMA TickKeepsInvariant ==
    ASSUME Invariant, TypeOK', HandlersHoldDocuments', Tick \/ UNCHANGED vars
    PROVE  Invariant'
<1> USE DEF Invariant
<1>1. UNCHANGED <<tableVars, objects, handlerVars, historyVars>>
  BY DEF Tick, vars, handlerVars, historyVars
<1>2. /\ InsertsAreNew' /\ CopiesKeepTheFile'
      /\ UrlsAreSigned' /\ UrlAnswersAreSigned'
      /\ AcknowledgedDocumentsAreKept' /\ DocumentAnswersAreKept'
  BY <1>1, HandlersStand DEF tableVars, handlerVars, historyVars
<1>3. IDsIdentifyDocuments' /\ FilesMatchTheirDocuments' /\ BelongsToPublisher'
  BY <1>1, TablesStand DEF historyVars
<1> QED
  BY <1>2, <1>3

LEMMA NextKeepsInvariant == Invariant /\ [Next]_vars => Invariant'
<1> SUFFICES ASSUME Invariant, [Next]_vars PROVE Invariant'
  OBVIOUS
<1>1. TypeOK' /\ HandlersHoldDocuments'
  BY NextType DEF Invariant
<1>2. ASSUME NEW c \in Handlers, Handler(c) PROVE Invariant'
  <2> {"INVALID_ARGUMENT", "FAILED_PRECONDITION", "INTERNAL"} \subseteq ErrorKinds
    BY DEF ErrorKinds
  <2>1. CASE \/ RefuseCreate(c) \/ InsertFails(c) \/ RefuseUploadUrl(c)
             \/ LoadFails(c) \/ RefuseCompleted(c) \/ PresignFails(c) \/ GiveUp(c)
    <3>1. /\ \/ \E e \in ErrorKinds : Return(c, ErrorAnswer(e))
             \/ Finish(c)
          /\ UNCHANGED <<tableVars, objects, historyVars>>
      BY <2>1 DEF RefuseCreate, InsertFails, RefuseUploadUrl, LoadFails, RefuseCompleted,
                  PresignFails, GiveUp
    <3> QED
      BY <1>1, <3>1, QuietStep
  <2> QED
    BY <1>1, <1>2, <2>1, BeginCreateKeepsInvariant, InsertKeepsInvariant,
       LoadKeepsInvariant, PresignKeepsInvariant, DeliverKeepsInvariant
       DEF Handler
<1> QED
  BY <1>1, <1>2, UploadFileKeepsInvariant, CompleteUploadKeepsInvariant,
     RemovePublisherKeepsInvariant, RestartKeepsInvariant, TickKeepsInvariant
     DEF Next

LEMMA InitInvariant == Init => Invariant
<1> SUFFICES ASSUME Init PROVE Invariant
  OBVIOUS
<1>1. TypeOK /\ HandlersHoldDocuments
  BY InitType
<1>2. /\ documents = << >> /\ objects = << >> /\ born = << >>
      /\ urls = {} /\ acked = {}
      /\ \A c \in Handlers : stage[c] = "idle" /\ answer[c].kind = "none"
  BY DEF Init, NoAnswer
<1>3. DOMAIN documents = {} /\ DOMAIN objects = {} /\ DOMAIN born = {}
  BY <1>2
<1> QED
  BY <1>1, <1>2, <1>3
     DEF Invariant, IDsIdentifyDocuments, InsertsAreNew, CopiesKeepTheFile, UrlsAreSigned,
         UrlAnswersAreSigned, FilesMatchTheirDocuments, BelongsToPublisher,
         AcknowledgedDocumentsAreKept, DocumentAnswersAreKept

\* Documents, copies, URLs, files and acknowledgements stay consistent with
\* each other, whatever the handlers, the clients and restarts do.
THEOREM InvariantHolds == Spec => []Invariant
BY InitInvariant, NextKeepsInvariant, PTL DEF Spec

-----------------------------------------------------------------------------

(***************************************************************************)
(* What follows from the invariant.                                        *)
(***************************************************************************)

LEMMA LocationsAreDistinct ==
    ASSUME Invariant
    PROVE  /\ OneLocationPerDocument
           /\ \A d, e \in DOMAIN born : Location(born[d]) = Location(born[e]) => d = e
BY DEF Invariant, OneLocationPerDocument, IDsIdentifyDocuments, InsertsAreNew,
       CopiesKeepTheFile, SameFile, Location

\* No two documents ever share a place in the object storage.
THEOREM OneLocation == Spec => []OneLocationPerDocument
BY InvariantHolds, LocationsAreDistinct, PTL

\* A stored file is the file of the document whose place it takes.
THEOREM FilesMatch == Spec => []FilesMatchTheirDocuments
<1>1. Invariant => FilesMatchTheirDocuments
  BY DEF Invariant
<1> QED
  BY InvariantHolds, <1>1, PTL

\* Documents belong to a publisher that exists.
THEOREM Belongs == Spec => []BelongsToPublisher
<1>1. Invariant => BelongsToPublisher
  BY DEF Invariant
<1> QED
  BY InvariantHolds, <1>1, PTL

\* Acknowledged documents outlive everything but their publisher.
THEOREM Durable == Spec => []AcknowledgedDocumentsAreKept
<1>1. Invariant => AcknowledgedDocumentsAreKept
  BY DEF Invariant
<1> QED
  BY InvariantHolds, <1>1, PTL

\* An upload URL leads to the place of its document.
THEOREM UrlsLead == Spec => []UrlsLeadToTheirDocument
<1>1. Invariant => UrlsLeadToTheirDocument
  BY DEF Invariant, UrlsAreSigned, SignedForADocument, UrlsLeadToTheirDocument
<1> QED
  BY InvariantHolds, <1>1, PTL

\* Publisher, MIME type and place of a document never change.
THEOREM IdentityHolds == Spec => []IdentityIsImmutable
<1>1. Invariant => IdentityIsImmutable
  BY DEF Invariant, IDsIdentifyDocuments, SameFile, IdentityIsImmutable
<1> QED
  BY InvariantHolds, <1>1, PTL

-----------------------------------------------------------------------------

(***************************************************************************)
(* Steps that store no document and no file leave both alone.              *)
(***************************************************************************)
LEMMA OtherSteps ==
    ASSUME [Next]_vars
    PROVE  \/ \E c \in Handlers : Insert(c)
           \/ UploadFile
           \/ UNCHANGED <<objects, born>>
BY DEF Next, Handler, vars, RefuseCreate, BeginCreate, InsertFails, RefuseUploadUrl,
       BeginUploadUrl, Load, LoadFails, Presign, RefuseCompleted, PresignFails, Deliver,
       GiveUp, CompleteUpload, RemovePublisher, Tick, Restart, historyVars

\* An upload only ever fills an empty place.
LEMMA UploadFillsAnEmptyPlace ==
    ASSUME Invariant, UploadFile
    PROVE  \E u \in urls, f \in Files, d \in DOMAIN born :
              /\ Location(born[d]) = Location(u.request)
              /\ born[d].mimeType = f.mimeType
              /\ Location(born[d]) \notin DOMAIN objects
              /\ objects' = [l \in DOMAIN objects \cup {Location(born[d])} |->
                                IF l = Location(born[d]) THEN f ELSE objects[l]]
              /\ born' = born
<1>1. PICK u \in urls, f \in Files :
         PutAccepted(u.request, f, now) /\ PutObject(u.request, f)
  BY DEF UploadFile
<1>2. PICK d \in DOMAIN born :
         Location(born[d]) = Location(u.request) /\ born[d].mimeType = u.request.mimeType
  BY DEF Invariant, UrlsAreSigned, SignedForADocument
<1>3. u.request.signed = Headers
  BY DEF Invariant, UrlsAreSigned, SignedForADocument
<1>4. Location(u.request) \notin DOMAIN objects /\ f.mimeType = u.request.mimeType
  BY <1>1, <1>3 DEF PutAccepted, Headers
<1>5. objects' = [l \in DOMAIN objects \cup {Location(u.request)} |->
                     IF l = Location(u.request) THEN f ELSE objects[l]]
  BY <1>1 DEF PutObject
<1>6. born' = born
  BY DEF UploadFile, historyVars
<1> QED
  BY <1>2, <1>4, <1>5, <1>6

\* No upload replaces a stored file, and none is removed.
THEOREM WriteOnce == Spec => FilesAreWriteOnce
<1>1. Invariant /\ [Next]_vars =>
         [\A l \in DOMAIN objects : l \in DOMAIN objects' /\ objects'[l] = objects[l]]_vars
  <2> SUFFICES ASSUME Invariant, [Next]_vars
               PROVE  \A l \in DOMAIN objects : l \in DOMAIN objects' /\ objects'[l] = objects[l]
    OBVIOUS
  <2>1. CASE UploadFile
    BY <2>1, UploadFillsAnEmptyPlace
  <2>2. CASE \E c \in Handlers : Insert(c)
    BY <2>2 DEF Insert
  <2> QED
    BY <2>1, <2>2, OtherSteps
<1> QED
  BY InvariantHolds, <1>1, PTL DEF Spec, FilesAreWriteOnce

-----------------------------------------------------------------------------

(***************************************************************************)
(* The service implements FileRegistry.                                    *)
(***************************************************************************)

registered == [d \in DOMAIN born |-> born[d].mimeType]
files == [d \in Stored |-> objects[Location(born[d])]]

\* An INSERT registers the document, and no file is at its place yet.
LEMMA InsertRegisters ==
    ASSUME Invariant, NEW c \in Handlers, Insert(c)
    PROVE  Registry!Next
<1>1. /\ doc[c] \in Document /\ InsertedRow(doc[c]) \in Document
      /\ InsertedRow(doc[c]).key = doc[c].key
  BY InsertedRowType DEF Insert, Invariant, HandlersHoldDocuments
<1>2. PICK n \in DocumentIDs, row \in Document :
         n = doc[c].id /\ row = InsertedRow(doc[c])
  BY <1>1 DEF Document
<1>3. n \notin DOMAIN born /\ row.key.id = n /\ row.mimeType \in MimeTypes
  BY <1>1, <1>2 DEF Insert, Invariant, InsertsAreNew, Document
<1>4. /\ born' = [d \in DOMAIN born \cup {n} |-> IF d = n THEN row ELSE born[d]]
      /\ objects' = objects
  BY <1>2 DEF Insert
<1>5. Location(row) \notin DOMAIN objects
  <2>1. \A d \in DOMAIN born : Location(born[d]) # Location(row)
    BY <1>3 DEF Invariant, IDsIdentifyDocuments, Location
  <2> QED
    BY <2>1 DEF Invariant, FilesMatchTheirDocuments
<1>6. DOMAIN born' = DOMAIN born \cup {n} /\ born'[n] = row
      /\ \A d \in DOMAIN born : born'[d] = born[d]
  BY <1>3, <1>4
<1>7. registered' = [e \in DOMAIN registered \cup {n} |->
                        IF e = n THEN row.mimeType ELSE registered[e]]
  BY <1>3, <1>6 DEF registered
<1>8. files' = files
  <2>1. Stored' = Stored
    BY <1>3, <1>4, <1>5, <1>6 DEF Stored, Location
  <2>2. \A d \in Stored : objects'[Location(born'[d])] = objects[Location(born[d])]
    BY <1>4, <1>6 DEF Stored, Location
  <2> QED
    BY <2>1, <2>2 DEF files, Location
<1>9. n \notin DOMAIN registered
  BY <1>3 DEF registered
<1>10. Registry!Register(n, row.mimeType)
  BY <1>7, <1>8, <1>9 DEF Registry!Register, registered, files
<1> QED
  BY <1>3, <1>10 DEF Registry!Next

\* An upload stores the file of exactly one document.
LEMMA UploadStores ==
    ASSUME Invariant, UploadFile
    PROVE  Registry!Next
<1>1. PICK f \in Files, d \in DOMAIN born :
         /\ born[d].mimeType = f.mimeType
         /\ Location(born[d]) \notin DOMAIN objects
         /\ objects' = [l \in DOMAIN objects \cup {Location(born[d])} |->
                           IF l = Location(born[d]) THEN f ELSE objects[l]]
         /\ born' = born
  BY UploadFillsAnEmptyPlace
<1>2. \A e \in DOMAIN born : Location(born[e]) = Location(born[d]) => e = d
  BY LocationsAreDistinct
<1>3. Stored' = Stored \cup {d} /\ d \notin Stored
  BY <1>1, <1>2 DEF Stored, Location
<1>4. files' = [e \in DOMAIN files \cup {d} |-> IF e = d THEN f ELSE files[e]]
  <2>1. \A e \in Stored' :
           objects'[Location(born'[e])] = IF e = d THEN f ELSE objects[Location(born[e])]
    BY <1>1, <1>2, <1>3 DEF Stored, Location
  <2> QED
    BY <1>3, <2>1 DEF files, Location
<1>5. registered' = registered
  BY <1>1 DEF registered
<1>6. d \in DOMAIN registered \ DOMAIN files /\ registered[d] = f.mimeType
  BY <1>1, <1>3 DEF registered, files
<1>7. Registry!Store(d, f)
  BY <1>4, <1>5, <1>6 DEF Registry!Store, registered, files
<1>8. d \in DocumentIDs /\ f \in Registry!Files
  BY DEF Invariant, TypeOK, Files, Registry!Files
<1> QED
  BY <1>7, <1>8 DEF Registry!Next

\* Seen through the documents ever stored and the objects at their places, the
\* service behaves as the file registry.
THEOREM Implementation == Spec => ImplementsFileRegistry
<1>1. Init => Registry!Init
  <2> SUFFICES ASSUME Init PROVE Registry!Init
    OBVIOUS
  <2>1. born = << >> /\ DOMAIN born = {}
    BY DEF Init
  <2>2. Stored = {}
    BY <2>1 DEF Stored
  <2> QED
    BY <2>1, <2>2 DEF Registry!Init
<1>2. Invariant /\ [Next]_vars => [Registry!Next]_<<registered, files>>
  <2> SUFFICES ASSUME Invariant, [Next]_vars
               PROVE  Registry!Next \/ UNCHANGED <<registered, files>>
    OBVIOUS
  <2>1. CASE UNCHANGED <<objects, born>>
    <3>1. registered' = registered
      BY <2>1 DEF registered
    <3>2. files' = files
      BY <2>1 DEF files, Stored, Location
    <3> QED
      BY <3>1, <3>2
  <2> QED
    BY <2>1, OtherSteps, InsertRegisters, UploadStores
<1> QED
  BY InvariantHolds, <1>1, <1>2, PTL
     DEF Spec, ImplementsFileRegistry, Registry!Spec, registered, files

=============================================================================
