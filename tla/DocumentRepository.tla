-------------------------- MODULE DocumentRepository --------------------------
(***************************************************************************)
(* The callers of DocumentRepository (internal/cortex/repository/          *)
(* document.go): each holds a copy of a document it has read, changes it   *)
(* and writes it back while others do the same.  The version column is     *)
(* meant for optimistic concurrency locking (api/exonex/api/v1/meta.proto, *)
(* line 22); this module asks what it can be used for.                     *)
(*                                                                         *)
(* No mask leaves columns out of a copy: BuildProjection refuses all masks. *)
(***************************************************************************)
EXTENDS DocumentTable, Sequences

CONSTANTS
    Callers,
    NoCopy,        \* the caller holds no document
    NewDocuments,  \* the Documents callers may create
    MaxUpdates     \* bound: how often a document is updated

ASSUME RepositoryAssumption ==
    /\ NewDocuments \subseteq Document
    /\ NoCopy \notin Document
    /\ MaxUpdates \in Nat

VARIABLES
    copy,       \* the Document each caller holds
    rows,       \* for each id, every row the table has had under it, oldest first
    basedOn     \* for each id, the version of the copy each row was written from

vars == <<tableVars, copy, rows, basedOn>>

-----------------------------------------------------------------------------

Init ==
    /\ publishers = PublisherIDs
    /\ documents = << >>
    /\ copy = [c \in Callers |-> NoCopy]
    /\ rows = [d \in DocumentIDs |-> << >>]
    /\ basedOn = [d \in DocumentIDs |-> << >>]

\* The statement returns the row it wrote.  The caller gets it, or an error
\* when the connection breaks first, and keeps the copy it had.
Returning(c, d) ==
    \/ copy' = [copy EXCEPT ![c] = documents'[d]]
    \/ UNCHANGED copy

\* The history of document d goes on with its new row, written from version v.
Record(d, v) ==
    /\ rows' = [rows EXCEPT ![d] = Append(@, documents'[d])]
    /\ basedOn' = [basedOn EXCEPT ![d] = Append(@, v)]

\* CreateDocument, with an id no document has had.
CreateDocument(c) ==
    /\ \E d \in NewDocuments :
          /\ rows[d.id] = << >>
          /\ InsertAccepted(d)
          /\ InsertDocument(d)
          /\ Record(d.id, 0)
          /\ Returning(c, d.id)
    /\ UNCHANGED publishers

\* GetDocument; or ListDocuments, of whose rows the caller goes on with one.
GetDocument(c) ==
    /\ \E d \in DOMAIN documents : copy' = [copy EXCEPT ![c] = documents[d]]
    /\ UNCHANGED <<tableVars, rows, basedOn>>

\* UpdateDocument with the copy, in which the caller has set the columns that
\* say whether the upload is completed, how large the file is and what it holds.
Update(c) ==
    /\ copy[c] # NoCopy
    /\ UpdateAccepted(copy[c])
    /\ Len(rows[copy[c].id]) <= MaxUpdates
    /\ \E completed \in BOOLEAN, size \in Sizes, mimeType \in MimeTypes :
          UpdateDocument([copy[c] EXCEPT !.completed = completed, !.size = size,
                                         !.mimeType = mimeType])
    /\ Record(copy[c].id, copy[c].version)
    /\ Returning(c, copy[c].id)
    /\ UNCHANGED publishers

\* The row is gone: RETURNING is empty, CollectExactlyOneRow reports ErrNoRows.
UpdateFindsNoRow(c) ==
    /\ copy[c] # NoCopy
    /\ ~ UpdateAccepted(copy[c])
    /\ copy' = [copy EXCEPT ![c] = NoCopy]
    /\ UNCHANGED <<tableVars, rows, basedOn>>

RemovePublisher ==
    /\ \E p \in PublisherIDs : DeletePublisher(p)
    /\ UNCHANGED <<copy, rows, basedOn>>

Next ==
    \/ \E c \in Callers :
          CreateDocument(c) \/ GetDocument(c) \/ Update(c) \/ UpdateFindsNoRow(c)
    \/ RemovePublisher

Spec == Init /\ [][Next]_vars

-----------------------------------------------------------------------------

TypeOK ==
    /\ publishers \in SUBSET PublisherIDs
    /\ DOMAIN documents \in SUBSET DocumentIDs
    /\ \A d \in DOMAIN documents : documents[d] \in Document
    /\ copy \in [Callers -> Document \cup {NoCopy}]
    /\ rows \in [DocumentIDs -> Seq(Document)]
    /\ basedOn \in [DocumentIDs -> Seq(Nat)]

\* The version is "an increasing counter" (meta.proto:22): it counts the rows the
\* document has had, whatever stale copies the updates were made from.
VersionCountsUpdates ==
    \A d \in DOMAIN documents :
        /\ documents[d].version = Len(rows[d])
        /\ documents[d] = rows[d][documents[d].version]

\* Id and version identify the contents: a caller that compares the version it
\* holds with another caller's, or with the table's, learns whether they agree.
VersionIdentifiesCopy ==
    \A c \in Callers : copy[c] # NoCopy =>
        /\ copy[c].version \in DOMAIN rows[copy[c].id]
        /\ copy[c] = rows[copy[c].id][copy[c].version]

SameIdentity(x, y) ==
    /\ x.id = y.id /\ x.publisher = y.publisher /\ x.mimeType = y.mimeType
    /\ x.volume = y.volume /\ x.key = y.key

\* What an update does not write, its caller's copy cannot bring back or change:
\* all rows of a document agree on everything but completion, size and version.
UpdatesKeepIdentity ==
    \A d \in DocumentIDs : \A i, j \in DOMAIN rows[d] : SameIdentity(rows[d][i], rows[d][j])

-----------------------------------------------------------------------------

(***************************************************************************)
(* The inductive invariant behind these properties.                        *)
(***************************************************************************)

\* Rows are filed under their id; a document in the table has a history.
RowsAreFiled ==
    /\ \A d \in DocumentIDs : \A i \in DOMAIN rows[d] : rows[d][i].id = d
    /\ \A d \in DOMAIN documents : rows[d] # << >>

Invariant ==
    /\ TypeOK
    /\ VersionCountsUpdates
    /\ VersionIdentifiesCopy
    /\ UpdatesKeepIdentity
    /\ RowsAreFiled

-----------------------------------------------------------------------------

\* "An increasing counter that is used for optimistic concurrency locking"
\* (meta.proto:22): an update is made only from the latest version.  It is not:
\* UPDATE ... WHERE id = $1 does not look at the version.
NoLostUpdate ==
    \A d \in DocumentIDs : \A i \in DOMAIN basedOn[d] : basedOn[d][i] = i - 1

=============================================================================
