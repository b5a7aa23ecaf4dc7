---------------------------- MODULE DocumentTable ----------------------------
(***************************************************************************)
(* The tables cortex.publishers and cortex.documents, and the statements   *)
(* that DocumentRepository (internal/cortex/repository/document.go) runs   *)
(* on them.  Nothing in the program puts a transaction in the context, so  *)
(* every statement commits by itself: one statement is one step.           *)
(*                                                                         *)
(* A Go value domain.Document and a row of the table are the same record.  *)
(* Columns no property tells apart (finalizers, created_at, updated_at and *)
(* deleted_at, which the code never sets) are left out.                    *)
(***************************************************************************)
EXTENDS Integers

CONSTANTS
    DocumentIDs,   \* the UUIDs uuid.NewV7 may return
    PublisherIDs,  \* the UUIDs a caller may name as a publisher
    MimeTypes,
    Extensions,
    Sizes,         \* file sizes in bytes
    VolumeNames,
    Annotations,      \* the JSON objects a document may be annotated with
    FlatAnnotations   \* those that cortex.is_flat_annotation accepts

VARIABLES
    publishers,    \* ids of the rows of cortex.publishers
    documents      \* the rows of cortex.documents, by id

tableVars == <<publishers, documents>>

-----------------------------------------------------------------------------

\* "<publisher>/<year>/<document><extension>", kept apart by its four parts.
StorageKey ==
    [publisher: PublisherIDs, year: Nat, id: DocumentIDs, extension: Extensions]

Document ==
    [id: DocumentIDs,
     publisher: PublisherIDs,
     annotations: Annotations,
     completed: BOOLEAN,
     mimeType: MimeTypes,
     size: Sizes,
     volume: VolumeNames,
     key: StorageKey,
     version: Nat]

-----------------------------------------------------------------------------

(***************************************************************************)
(* INSERT ... RETURNING.  The primary key, the foreign key to publishers   *)
(* and the CHECK on annotations may refuse the statement; the columns it   *)
(* does not name take the defaults of the schema.                          *)
(***************************************************************************)
InsertAccepted_NoForeignKey(doc) ==
    /\ doc.id \notin DOMAIN documents
    /\ doc.annotations \in FlatAnnotations

InsertAccepted(doc) ==
    /\ doc.id \notin DOMAIN documents
    /\ doc.publisher \in publishers
    /\ doc.annotations \in FlatAnnotations

InsertedRow(doc) == [doc EXCEPT !.completed = FALSE, !.version = 1]

InsertDocument(doc) ==
    documents' = [d \in DOMAIN documents \cup {doc.id} |->
                     IF d = doc.id THEN InsertedRow(doc) ELSE documents[d]]

(***************************************************************************)
(* UPDATE ... WHERE id = doc.id RETURNING.  Two columns come from the      *)
(* caller's Document; the version is incremented in the database, and the  *)
(* WHERE clause does not look at doc.version.                              *)
(***************************************************************************)
UpdatedRow_CopiesVersion(row, doc) ==
    [row EXCEPT !.completed = doc.completed,
                !.size = doc.size,
                !.version = doc.version + 1]

UpdatedRow_CountsDown(row, doc) ==
    [row EXCEPT !.completed = doc.completed,
                !.size = doc.size,
                !.version = row.version - 1]

UpdatedRow_AllColumns(row, doc) ==
    [doc EXCEPT !.version = row.version + 1]

UpdatedRow(row, doc) ==
    [row EXCEPT !.completed = doc.completed,
                !.size = doc.size,
                !.version = row.version + 1]

UpdateAccepted(doc) == doc.id \in DOMAIN documents

UpdateDocument(doc) ==
    documents' = [documents EXCEPT ![doc.id] = UpdatedRow(documents[doc.id], doc)]

(***************************************************************************)
(* DELETE of a publisher's row by an SQL client.  No RPC does it; the      *)
(* schema gives it its effect: ON DELETE CASCADE takes the documents along. *)
(***************************************************************************)
DeletePublisher(p) ==
    /\ p \in publishers
    /\ publishers' = publishers \ {p}
    /\ documents' = [d \in {e \in DOMAIN documents : documents[e].publisher # p} |->
                        documents[d]]

=============================================================================
