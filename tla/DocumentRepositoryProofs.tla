---------------------- MODULE DocumentRepositoryProofs ----------------------
(***************************************************************************)
(* Theorems about DocumentRepository, for every value of its constants.    *)
(***************************************************************************)
EXTENDS DocumentRepository, TLAPS

-----------------------------------------------------------------------------

(***************************************************************************)
(* Lemmas about the operators.                                             *)
(***************************************************************************)

\* What appending an element does to a sequence.
LEMMA AppendFacts ==
    ASSUME NEW S, NEW s \in Seq(S), NEW e \in S
    PROVE  /\ Append(s, e) \in Seq(S)
           /\ DOMAIN Append(s, e) = 1 .. Len(s) + 1
           /\ DOMAIN s = 1 .. Len(s) /\ Len(s) \in Nat
           /\ Append(s, e)[Len(s) + 1] = e
           /\ \A i \in DOMAIN s : Append(s, e)[i] = s[i]
           /\ Len(Append(s, e)) = Len(s) + 1
OBVIOUS

\* The row an INSERT stores is the Document, in its first version.
LEMMA InsertedRowType ==
    ASSUME NEW x \in Document
    PROVE  /\ InsertedRow(x) \in Document
           /\ InsertedRow(x).id = x.id
           /\ InsertedRow(x).version = 1
BY DEF InsertedRow, Document

\* The row an UPDATE stores is the next version, with the identity of the last.
LEMMA UpdatedRowType ==
    ASSUME NEW x \in Document, NEW y, y.completed \in BOOLEAN, y.size \in Sizes
    PROVE  /\ UpdatedRow(x, y) \in Document
           /\ SameIdentity(UpdatedRow(x, y), x)
           /\ UpdatedRow(x, y).version = x.version + 1
<1>1. x.version + 1 \in Nat
  BY DEF Document
<1> QED
  BY <1>1 DEF UpdatedRow, Document, SameIdentity

-----------------------------------------------------------------------------

(***************************************************************************)
(* A write of document d appends its new row to the history; it keeps the  *)
(* invariant when the row carries the next version and the identity of the *)
(* rows before it.                                                         *)
(***************************************************************************)
LEMMA WriteKeepsInvariant ==
    ASSUME Invariant, NEW c \in Callers, NEW d \in DocumentIDs, NEW row \in Document,
           NEW v \in Nat,
           row.id = d, row.version = Len(rows[d]) + 1,
           \A i \in DOMAIN rows[d] : SameIdentity(row, rows[d][i]),
           DOMAIN documents' = DOMAIN documents \cup {d},
           documents'[d] = row,
           \A e \in DOMAIN documents \ {d} : documents'[e] = documents[e],
           Record(d, v), Returning(c, d), UNCHANGED publishers
    PROVE  Invariant'
<1> USE DEF Invariant, TypeOK
<1>1. /\ rows' = [rows EXCEPT ![d] = Append(rows[d], row)]
      /\ basedOn' = [basedOn EXCEPT ![d] = Append(basedOn[d], v)]
  BY DEF Record
<1>2. /\ rows' \in [DocumentIDs -> Seq(Document)]
      /\ DOMAIN rows[d] = 1 .. Len(rows[d]) /\ Len(rows[d]) \in Nat
      /\ DOMAIN rows'[d] = 1 .. Len(rows[d]) + 1
      /\ Len(rows'[d]) = Len(rows[d]) + 1
      /\ rows'[d][Len(rows[d]) + 1] = row
      /\ \A i \in DOMAIN rows[d] : rows'[d][i] = rows[d][i]
      /\ \A e \in DocumentIDs \ {d} : rows'[e] = rows[e]
  BY <1>1, AppendFacts
<1>3. basedOn' \in [DocumentIDs -> Seq(Nat)]
  BY <1>1, AppendFacts
<1>4. copy' \in [Callers -> Document \cup {NoCopy}]
  BY DEF Returning
<1>5. TypeOK'
  BY <1>2, <1>3, <1>4
<1>6. VersionCountsUpdates'
  BY <1>2 DEF VersionCountsUpdates
<1>7. PICK n \in Nat :
         /\ DOMAIN rows[d] = 1 .. n /\ DOMAIN rows'[d] = 1 .. n + 1
         /\ rows'[d][n + 1] = row /\ row.version = n + 1
  BY <1>2
<1>8. \A e \in DocumentIDs : \A i \in DOMAIN rows[e] :
         i \in DOMAIN rows'[e] /\ rows'[e][i] = rows[e][i]
  <2> SUFFICES ASSUME NEW e \in DocumentIDs, NEW i \in DOMAIN rows[e]
               PROVE  i \in DOMAIN rows'[e] /\ rows'[e][i] = rows[e][i]
    OBVIOUS
  <2>1. CASE e = d
    BY <1>2, <1>7, <2>1
  <2>2. CASE e # d
    BY <1>2, <2>2
  <2> QED
    BY <2>1, <2>2
<1>9. VersionIdentifiesCopy'
  <2>1. \A h \in Callers : copy'[h] = copy[h] \/ copy'[h] = row
    BY DEF Returning
  <2>2. row.version \in DOMAIN rows'[row.id] /\ row = rows'[row.id][row.version]
    BY <1>7
  <2>3. \A h \in Callers : copy[h] # NoCopy => copy[h].id \in DocumentIDs
    BY DEF Document
  <2> SUFFICES ASSUME NEW h \in Callers, copy'[h] # NoCopy
               PROVE  /\ copy'[h].version \in DOMAIN rows'[copy'[h].id]
                      /\ copy'[h] = rows'[copy'[h].id][copy'[h].version]
    BY DEF VersionIdentifiesCopy
  <2>4. CASE copy'[h] = row
    BY <2>2, <2>4
  <2>5. CASE copy'[h] = copy[h]
    <3>1. /\ copy[h].id \in DocumentIDs
          /\ copy[h].version \in DOMAIN rows[copy[h].id]
          /\ copy[h] = rows[copy[h].id][copy[h].version]
      BY <2>3, <2>5 DEF VersionIdentifiesCopy
    <3> QED
      BY <1>8, <2>5, <3>1
  <2> QED
    BY <2>1, <2>4, <2>5
<1>10. \A e \in DocumentIDs : \A i \in DOMAIN rows'[e] :
          \/ i \in DOMAIN rows[e] /\ rows'[e][i] = rows[e][i]
          \/ e = d /\ rows'[e][i] = row
  <2> SUFFICES ASSUME NEW e \in DocumentIDs, NEW i \in DOMAIN rows'[e]
               PROVE  \/ i \in DOMAIN rows[e] /\ rows'[e][i] = rows[e][i]
                      \/ e = d /\ rows'[e][i] = row
    OBVIOUS
  <2>1. CASE e = d
    <3>1. i \in 1 .. n \/ i = n + 1
      BY <1>7, <2>1
    <3> QED
      BY <1>7, <1>8, <2>1, <3>1
  <2>2. CASE e # d
    BY <1>2, <2>2
  <2> QED
    BY <2>1, <2>2
<1>11. UpdatesKeepIdentity'
  <2> SUFFICES ASSUME NEW e \in DocumentIDs, NEW i \in DOMAIN rows'[e],
                      NEW j \in DOMAIN rows'[e]
               PROVE  SameIdentity(rows'[e][i], rows'[e][j])
    BY DEF UpdatesKeepIdentity, SameIdentity
  <2>1. \A k, l \in DOMAIN rows[e] : SameIdentity(rows[e][k], rows[e][l])
    BY DEF UpdatesKeepIdentity
  <2>2. SameIdentity(row, row) /\ \A k \in DOMAIN rows[d] : SameIdentity(rows[d][k], row)
    BY DEF SameIdentity
  <2>3. \/ i \in DOMAIN rows[e] /\ rows'[e][i] = rows[e][i]
        \/ e = d /\ rows'[e][i] = row
    BY <1>10
  <2>4. \/ j \in DOMAIN rows[e] /\ rows'[e][j] = rows[e][j]
        \/ e = d /\ rows'[e][j] = row
    BY <1>10
  <2> QED
    BY <2>1, <2>2, <2>3, <2>4
<1>12. RowsAreFiled'
  <2>1. \A e \in DocumentIDs : \A i \in DOMAIN rows'[e] : rows'[e][i].id = e
    <3> SUFFICES ASSUME NEW e \in DocumentIDs, NEW i \in DOMAIN rows'[e]
                 PROVE  rows'[e][i].id = e
      OBVIOUS
    <3>1. \A k \in DOMAIN rows[e] : rows[e][k].id = e
      BY DEF RowsAreFiled
    <3> QED
      BY <1>10, <3>1
  <2>2. \A e \in DOMAIN documents' : rows'[e] # << >>
    BY <1>2 DEF RowsAreFiled
  <2> QED
    BY <2>1, <2>2 DEF RowsAreFiled
<1> QED
  BY <1>5, <1>6, <1>9, <1>11, <1>12

LEMMA CreateKeepsInvariant ==
    ASSUME Invariant, NEW c \in Callers, CreateDocument(c)
    PROVE  Invariant'
<1>1. PICK x \in NewDocuments :
         rows[x.id] = << >> /\ InsertDocument(x) /\ Record(x.id, 0) /\ Returning(c, x.id)
  BY DEF CreateDocument
<1>2. x \in Document /\ x.id \in DocumentIDs
  BY RepositoryAssumption DEF Document
<1>3. PICK row \in Document : row = InsertedRow(x) /\ row.id = x.id /\ row.version = 1
  BY <1>2, InsertedRowType
<1>4. /\ DOMAIN documents' = DOMAIN documents \cup {x.id} /\ documents'[x.id] = row
      /\ \A e \in DOMAIN documents \ {x.id} : documents'[e] = documents[e]
  BY <1>1, <1>3 DEF InsertDocument
<1>5. UNCHANGED publishers
  BY DEF CreateDocument
<1> QED
  BY <1>1, <1>2, <1>3, <1>4, <1>5, WriteKeepsInvariant

LEMMA UpdateKeepsInvariant ==
    ASSUME Invariant, NEW c \in Callers, Update(c)
    PROVE  Invariant'
<1> USE DEF Invariant, TypeOK
<1>1. copy[c] \in Document /\ copy[c].id \in DOMAIN documents
  BY DEF Update, UpdateAccepted
<1>2. PICK d \in DOMAIN documents, v \in Nat : d = copy[c].id /\ v = copy[c].version
  BY <1>1 DEF Document
<1>3. PICK completed \in BOOLEAN, size \in Sizes, mimeType \in MimeTypes :
         UpdateDocument([copy[c] EXCEPT !.completed = completed, !.size = size,
                                        !.mimeType = mimeType])
  BY DEF Update
<1> DEFINE y == [copy[c] EXCEPT !.completed = completed, !.size = size,
                                !.mimeType = mimeType]
<1>4. y.completed \in BOOLEAN /\ y.size \in Sizes /\ y.id = d
  BY <1>1, <1>2 DEF Document
<1>5. documents' = [documents EXCEPT ![y.id] = UpdatedRow(documents[y.id], y)]
  BY <1>3 DEF UpdateDocument
<1> HIDE DEF y
<1>6. /\ UpdatedRow(documents[d], y) \in Document
      /\ SameIdentity(UpdatedRow(documents[d], y), documents[d])
      /\ UpdatedRow(documents[d], y).version = documents[d].version + 1
  BY <1>4, UpdatedRowType
<1>7. PICK row \in Document :
         /\ row = UpdatedRow(documents[d], y)
         /\ SameIdentity(row, documents[d])
         /\ row.version = documents[d].version + 1
  BY <1>6
<1>8. /\ DOMAIN documents' = DOMAIN documents \cup {d} /\ documents'[d] = row
      /\ \A e \in DOMAIN documents \ {d} : documents'[e] = documents[e]
  BY <1>4, <1>5, <1>7
<1>9. /\ documents[d].version = Len(rows[d]) /\ rows[d] # << >>
      /\ documents[d] = rows[d][documents[d].version]
      /\ rows[d] \in Seq(Document)
  BY DEF VersionCountsUpdates, RowsAreFiled
<1>10. Len(rows[d]) \in DOMAIN rows[d]
  BY <1>9
<1>11. \A i \in DOMAIN rows[d] : SameIdentity(row, rows[d][i])
  BY <1>7, <1>9, <1>10 DEF UpdatesKeepIdentity, SameIdentity
<1>12. row.id = d
  BY <1>7, <1>9, <1>10 DEF RowsAreFiled, SameIdentity
<1>13. Record(d, v) /\ Returning(c, d) /\ UNCHANGED publishers
  BY <1>2 DEF Update, Record, Returning
<1> QED
  BY <1>7, <1>8, <1>9, <1>11, <1>12, <1>13, WriteKeepsInvariant

LEMMA OthersKeepInvariant ==
    ASSUME Invariant,
           \/ \E c \in Callers : GetDocument(c) \/ UpdateFindsNoRow(c)
           \/ RemovePublisher
           \/ UNCHANGED vars
    PROVE  Invariant'
<1> USE DEF Invariant, TypeOK, vars, tableVars
<1>1. /\ UNCHANGED <<rows, basedOn>>
      /\ DOMAIN documents' \subseteq DOMAIN documents
      /\ \A d \in DOMAIN documents' : documents'[d] = documents[d]
      /\ publishers' \subseteq publishers
  BY DEF GetDocument, UpdateFindsNoRow, RemovePublisher, DeletePublisher
<1>2. /\ copy' \in [Callers -> Document \cup {NoCopy}]
      /\ \A h \in Callers :
            \/ copy'[h] = copy[h]
            \/ copy'[h] = NoCopy
            \/ \E d \in DOMAIN documents : copy'[h] = documents[d]
  BY DEF GetDocument, UpdateFindsNoRow, RemovePublisher
<1>3. \A d \in DOMAIN documents :
         /\ documents[d].id = d /\ documents[d].version \in DOMAIN rows[d]
         /\ documents[d] = rows[d][documents[d].version]
  <2> SUFFICES ASSUME NEW d \in DOMAIN documents
               PROVE  /\ documents[d].id = d /\ documents[d].version \in DOMAIN rows[d]
                      /\ documents[d] = rows[d][documents[d].version]
    OBVIOUS
  <2>1. rows[d] \in Seq(Document) /\ rows[d] # << >>
    BY DEF RowsAreFiled
  <2>2. documents[d].version = Len(rows[d]) /\ documents[d] = rows[d][documents[d].version]
    BY DEF VersionCountsUpdates
  <2>3. Len(rows[d]) \in DOMAIN rows[d]
    BY <2>1
  <2> QED
    BY <2>2, <2>3 DEF RowsAreFiled
<1>4. VersionIdentifiesCopy'
  BY <1>1, <1>2, <1>3 DEF VersionIdentifiesCopy
<1>5. VersionCountsUpdates' /\ RowsAreFiled'
  BY <1>1 DEF VersionCountsUpdates, RowsAreFiled
<1>6. UpdatesKeepIdentity'
  BY <1>1 DEF UpdatesKeepIdentity, SameIdentity
<1> QED
  BY <1>1, <1>2, <1>4, <1>5, <1>6

LEMMA InitInvariant == Init => Invariant
<1> SUFFICES ASSUME Init PROVE Invariant
  OBVIOUS
<1>1. DOMAIN documents = {} /\ \A d \in DocumentIDs : DOMAIN rows[d] = {}
  BY DEF Init
<1>2. \A c \in Callers : copy[c] = NoCopy
  BY DEF Init
<1>3. TypeOK
  BY <1>1 DEF Init, TypeOK
<1> QED
  BY <1>1, <1>2, <1>3
     DEF Invariant, VersionCountsUpdates, VersionIdentifiesCopy, UpdatesKeepIdentity,
         RowsAreFiled

\* Table, histories and copies agree whatever the callers do.
THEOREM InvariantHolds == Spec => []Invariant
<1>1. Invariant /\ [Next]_vars => Invariant'
  BY CreateKeepsInvariant, UpdateKeepsInvariant, OthersKeepInvariant DEF Next
<1> QED
  BY InitInvariant, <1>1, PTL DEF Spec

\* Rows and the callers' copies of them keep their types.
THEOREM TypeCorrect == Spec => []TypeOK
<1>1. Invariant => TypeOK
  BY DEF Invariant
<1> QED
  BY InvariantHolds, <1>1, PTL

\* The version column counts the rows a document has had.
THEOREM VersionCounts == Spec => []VersionCountsUpdates
<1>1. Invariant => VersionCountsUpdates
  BY DEF Invariant
<1> QED
  BY InvariantHolds, <1>1, PTL

\* The id and the version of a copy say what it contains.
THEOREM VersionIdentifies == Spec => []VersionIdentifiesCopy
<1>1. Invariant => VersionIdentifiesCopy
  BY DEF Invariant
<1> QED
  BY InvariantHolds, <1>1, PTL

\* Updates change nothing but completion, size and version.
THEOREM IdentityIsKept == Spec => []UpdatesKeepIdentity
<1>1. Invariant => UpdatesKeepIdentity
  BY DEF Invariant
<1> QED
  BY InvariantHolds, <1>1, PTL

=============================================================================
