------------------------ MODULE MCDocumentRepository ------------------------
(***************************************************************************)
(* Small instances of DocumentRepository for TLC.                          *)
(***************************************************************************)
EXTENDS DocumentRepository, TLC

CONSTANTS a, b, d1, d2, p1, p2

MCCallers == {a, b}
MCDocumentIDs == {d1, d2}
MCPublisherIDs == {p1, p2}

New(d, p) ==
    [id |-> d, publisher |-> p, annotations |-> "flat", completed |-> FALSE, mimeType |-> "pdf", size |-> 1,
     volume |-> "default", version |-> 0,
     key |-> [publisher |-> p, year |-> 0, id |-> d, extension |-> ".pdf"]]

\* The documents of one publisher, or of two.
MCNewDocuments == {New(d1, p1), New(d2, p1), New(d2, p2)}

=============================================================================
