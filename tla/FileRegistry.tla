----------------------------- MODULE FileRegistry -----------------------------
(***************************************************************************)
(* What the Cortex document service promises about files, without saying   *)
(* how: a document is registered once, with the MIME type its file must    *)
(* have, and gets at most one file, of that type, for good.  "They         *)
(* represent a single, downloaded File" (docs/content/en/docs/cortex/      *)
(* reference/data-model.md).  DocumentService implements this module.      *)
(***************************************************************************)
CONSTANTS DocumentIDs, MimeTypes, Sizes, Contents

VARIABLES
    registered,   \* the MIME type declared for each document ever stored
    files         \* the file stored for a document

Files == [mimeType: MimeTypes, size: Sizes, content: Contents]

Init ==
    /\ registered = << >>
    /\ files = << >>

Register(d, type) ==
    /\ d \notin DOMAIN registered
    /\ registered' = [e \in DOMAIN registered \cup {d} |->
                         IF e = d THEN type ELSE registered[e]]
    /\ UNCHANGED files

Store(d, f) ==
    /\ d \in DOMAIN registered \ DOMAIN files
    /\ registered[d] = f.mimeType
    /\ files' = [e \in DOMAIN files \cup {d} |-> IF e = d THEN f ELSE files[e]]
    /\ UNCHANGED registered

Next ==
    \/ \E d \in DocumentIDs, type \in MimeTypes : Register(d, type)
    \/ \E d \in DocumentIDs, f \in Files : Store(d, f)

Spec == Init /\ [][Next]_<<registered, files>>

=============================================================================
