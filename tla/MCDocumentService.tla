------------------------- MODULE MCDocumentService -------------------------
(***************************************************************************)
(* Small instances of DocumentService for TLC.                             *)
(***************************************************************************)
EXTENDS DocumentService, TLC

CONSTANTS h1, h2, d1, d2, p1

MCHandlers == {h1, h2}
MCDocumentIDs == {d1, d2}
MCPublisherIDs == {p1}
MCVolumeNames == {"default", "archive"}
MCExtensionsByType == [m \in MimeTypes |-> IF m = "pdf" THEN {".pdf"} ELSE {".txt"}]

\* The credentials as the provider issued them, and the other way round.
Straight == [accessKey |-> AccessKey, secretKey |-> SecretKey]
Crossed == [accessKey |-> SecretKey, secretKey |-> AccessKey]
Missing == [accessKey |-> NoKey, secretKey |-> NoKey]

Only(name, credentials) == [n \in {name} |-> credentials]

MCCrossed == {Only("default", Crossed)}
MCStraight == {Only("default", Straight)}
MCAnyConfiguration ==
    {Only("default", Crossed), Only("default", Missing), Only("archive", Crossed)}

Symmetry == Permutations(MCHandlers) \cup Permutations(MCDocumentIDs)

=============================================================================
