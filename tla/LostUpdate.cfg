SPECIFICATION Spec
CONSTANTS
    a = a  b = b
    d1 = d1  d2 = d2
    p1 = p1  p2 = p2
    Callers <- MCCallers
    DocumentIDs <- MCDocumentIDs
    PublisherIDs <- MCPublisherIDs
    MimeTypes = {"pdf", "txt"}
    Extensions = {".pdf"}
    Sizes = {1, 2}
    VolumeNames = {"default"}
    Annotations = {"flat"}
    FlatAnnotations = {"flat"}
    NewDocuments <- MCNewDocuments
    NoCopy = NoCopy
    MaxUpdates = 2
INVARIANT
    NoLostUpdate
CHECK_DEADLOCK FALSE
