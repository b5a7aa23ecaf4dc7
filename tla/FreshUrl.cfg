SPECIFICATION Spec
CONSTANTS
    h1 = h1  h2 = h2
    d1 = d1  d2 = d2
    p1 = p1
    Handlers <- MCHandlers
    DocumentIDs <- MCDocumentIDs
    PublisherIDs <- MCPublisherIDs
    MimeTypes = {"pdf", "txt"}
    Extensions = {".pdf", ".txt"}
    ExtensionsByType <- MCExtensionsByType
    Sizes = {1}
    Contents = {"x"}
    VolumeNames <- MCVolumeNames
    Annotations = {"flat"}
    FlatAnnotations = {"flat"}
    Configurations <- MCStraight
    AccessKey = "access"
    SecretKey = "secret"
    NoKey = "none"
    MalformedID = MalformedID
    PresignLifetime = 1
    UploadUrlLifetime = 2
    YearLength = 1
    MaxTime = 1
    MaxVersion = 2
    MaxUrls = 1
INVARIANT
    FreshUrlIsUsable
