SPECIFICATION Spec
CONSTANTS
  a = a  b = b
  d1 = d1  d2 = d2
  p1 = p1
  Calls <- MCCalls
  DocumentIDs <- MCDocumentIDs
  PublisherIDs <- MCPublisherIDs
  MimeTypes = {"pdf"}
  Extensions = {".pdf"}
  Sizes = {1}
  VolumeNames = {"default"}
  Annotations = {"empty", "nested"}
  FlatAnnotations = {"empty"}
  NoAnnotations = "absent"
  EmptyAnnotations = "empty"
  MalformedID = MalformedID
  RolePermissionTables <- MCRolePermissionTables
  MaxVersion = 2
SYMMETRY Symmetry
INVARIANTS
  TypeOK
  RefusedCallsStoreNothing
  SafeCallsStoreNothing
  PermissionsHoldAsReported
  AnswersWereCommitted
  Invariant
