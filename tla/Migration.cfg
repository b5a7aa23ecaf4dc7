SPECIFICATION Spec
CONSTANTS
  Migrators = {m1, m2, m3}
  MaxResets = 2
INVARIANTS
  TypeOK
  SchemaIsWhole
  VersionImpliesSchema
  UnrecordedSchemaIsExplained
  WaitsAreOrdered
  Invariant
PROPERTIES
  MigrateReturns
  ImplementsVersionedSchema
