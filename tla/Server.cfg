SPECIFICATION Spec
CONSTANTS
  Requests = {r1, r2, r3}
  MaxConns = 2
  Volumes = {"default", "archive"}
  Sources <- MCSources
INVARIANTS
  TypeOK
  ShutdownIsGraceful
  PoolOutlivesHandlers
  Invariant
PROPERTIES
  SignalEndsProcess
  RequestsEnd
