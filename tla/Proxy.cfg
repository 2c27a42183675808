CONSTANTS
  r1 = r1
  r2 = r2
  r3 = r3
  Requests = {r1, r2, r3}
  Streamed = {r1, r3}
  Uploads = {r1}
  MaxSessions = 2
  MaxInFlight = 1
  StreamQueue = 2
  BodyChunks = 3
  UploadChunks = 2
  WireLength = 2
SPECIFICATION ScenarioSpec
INVARIANTS
  TypeOK
  SlotAccounting
  PendingExact
  StreamIntegrity
  UploadIntegrity
  ReaderNeverBlocks
PROPERTIES
  GoneRequestsEnd
CHECK_DEADLOCK FALSE
