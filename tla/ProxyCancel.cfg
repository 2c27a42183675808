CONSTANTS
  r1 = r1
  r2 = r2
  r3 = r3
  Requests = {r1}
  Streamed = {r1}
  Uploads = {}
  MaxSessions = 1
  MaxInFlight = 1
  StreamQueue = 1
  BodyChunks = 1
  UploadChunks = 0
  WireLength = 1
SPECIFICATION Spec
INVARIANTS
  CancelOnDisconnect
CHECK_DEADLOCK FALSE
