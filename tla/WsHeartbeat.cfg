CONSTANTS
  t1 = t1
  Tunnels = {t1}
  MaxSessions = 1
  TunnelQueue = 1
  AgentFrames = 1
  BrowserFrames = 0
SPECIFICATION FairSpec
PROPERTIES
  HeartbeatFailureTold
CHECK_DEADLOCK FALSE
