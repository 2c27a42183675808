CONSTANTS
  t1 = t1
  Tunnels = {t1}
  MaxSessions = 2
  TunnelQueue = 1
  AgentFrames = 2
  BrowserFrames = 2
SPECIFICATION ScenarioSpec
INVARIANTS
  TypeOK
  TunnelsExact
  WsStatsBalance
  FramesToAgent
  FramesToBrowser
PROPERTIES
  GoneBrowsersEnd
  GoroutinesEnd
  AgentCloseEnds
CHECK_DEADLOCK FALSE
