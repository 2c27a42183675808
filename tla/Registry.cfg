CONSTANTS
  a1 = a1
  c1 = c1
  c2 = c2
  c3 = c3
  b1 = b1
  NoConn = NoConn
  Agents = {a1}
  Conns = {c1, c2}
  Beats = {b1}
  AgentOf <- OneAgent
  MaxReport = 1
  MaxRestarts = 1
SPECIFICATION FairSpec
INVARIANTS
  TypeOK
  NoDeadSession
  NoOrphanRows
PROPERTIES
  RowsConverge
  AvailabilityConverges
  SessionContract
CHECK_DEADLOCK FALSE
