CONSTANTS
  e1 = e1
  e2 = e2
  e3 = e3
  c1 = c1
  r1 = r1
  Calls = {e1, e2, e3}
  MaxCodes = 3
  Senders = {c1}
  Profiles <- AgentProfiles
  MaxLinks = 2
  Refreshes = {r1}
  Lifetime = 1
  MaxLogins = 1
  MaxTime = 2
SPECIFICATION ScenarioSpec
SYMMETRY CallSymmetry
INVARIANTS
  OneAgentPerCode
  CredentialsDurable
  AcceptedWasSent
  TwiceOnlyAcrossReconnect
PROPERTIES
  OnlyLiveLogins
CHECK_DEADLOCK FALSE
