CONSTANTS
  x1 = x1
  x2 = x2
  Handlers = {x1, x2}
  Tabs = {"tab1", "tab2"}
  JarIds = {"t1", "t2"}
  Instances = {"i1", "i2"}
  CookieNames = {"a", "b", "dsh-target"}
  BrowserHeaders <- SentByBrowsers
  RequestPaths <- AllPaths
  Scripts <- ScriptPaths
  SetCookies <- InstanceCookies
  Sizes = {1, 2, 4}
  MaxBytes = 3
  Hour = 1
  MaxTime = 4
SPECIFICATION ScenarioSpec
SYMMETRY HandlerSymmetry
INVARIANTS
  TypeOK
  BootstrapOnce
  ContentFromOwnInstance
  CacheSound
  HeaderMatchesLog
  ScopeFaithful
CHECK_DEADLOCK FALSE
