CONSTANTS
  Parts = {"sessions", "console", "browser", "root"}
  Shells = {s1}
  Webs = {w1}
  Users = {a}
  NoUser = NoUser
  NoSession = NoSession
  SessionCaps = {0, 1}
  Hosts = {"h1", "h2"}
  HostOf <- Replicas
  Population <- People
  SettingKeys = {"cap"}
  DefaultValue = "d"
  BanKeys = {"x"}
  BanLength = 1
  EventsAtStart <- FirstEvents
  PageSize = 2
  ListHeight = 2
  Scripts <- Plans
  ConsoleFaults = 1
  LastTick = 1
  Browsers = {1, 2}
  UserOf <- OneUser
  LimitSets <- TwoCaps
  MaxKeys = 1
  MaxChanges = 0
  MaxLaunches = 2
  Terminals = {1}
  SysopTerminals = {}
  Dests = {"sysop", "logout"}
  Broadcasts = 3
  BufferSize = 1
  EvictAfter = 2
  WallTTL = 2
  NavCap = 1
SPECIFICATION FairParts
INVARIANTS RegistryExact WallKept SlotsExact
PROPERTIES SessionCap PresenceConverges CachesConverge BannersInTime GoneGivesBack
CHECK_DEADLOCK FALSE
