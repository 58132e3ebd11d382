CONSTANTS
  Parts = {"screen", "page", "forums", "login", "linking", "places", "account"}
  Home <- HomeChannels
  Users = {"ann", "me"}
  Sysops = {"ann"}
  Callers = {1, 2}
  Emoji = {"+"}
  Bodies = {"hi", "pic"}
  Plans <- AllPlans
  MaxSubs = 3
  HistoryLimit = 2
  PublishFaults = FALSE
  LogCap = 3
  Long = {"pic"}
  Emotes = {}
  Me = "me"
  WithPicture = {"ann"}
  Images = {"pic"}
  DbFaults = TRUE
  Viewer = "me"
  Palette = {"+"}
  Reader = "me"
  Writers = {"ann", "me"}
  ForumNames = {"f", "g"}
  ForumPlans <- BoardPlans
  PerPage = 1
  TopicLimit = 2
  ForumFaults = FALSE
  LoadFaults = TRUE
  Handles = {"ann", "bob", "kim", "new", "neu", "root"}
  Addrs = {"x", "y"}
  Denied = {"root"}
  Registered <- People
  SysopHandle = "new"
  HandleThreshold = 2
  IPThreshold = 2
  PersistentBanThreshold = 1
  BackoffMax = 1
  LockcountWindow = 3
  SessionLimit = 2
  LoginScripts <- Logins
  LoginFaults = 1
  LastHour = 1
  LinkScripts <- Links
  Replicas = {1}
  BeginRateLimit = 2
  ReauthAfter = 2
  LinkFaults = 1
  Expiries = 1
  Grants = 2
  Geocode <- Atlas
  Legacy <- Before
  NoPlace = "nowhere"
  MaxSaved = 3
  PlaceScripts <- Trips
  NoPassword = ""
  MinLengthOf = {"longer"}
  OthersHandles = {"you"}
  OthersKeys = {"z"}
  AccountScripts <- Owners
SPECIFICATION CommunitySpec
INVARIANTS AlwaysListening LogFaithful PageFaithful BoardFaithful AdmittedRightly LinksSound PlacesSound NothingLost
PROPERTY RevokedStaysRevoked
CHECK_DEADLOCK FALSE
