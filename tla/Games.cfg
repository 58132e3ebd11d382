CONSTANTS
  ann = ann
  ben = ben
  w1 = w1
  w2 = w2
  Parts = {"wallets", "hall", "rush", "restart", "doors", "roulette", "browse", "lists"}
  Users = {ann, ben}
  Writers = {w1, w2}
  Owner <- OneEach
  Allowance = 2
  Stakes = {1, 3}
  Payouts = {0, 2}
  MaxDay = 2
  MaxWinnings = 3
  MaxDue = 9
  Faults = FALSE
  Players = {1, 2}
  TableIds = {1}
  SeatNos = {1, 2}
  BuyIn = 2
  Savings = 2
  RoomFaults = TRUE
  SubBuf = 1
  MaxSubs = 2
  MaxDeals = 1
  MaxLeaves = 1
  MaxStops = 1
  DoorNames = {"slots", "blackjack", "videopoker", "holdem"}
  Ladder <- Rungs
  Purse = 6
  Patient = {"blackjack", "videopoker", "holdem"}
  Rebuying = FALSE
  DbErrors = TRUE
  MaxVisits = 1
  MaxGames = 2
  MaxCmds = 2
  MaxSteps = 4
  Symbols = {0, 6}
  Points = {1, 6, 10}
  PokerHands = {"HighCard", "TwoPair"}
  Browsers = {1}
  UserOf <- OneUser
  LimitSets <- Caps
  MaxKeys = 0
  MaxChanges = 1
  MaxLaunches = 1
  Urls = {"a"}
  Titles = {1, 2}
  Kept <- Kept12
  Seen <- Seen12
  MaxJobs = 2
  MaxEdits = 2
  RowErrors = FALSE
  Waits = {TRUE, FALSE}
  RecentLimit = 2
SPECIFICATION GamesSpec
INVARIANTS Accounted NoFreeChips StillWatching WalletAgreesWithRecord HeadsUpChips PaidOrNothing ListsAgree
PROPERTIES AtomicPerCall DeletesWhatWasNamed
CHECK_DEADLOCK FALSE
