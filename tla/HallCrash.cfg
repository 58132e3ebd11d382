CONSTANTS
  Players = {1, 2}
  TableIds = {1}
  SeatNos = {1, 2}
  BuyIn = 2
  Savings = 4
  RoomFaults = FALSE
  SubBuf = 1
  MaxSubs = 3
  MaxDeals = 1
  MaxLeaves = 1
  MaxStops = 0
SPECIFICATION RoomSpec
INVARIANT RunsUntilStopped
CHECK_DEADLOCK FALSE
