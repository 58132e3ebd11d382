CONSTANTS
  ann = ann
  ben = ben
  Users = {ann, ben}
  Keys <- RedAndStraight
  Draws = {1, 2}
  Amounts = {1}
  Stack = 1
  HistoryCap = 1
  MaxBets = 2
  MaxDraws = 2
  MaxBoots = 2
  DebitFaults = TRUE
  CreditFaults = FALSE
  Stops = TRUE
  StopInReveal = FALSE
  Crashes = FALSE
SPECIFICATION FairSpec
CHECK_DEADLOCK FALSE
INVARIANTS PaidExactly NoBetDropped FeltExact WheelFair
PROPERTY EveryBetDecided
