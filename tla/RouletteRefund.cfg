CONSTANTS
  ann = ann
  ben = ben
  Users = {ann}
  Keys <- RedAndStraight
  Draws = {1}
  Amounts = {1}
  Stack = 2
  HistoryCap = 2
  MaxBets = 1
  MaxDraws = 1
  MaxBoots = 1
  DebitFaults = FALSE
  CreditFaults = FALSE
  Stops = TRUE
  StopInReveal = TRUE
  Crashes = FALSE
SPECIFICATION Spec
CHECK_DEADLOCK FALSE
PROPERTY RefundsOnlyUnsettled
