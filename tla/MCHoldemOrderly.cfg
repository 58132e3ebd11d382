CONSTANTS
  N = 3
  Users = {a, b, c}
  NoUser = NoUser
  SmallBlind = 1
  BigBlind = 2
  Strengths = {1, 2, 3}
  BuyIns = {2, 3, 5}
  MaxNet = 10
  MaxHands = 2
  MaxTimers = 1
  SitInHand = FALSE
  StandInHand = FALSE
  Careless = FALSE
SPECIFICATION RestoredSpec
INVARIANTS ChipsConserved ActorPresent
CHECK_DEADLOCK FALSE
SYMMETRY PlayerSymmetry
