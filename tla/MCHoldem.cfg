CONSTANTS
  N = 3
  Users = {a, b}
  NoUser = NoUser
  SmallBlind = 1
  BigBlind = 2
  Strengths = {1, 2}
  BuyIns = {2, 3}
  MaxNet = 6
  MaxHands = 2
  MaxTimers = 1
  SitInHand = TRUE
  StandInHand = TRUE
  Careless = TRUE
SPECIFICATION Spec
INVARIANTS ChipsNeverMinted PotCoversCommitments SettledOncePerHand
PROPERTIES SidePotCap OnlyOwnChips
CHECK_DEADLOCK FALSE
SYMMETRY PlayerSymmetry
