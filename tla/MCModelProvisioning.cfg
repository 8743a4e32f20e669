SPECIFICATION FairSpec
CONSTANTS
  Order <- MCOrder
  Locked <- MCLocked
  Way <- MCWay
  MaxFaults = 2
INVARIANTS PassMeansComplete NothingLost
PROPERTIES Converges
CHECK_DEADLOCK FALSE
