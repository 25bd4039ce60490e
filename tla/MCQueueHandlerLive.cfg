CONSTANTS
  ksp = ksp
  ksp2 = ksp2
  ksp3 = ksp3
  NoGame = NoGame
  Idle = Idle
  Games <- MCGames
  Kinds <- Strange
  BatchSize = 2
  MaxSent = 3
  MaxFaults = 2
  MayRaise = FALSE
  DeletesFail = TRUE
SPECIFICATION FairSpec
PROPERTIES GoodIsDeleted
CHECK_DEADLOCK FALSE
