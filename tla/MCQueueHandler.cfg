CONSTANTS
  ksp = ksp
  ksp2 = ksp2
  ksp3 = ksp3
  NoGame = NoGame
  Idle = Idle
  Games <- MCGames
  Kinds <- Strange
  BatchSize = 2
  MaxSent = 4
  MaxFaults = 2
  MayRaise = TRUE
  DeletesFail = FALSE
SPECIFICATION Spec
INVARIANTS WorkIsStored DeletedInOrder LoopInv
CHECK_DEADLOCK FALSE
