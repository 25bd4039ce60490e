CONSTANTS
  ksp = ksp
  ksp2 = ksp2
  f1 = f1
  f2 = f2
  NoGame = NoGame
  Idle = Idle
  Absent = Absent
  NoTree = NoTree
  Frozen = Frozen
  Edited = Edited
  Nameless = Nameless
  Analyses <- NoProps
  Kinds <- Requests
  Games <- OneGame
  Repos <- OneGame
  Home <- HomeKsp
  Files <- TwoFiles
  Topics <- TwoFiles
  Contents <- MCContents
  MaxSent = 2
  BatchSize = 2
  MaxFaults = 1
  MaxEdits = 1
  DeletesFail = TRUE
SPECIFICATION FairSpec
INVARIANTS AdderInv DeletedIsAnswered AddedAlone
PROPERTIES LoopSpec FrozenStays EveryRequestAnswered
CHECK_DEADLOCK FALSE
