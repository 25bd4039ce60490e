CONSTANTS
  ksp = ksp
  ksp2 = ksp2
  ksp3 = ksp3
  m1 = m1
  m2 = m2
  f1 = f1
  f2 = f2
  c1 = c1
  c2 = c2
  NoGame = NoGame
  Idle = Idle
  Absent = Absent
  NoTree = NoTree
  Kinds <- Across
  Games <- TwoGames
  Repos <- TwoGames
  Home <- HomeEach
  Files <- TwoFiles
  Topics <- TwoFiles
  Contents <- TwoContents
  Mods <- MCMods
  MaxSent = 3
  BatchSize = 2
  MaxFaults = 1
  MaxEdits = 1
  DeletesFail = FALSE
SPECIFICATION Spec
INVARIANTS DeletedIsPublished QuietIsNewest QuietIsRecorded
PROPERTIES LoopSpec
CHECK_DEADLOCK FALSE
