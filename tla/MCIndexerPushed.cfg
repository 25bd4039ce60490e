CONSTANTS
  ksp = ksp
  ksp2 = ksp2
  ksp3 = ksp3
  m1 = m1
  m2 = m2
  f1 = f1
  f2 = f2
  c1 = c1
  c2 = c2
  NoGame = NoGame
  Idle = Idle
  Absent = Absent
  NoTree = NoTree
  Kinds <- Across
  Games <- TwoGames
  Repos <- TwoGames
  Home <- HomeEach
  Files <- TwoFiles
  Topics <- TwoFiles
  Contents <- TwoContents
  Mods <- MCMods
  MaxSent = 2
  BatchSize = 2
  MaxFaults = 0
  MaxEdits = 1
  DeletesFail = FALSE
SPECIFICATION Spec
INVARIANT EveryChangeIsPushed
CHECK_DEADLOCK FALSE
