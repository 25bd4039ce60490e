CONSTANTS
  Nk = Nk
  FreezeAuto = FreezeAuto
  Netkan = Netkan
  Frozen = Frozen
  NoDate = NoDate
  NoRow = NoRow
  Off = Off
  Absent = Absent
  NoTree = NoTree
  Garbled = Garbled
  m1 = m1
  m2 = m2
  early = early
  late = late
  Repos <- OneRepo
  Topics <- OneTopic
  Home <- HomeNk
  Files <- TwoMods
  Contents <- AllContents
  Dates <- TwoDates
  IdleDates <- Olds
  Worlds <- OneDated
  Forms <- OneGarbled
  MaxEdits = 2
  MaxFaults = 1
SPECIFICATION FairSpec
INVARIANTS TableInv OnlyIdleFrozen
PROPERTIES OnlyFrozenRowsGoBack FrozenIsMarked RowIsCurrent
CHECK_DEADLOCK FALSE
