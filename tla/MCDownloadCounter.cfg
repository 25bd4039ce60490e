CONSTANTS
  NoRelease = NoRelease
  Off = Off
  Mods <- FourMods
  Worlds <- SmallWorlds
  Hosts <- AllHosts
  Sources <- AllSourceNames
  Count <- Counts
  Dead <- DeadSources
  PerQuery = 2
  PerRequest = 2
  MaxFaults = 2
  MaxPushes = 1
SPECIFICATION FairSpec
INVARIANTS CounterInv CountedOnce NoneLeftOut NewestHasNoNewer
PROPERTIES FileIsRight
CHECK_DEADLOCK FALSE
