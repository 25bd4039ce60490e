CONSTANTS
  p1 = p1
  z1 = z1
  z2 = z2
  Broken = Broken
  Absent = Absent
  Kinds <- OnePath
  Ckans <- Mixed
  Zips <- MCZips
  BatchSize = 2
  MaxSent = 2
  MaxFaults = 2
  MaxEdits = 2
SPECIFICATION FairSpec
INVARIANTS MirrorInv ArchivedIsChecked QuietIsMirrored
PROPERTIES DeletedIsHandled AllIsDeleted
CHECK_DEADLOCK FALSE
