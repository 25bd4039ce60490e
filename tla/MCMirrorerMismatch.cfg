CONSTANTS
  p1 = p1
  z1 = z1
  z2 = z2
  Broken = Broken
  Absent = Absent
  Kinds <- OnePath
  Ckans <- Mixed
  Zips <- MCZips
  BatchSize = 2
  MaxSent = 2
  MaxFaults = 1
  MaxEdits = 1
SPECIFICATION Spec
PROPERTIES MismatchIsKept
CHECK_DEADLOCK FALSE
