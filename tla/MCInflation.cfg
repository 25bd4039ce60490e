CONSTANTS
  Games <- TwoGames
  Listing <- Mods31
  HookOnly <- Hook
  Polled <- Poll
  Odd <- OddOnes
  Garbled <- NoYaml
  Absent = Absent
  Off = Off
  g1 = g1
  g2 = g2
  a = a
  b = b
  c = c
  d = d
  h1 = h1
  p1 = p1
  odd = odd
  garbled = garbled
  Worlds <- OneWorld
  BatchSize = 2
  ReceiveSize = 10
  MaxQueued <- Limits
  Edits <- SomeEdits
  Requests <- SomeRequests
  MaxRequest = 3
  MaxEvents = 2
SPECIFICATION FairSpec
INVARIANTS InflationInv AnsweredIsQueued QueueBounded
PROPERTIES NewestIsInflated
CHECK_DEADLOCK FALSE
