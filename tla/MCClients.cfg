SPECIFICATION MCSpec
CONSTANTS
  Users = {u1, u2}
  Settle = 1
  Lag = 1
  MaxClock = 2
  MaxLinks = 2
  MaxActs = 1
  Base = 5
  Most = 6
  Shortest = 2
  Longest = 3
  SeedCount = 3
  PropagationTimeout = 2
  MaxOthers = 2
  RpsValues = {0, 1, 2147483647}
  Seconds = {0, 5}
  MaxRunning = 3
  Window = 1
  Codes = {a, b, c}
  MaxRecent = 2
  MaxEffects = 4
  Actions = {click, shorten}
  Latency = {1, 2, 3}
  MaxLatencies = 4
CHECK_DEADLOCK FALSE
INVARIANTS
  NoClickMisses
  FlagsFollowPhase
  ReadsFindTheirLinks
  CleanEndIsWhole
  NoStaleRow
  SummariesArePercentiles
PROPERTIES
  SummaryIsFinal
  PageSettles
