SPECIFICATION MCSpec
CONSTANTS
  Codes = {x1}
  Urls = {u1}
  NoCode = NoCode
  NoUrl = NoUrl
  Http = {h1, h2}
  Grpc = {g1}
  PublishTimeout = 1
  ShutdownDur = 2
  CodeLength = 8
CHECK_DEADLOCK FALSE
INVARIANTS CleanStops EarlierClicksSettled FaultKept
PROPERTIES NoJoinWhileWaiting ShutdownEnds
