SPECIFICATION FairSpec
CONSTANTS
  w1 = w1 w2 = w2
  Workers = {w1, w2}
  JobCap = 1
  ResultCap = 1
  MaxTokens = 2
  MaxSamples = 2
INVARIANTS ClosedAfterLastSend TerminalSampleAccounts SamplesCatchUp
PROPERTIES Implements RunReturns
