SPECIFICATION FairSpec
CONSTANTS
  c1 = c1 c2 = c2 c3 = c3
  Callers = {c1, c2, c3}
  BatchSize = 2
  QueueCap = 1
  MaxInserts <- MCMaxInserts
INVARIANTS OwnOutcome SentRowsKept CleanClose
PROPERTIES EverybodyReturns
