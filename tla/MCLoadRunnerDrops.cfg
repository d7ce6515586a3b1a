SPECIFICATION Spec
CONSTANTS
  w1 = w1 w2 = w2
  Workers = {w1}
  JobCap = 1
  ResultCap = 1
  MaxTokens = 3
  MaxSamples = 2
INVARIANT DropsAreErrors
