SPECIFICATION FairSpec
CONSTANTS
  GiveUp = 2
  MaxLog = 2
  MaxFaults = 3
INVARIANTS AppliedOncePerFault
PROPERTIES InOrderAtLeastOnce EventuallyCommitted OutageShows
