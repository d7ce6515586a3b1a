SPECIFICATION Spec
CONSTANTS
  GiveUp = 2
  MaxLog = 1
  MaxFaults = 1
INVARIANT ShutdownAppliesOnce
