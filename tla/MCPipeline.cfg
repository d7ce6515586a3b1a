SPECIFICATION MCSpec
CONSTANTS
  Codes = {x1, x2}
  Urls = {u1, u2}
  NoCode = NoCode
  NoUrl = NoUrl
  SlotKeep = 1
  MaxFaults = 2
  Attempts = 3
  MaxOutages = 2
  MaxRestarts = 2
  MaxRows = 2
CHECK_DEADLOCK FALSE
INVARIANTS HydratedUpToOffset EveryRowPublished
PROPERTIES Resolvable
