SPECIFICATION FairSpec
CONSTANTS
  c1 = c1 c2 = c2
  u1 = u1 u2 = u2 bad = bad
  o1 = o1 o2 = o2
  k1 = k1 nul = nul
  NoKey = NoKey NoRow = NoRow NoRequest = NoRequest NoCode = NoCode
  Calls = {c1, c2}
  Txs = {c1, c2}
  Stamps = {c1, c2}
  Codes = {x1, x2}
  x1 = x1 x2 = x2
  Urls = {u1, u2, bad}
  HttpUrls = {u1, u2}
  Owners = {o1, o2}
  Keys = {k1, nul}
  Unstorable = {nul}
  MaxRetries = 2
  Requests <- MCRequests
PROPERTIES Contract EveryCallEnds
INVARIANTS TypeOK Idempotent WinnerReadable EventPerRow
