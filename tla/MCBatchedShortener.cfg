SPECIFICATION Spec
CONSTANTS
  c1 = c1 c2 = c2 c3 = c3
  x1 = x1 x2 = x2
  u1 = u1 u2 = u2 bad = bad
  o1 = o1 o2 = o2
  k1 = k1 nul = nul
  f1 = f1 f2 = f2
  NoKey = NoKey NoRow = NoRow NoRequest = NoRequest NoCode = NoCode NoTx = NoTx
  Calls = {c1, c2, c3}
  Callers = {c1, c2, c3}
  Txs = {f1, f2}
  Stamps = {c1, c2, c3}
  Codes = {x1, x2}
  Urls = {u1, u2, bad}
  HttpUrls = {u1, u2}
  Owners = {o1, o2}
  Keys = {k1, nul}
  Unstorable = {nul}
  MaxRetries = 2
  BatchSize = 2
  QueueCap = 1
  Requests <- MCSmallRequests
SYMMETRY MCSymmetry
PROPERTIES Contract
INVARIANTS NoPoisonRow
