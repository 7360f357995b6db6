SPECIFICATION FairSpec
CONSTANTS
  u1 = u1  r1 = r1  r2 = r2
  Poller = Poller  None = None
  Uploads = {u1}
  Reports = {r1, r2}
  Conns = 2
PROPERTIES EverySaveReturns
