SPECIFICATION Spec
CONSTANTS
  m1 = m1  m2 = m2  m3 = m3  u1 = u1  u2 = u2
  a1 = a1  a2 = a2  a3 = a3  f1 = f1  t1 = t1  b1 = b1  b2 = b2
  k1 = k1  k2 = k2  kf = kf  kt = kt
  Poller = Poller  None = None
  Mails = {m1, m2, m3}
  Uploads = {u1, u2}
  Docs = {a1, a2, a3, t1, b1, b2}
  Keys = {k1, k2, kt}
  Content <- MixedContent
  Unreadable = {m2}
  KindOf <- MixedKinds
  KeyOf <- MixedKeys
  MaxFaults = 1
  MaxCrashes = 0
  MaxRequeues = 0
INVARIANTS FilingIsRight
