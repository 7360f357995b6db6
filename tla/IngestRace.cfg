SPECIFICATION FairSpec
CONSTANTS
  m1 = m1  m2 = m2  m3 = m3  u1 = u1  u2 = u2
  a1 = a1  a2 = a2  a3 = a3  f1 = f1  t1 = t1  b1 = b1  b2 = b2
  k1 = k1  k2 = k2  kf = kf  kt = kt
  Poller = Poller  None = None
  Mails = {m1, m2}
  Uploads = {u1}
  Docs = {a1, a2, f1, b1}
  Keys = {k1, kf}
  Content <- RaceContent
  Unreadable = {}
  KindOf <- RaceKinds
  KeyOf <- RaceKeys
  MaxFaults = 1
  MaxCrashes = 1
  MaxRequeues = 1
INVARIANTS TypeOK AnnouncedOnce FilingIsRight InboxIsUnseen AnswerIsTrue ForensicOnceIfCalm FailureIsReported
PROPERTIES MailNeverLost ImplementsLedger EveryMailFiled EveryUploadAnswered AnnouncedUnlessCrash
