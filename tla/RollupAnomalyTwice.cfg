SPECIFICATION Spec
CONSTANTS
  r1 = r1  r2 = r2  r3 = r3  b1 = b1  b2 = b2
  Reports = {r1, r2, r3}
  Buckets = {b1, b2}
  BucketOf <- MCBucketOf
  Total <- MCTotal
  Aligned <- MCAligned
  Threshold = 3
  MaxFaults = 1
  MaxCrashes = 1
  MaxBackfills = 2
INVARIANT AnomalyOnce
CHECK_DEADLOCK FALSE
