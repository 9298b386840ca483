CONSTANTS
  Workers = {w1, w2}
  Targets = {t1}
  FirstTargets <- NoTargets
  Buckets = 3
  Subs = {s1, s2}
  MaxRecords = 2
  MaxSnaps = 2
  SampleCounts = {0, 1, 2, 9, 10, 49, 100}
SPECIFICATION MCSpec
INVARIANTS SnapshotOrdered PercentileNeverUnder LagAtMostOne NoSendOnClosed
PROPERTY CollectorEnds
CHECK_DEADLOCK FALSE
