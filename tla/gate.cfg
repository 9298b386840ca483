\* Two workers and a block timer; no symmetry, for liveness.
CONSTANTS
  Workers = {w1, w2}
  Blocks = {b1}
  MaxReopens = 2
  MaxNow = 2
  Free = Free
  NoChan = NoChan
  NoTime = NoTime
SPECIFICATION FairSpec
INVARIANTS PausedTotalExact
PROPERTIES RefinesGateSpec ReopenReleases
