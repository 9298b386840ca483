\* Two workers and one permit, one target, one retry, one pause.
CONSTANTS
  Workers = {w1, w2}
  Targets = {t1}
  Permits = 1
  MaxRetries = 1
  SessionMaxActions = 2
  Budget = 0
  MaxPauses = 1
  Threshold = 1
  Cooldown = 1
  NoTarget = NoTarget
SPECIFICATION FairSpec
INVARIANTS PermitsBalanced ProbeNotLost PauseQuiesces
PROPERTIES TripStops CancelStops
CHECK_DEADLOCK FALSE
