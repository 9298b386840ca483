\* Three workers, a goroutine that resizes, between one and two permits.
CONSTANTS
  Users = {u1, u2, u3}
  Setters = {s1}
  Limits = {1, 2}
  MaxResizes = 2
  Free = Free
SPECIFICATION SemFairSpec
INVARIANTS PermitsBalanced
PROPERTIES NoIdlePermit CancelReleases
CHECK_DEADLOCK FALSE
