\* Three overlapping requests and a disable; two targets and a global tier that refuse in turn, and a byte tier.
CONSTANTS
  Targets = {t1, t2}
  Callers = {c1, c2}
  Token = 2
  PtRate = 1
  PtBurst = 2
  GlobalRate = 1
  GlobalBurst = 3
  ByteRate = 1
  ByteBurst = 3
  Sizes = {0, 2, 3}
  TickLimit = 3
  Requests = {r1, r2, r3}
  Threshold = 3
  Cooldown = 2
  MaxForced = 1
SPECIFICATION MCSpec
INVARIANTS HalfOpenHasProbe WindowBound ByteBound
PROPERTIES ProbesSpaced SelfHeals
CHECK_DEADLOCK FALSE
