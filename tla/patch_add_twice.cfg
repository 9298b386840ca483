\* A target is added to a block twice.
CONSTANTS
  b1 = b1
  b2 = b2
  w1 = w1
  w2 = w2
  h1 = h1
  h2 = h2
  h3 = h3
  Blocks = {b1, b2}
  First = b1
  Operators = {o1}
  Workers = {w1, w2}
  BlockOf <- MCBlockOf
  Hosts = {h1, h2, h3}
  Targets <- MCTargets
  Under <- MCUnder
  CapFields = {"global", "target"}
  InitialCaps <- MCCaps
  InitialWeights <- MCWeights
  Patches <- MCAddPatches
  MaxPatches = 2
  Free = Free
  NoTarget = NoTarget
SPECIFICATION Spec
PROPERTY AddAppendsShard
CHECK_DEADLOCK FALSE
