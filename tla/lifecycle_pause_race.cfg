\* A pause and a resume around the end of the last block.
CONSTANTS
  Callers = {op1}
  Main = Main
  Blocks = {b1}
  Short = NoBlock
  Workers = {w1}
  Stuck = {}
  Duration <- MCDuration
  Events = {"Pause", "Resume"}
  MaxCalls = 2
  MaxEdges = 0
  MaxReopens = 1
  MaxTicks = 2
  NoChan = NoChan
SPECIFICATION FairSpec
PROPERTIES ElapsedRunEnds
CHECK_DEADLOCK FALSE
