\* An operator and the phantom run command, two blocks, a schedule, a worker that may never return, one lost audit record.
CONSTANTS
  Callers = {op, Main}
  Main = Main
  Blocks = {b1, b2}
  Short = b1
  Workers = {w1}
  Stuck = {w1}
  Duration <- MCDuration
  Events = {"Pause", "Resume", "Stop", "StopCtx", "ParentCancel", "AuditFail"}
  MaxCalls = 2
  MaxEdges = 2
  MaxReopens = 2
  MaxTicks = 2
  NoChan = NoChan
SPECIFICATION MCFairSpec
INVARIANTS CleanEndIsDrained CompletionIsEarned OneDriver AuditTellsState
PROPERTIES StopEnds RunEnds
CHECK_DEADLOCK FALSE
