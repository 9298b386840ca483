CONSTANTS
  Minute = 1
  Second = 1
  IntRange = 16
  DayHours = 4
  HourMinutes = 1
  Weekdays = {0, 1}
  MaxPasses = 5
  Files <- MCFiles
  Sound <- MCSound
  Invocations <- MCInvocations
  Goroutines <- MCGoroutines
  Horizon = 11
  DayLen <- MCDayLen
  WeekLen <- MCWeekLen
  Location <- PutBack
  MaxVUsers = 1
  NoScenario = NoScenario
  NoBlock = NoBlock
  NaN = NaN
  Steps = {1, 2}
SPECIFICATION MCSpec
INVARIANT GateFollowsSchedule
CHECK_DEADLOCK FALSE
