\* Three lines, two crashes, and every kind of event.
CONSTANTS
  Clean = {a, b}
  Lossy = {l}
  Long = {g}
  Rejected = {x}
  Mangled = m
  Genesis = genesis
  Junk = junk
  MaxLines = 3
  MaxCrashes = 2
SPECIFICATION Spec
INVARIANTS AckedSurvive SeqNeverReused VerifyHonest
CHECK_DEADLOCK FALSE
