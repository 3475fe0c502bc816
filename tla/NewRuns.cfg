CONSTANTS
  None = None
  r0 = r0
  r1 = r1
  t0 = t0
  RunIds = {r0, r1}
  ThreadIds = {t0}
  Owners = {}
  MaxEvents = 5
  StreamInputs <- SomeInputs
SPECIFICATION HistorySpec
CHECK_DEADLOCK FALSE
INVARIANT
  OnlyNewRunsFollowCleanEnds
