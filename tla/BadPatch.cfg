CONSTANTS
  None = None
  a = a
  b = b
  r1 = r1
  s1 = s1
  s2 = s2
  d1 = d1
  d2 = d2
  swap = swap
  only1 = only1
  StepNames = {a, b}
  ReasoningIds = {r1}
  Owners = {s1, s2}
  Documents = {d1, d2}
  Patches = {swap, only1}
  Applied <- Outcomes
  DeclaresSharedState = TRUE
  MaxEvents = 5
  StepInputs <- SomeStepEvents
  ReasoningInputs <- SomeReasoningEvents
  SubagentInputs <- SomeSubagentEvents
  StateInputs <- AllStateEvents
  Alphabets <- SomeAlphabets
SPECIFICATION HistorySpec
CHECK_DEADLOCK FALSE
INVARIANT
  BadPatchesReported
