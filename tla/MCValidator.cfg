CONSTANTS
  None = None
  r0 = r0
  t0 = t0
  m1 = m1
  c1 = c1
  lb = lb
  a = a
  d1 = d1
  p1 = p1
  k1 = k1
  s1 = s1
  Owners = {s1}
  MaxEvents = 5
  RunIds = {r0}
  ThreadIds = {t0}
  StreamInputs <- SomeInputs
  MessageIds = {m1}
  TextInputs <- SomeTextEvents
  Learnable <- AnyMessages
  ToolCallIds = {c1}
  Fragments = {lb}
  JsonTexts <- NoTexts
  ToolInputs <- SomeToolEvents
  SeenMessages <- AnySeen
  Histories <- OneHistory
  StepNames = {a}
  StepInputs <- SomeStepEvents
  Documents = {d1}
  Patches = {p1}
  Applied <- Outcomes
  DeclaresSharedState = FALSE
  StateInputs <- SomeStateEvents
  ReasoningIds = {k1}
  ReasoningInputs <- SomeReasoningEvents
  SubagentInputs <- SomeSubagentEvents
SPECIFICATION Spec
CHECK_DEADLOCK FALSE
INVARIANTS
  OnlyCleanEndsReportDebris
  CleanEndReportsAllDebris
PROPERTIES
  EndedRunIsFrozen
  OthersInterruptChunks
  ComponentsImplemented
