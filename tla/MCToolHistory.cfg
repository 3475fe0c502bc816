CONSTANTS
  None = None
  c1 = c1
  c2 = c2
  m1 = m1
  s1 = s1
  lb = lb
  rb = rb
  ToolCallIds = {c1, c2}
  MessageIds = {m1}
  Owners = {s1}
  Fragments = {lb, rb}
  MaxEvents = 5
  ToolInputs <- SomeToolEvents
  JsonTexts <- BraceTexts
  SeenMessages <- OneMessage
  Histories <- OneHistory
SPECIFICATION HistorySpec
CHECK_DEADLOCK FALSE
INVARIANTS
  ToolTypeOK
  CallHasOneForm
  ToolFindingsExact
  OpenCallsExact
PROPERTIES
  CallHistoryIsStable
