CONSTANTS
  None = None
  m1 = m1
  m2 = m2
  s1 = s1
  MessageIds = {m1, m2}
  Owners = {s1}
  MaxEvents = 5
  TextInputs <- SomeTextEvents
  Learnable <- NothingOrOneId
SPECIFICATION HistorySpec
CHECK_DEADLOCK FALSE
PROPERTIES
  MixingFormsNotFlagged
