SPECIFICATION FramingSpec
CHECK_DEADLOCK FALSE
CONSTANTS
  Bodies <- MCBodies
  SniffLimit = 3
  MaxChunk = 2
INVARIANTS FramingTypeOK DeliveredIsSettled
PROPERTIES ReadsTheStream ReadsToTheEnd
