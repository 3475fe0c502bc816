SPECIFICATION CommandSpec
CHECK_DEADLOCK FALSE
CONSTANTS
  None = None
  r0 = r0
  t0 = t0
  RunIds = {r0}
  ThreadIds = {t0}
  Owners = {}
  MaxEvents = 3
  StreamInputs <- MCInputs
  Producers <- MCProducers
  Calls <- MCCalls
  CategoryRules = {"AGUI105"}
  CommandLines <- MCCommandLines
  Assignments <- MCAssignments
  Counts <- MCCounts
  Durations <- MCDurations
  FeatureLists <- MCFeatureLists
  Headers = {}
  Urls <- MCUrls
  Options <- MCOptions
INVARIANT TransportErrorMeansFailure
