SPECIFICATION Spec
CONSTANTS
  Null = Null
  Scenarios <- MCScenarios
  NoScript <- MCNoScript
  TimedOut <- MCTimedOut
  Step = 1000
  MaxTime = 6000
  MaxChunk = 40
INVARIANTS DecodesWhatWasSent RequestsAreRead SameForBothProtocols SilenceIsNoticed WaitsAreBounded ScriptsAreFound
CHECK_DEADLOCK FALSE
