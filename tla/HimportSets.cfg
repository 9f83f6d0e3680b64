SPECIFICATION FairSpec
CONSTANTS
  set1 = set1  set2 = set2  piped1 = piped1
  Sets <- MCSets
  Piped <- MCPiped
  MaxFaults = 3
CHECK_DEADLOCK FALSE
INVARIANTS BeliefIsRight OnlyDisturbedSetsFail
PROPERTY SetsAreAnswered
