SPECIFICATION Spec
CONSTANTS
  Nodes = {n1, n2}
  Sentinels = {s1, s2, s3}
  n1 = n1
  s1 = s1
  s2 = s2
  s3 = s3
  Null = Null
  FirstMaster = n1
  Given <- MCGiven
  PreferredSlaves <- MCPreferred
  FailoverDetector = {TRUE, FALSE}
  MaxConnections = 2
  MaxFailovers = 1
  MaxFaults = 1
CHECK_DEADLOCK FALSE
PROPERTY FindsItsNode
