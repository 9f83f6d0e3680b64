SPECIFICATION FairSpec
CONSTANTS
  c1 = c1  n1 = n1  n2 = n2
  Commands <- MCOneCommand
  Info = info
  Nodes <- MCTwoNodes
  NoNode = NoNode
  StartupNodes <- MCTwoNodes
  LazyConnect = TRUE
  RefreshInterval = TRUE
  MaxRedirections = 1
  RetryLimit = 1
  Stragglers = TRUE
  HostNames = TRUE
  DisconnectFrom = {"wait", "connecting", "ready"}
  MaxCalls = 1
  MaxFaults = 2
INVARIANTS HeldOnce RedirectionsBounded WaitersAreWoken
PROPERTIES Reconnects Closes EveryCallerIsAnswered
CHECK_DEADLOCK FALSE
