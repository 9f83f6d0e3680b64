SPECIFICATION FairSpec
CONSTANTS
  n1 = n1  n2 = n2  c1 = c1  c2 = c2
  Nodes <- MCNodes
  NoNode = NoNode
  Channels <- MCChannels
  MaxFaults = 5
CHECK_DEADLOCK FALSE
INVARIANT NothingForgotten
PROPERTY SubscriptionsAreRestored
