SPECIFICATION FairSpec
CONSTANTS
  n1 = n1  n2 = n2  s1 = s1  s2 = s2  c1 = c1  c2 = c2
  Nodes <- MCNodes
  NoNode = NoNode
  Slots <- MCSlots
  Channels <- MCChannels
  SlotOf <- MCSlotOf
  LazyConnect = TRUE
  CutStarts = FALSE
  FirstOwner <- MCFirstOwner
  MaxFaults = 4
CHECK_DEADLOCK FALSE
INVARIANT FailuresAreNoticed
PROPERTY ChannelsAreRestored
