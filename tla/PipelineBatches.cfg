SPECIFICATION FairSpec
CONSTANTS
  r1 = r1  w1 = w1  w2 = w2  s1 = s1  s2 = s2  n1 = n1  n2 = n2
  Commands <- MCCommands
  Writes <- MCWrites
  Slots <- MCSlots
  Slot <- MCSlot
  Nodes <- MCNodes
  NoNode = NoNode
  AutoCommands <- MCAuto
  Batches <- MCBatches
  Transactions <- MCTransactions
  Refusals = {"ASK", "TRYAGAIN", "CLUSTERDOWN", "ERR"}
  MaxRedirections = 2
  AskAtLimit = FALSE
  MaxFaults = 2
INVARIANTS TypeOK WritesNotRepeated OwnResults
PROPERTY CallsAreAnswered
CHECK_DEADLOCK FALSE
