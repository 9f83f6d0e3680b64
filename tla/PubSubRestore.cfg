SPECIFICATION FairSpec
CONSTANTS
  Commands <- RestoreCommands
  Name <- MCName
  Args <- MCArgs
  Channels = {"a", "b"}
  Protocols = {2, 3}
  AutoResubscribe = TRUE
  AutoResend = TRUE
  NoCmd = NoCmd
  NoChannel = NoChannel
  NoSet = NoSet
  NoCondition = NoCondition
  CutConfirmations = FALSE
  MaxFaults = 2
INVARIANTS NothingMisdelivered InSync
PROPERTIES Restored Answered
CHECK_DEADLOCK FALSE
