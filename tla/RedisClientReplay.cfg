SPECIFICATION Spec
CONSTANTS
  Commands <- ReplayCommands
  Batches <- ReplayBatches
  Name <- MCName
  Argument <- MCArgument
  Dbs = {0, 1}
  NoCmd = NoCmd
  NoDb = NoDb
  LazyConnect = FALSE
  EnableOfflineQueue = TRUE
  EnableReadyCheck = TRUE
  AutoResend = TRUE
  OptionsDb = 0
  MaxRetriesPerRequest = 1
  RetryLimit = 3
  CommandTimeout = FALSE
  ReconnectOnError = {"reject", "reconnect"}
  HelloReplies = {"ok", "error"}
  InfoReplies = {"ok", "loading", "wrongrole"}
  ConnectFrom = {}
  DisconnectFrom = {}
  MaxCalls = 0
  MaxFaults = 2
INVARIANTS TypeOK RepliesMatchQueue RunsInRecordedDb HeldOnce
PROPERTIES PipelineInOrder ResolvedIsDone
CHECK_DEADLOCK FALSE
