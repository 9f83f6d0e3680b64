SPECIFICATION Spec
CONSTANTS
  Commands <- CallsCommands
  Batches <- CallsBatches
  Name <- MCName
  Argument <- MCArgument
  Dbs = {0, 1}
  NoCmd = NoCmd
  NoDb = NoDb
  LazyConnect = TRUE
  EnableOfflineQueue = TRUE
  EnableReadyCheck = FALSE
  AutoResend = FALSE
  OptionsDb = 0
  MaxRetriesPerRequest = 1
  RetryLimit = 3
  CommandTimeout = TRUE
  ReconnectOnError = {"reject", "resend"}
  HelloReplies = {"ok", "noproto", "error"}
  InfoReplies = {"ok"}
  ConnectFrom = {"wait", "end"}
  DisconnectFrom = {"wait", "connecting", "connect", "ready", "reconnecting", "end"}
  MaxCalls = 2
  MaxFaults = 2
INVARIANTS SocketMatchesStatus AtMostOnce
PROPERTIES ClosedStaysClosed ImplementsLifecycle
CHECK_DEADLOCK FALSE
