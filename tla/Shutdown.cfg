SPECIFICATION Spec
CONSTANTS
  serverctl = serverctl
  netcat = netcat
  NoOne = NoOne
  Ctls = {serverctl, netcat}
  Silent = {netcat}
  LocalNames = {1}
  RemoteNames = {}
  MaxFailures = 1
  MaxSignals = 2
  MaxCalls = 1
  MaxInputs = 2
  MaxEvents = 2
  Terminal = FALSE
CHECK_DEADLOCK FALSE
INVARIANTS TypeOK MisuseHasCause
PROPERTIES ShutdownEnds StopObeyed CtlEnds PublishedAgain
