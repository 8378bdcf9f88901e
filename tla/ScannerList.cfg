SPECIFICATION Spec
CONSTANTS
  get = get
  scan = scan
  refresh1 = refresh1
  refresh2 = refresh2
  n1 = n1
  n2 = n2
  NoOne = NoOne
  Handlers = {get, scan, refresh1, refresh2}
  Rpc <- OneOfEach
  Wanted <- FirstScanner
  Names = {n1, n2}
  LockedLoop = TRUE
  MaxEvents = 2
CHECK_DEADLOCK FALSE
INVARIANTS TypeOK NothingStaleUsed ListIsOfLastFetch RawDevicesValid AnswersFromOneList
PROPERTIES EveryHandlerReplies
