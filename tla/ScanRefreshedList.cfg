SPECIFICATION NoSharingSpec
CONSTANTS
  a = a
  b = b
  c = c
  d1 = d1
  d2 = d2
  s1 = s1
  w1 = w1
  w2 = w2
  NoDevice = NoDevice
  NoHandle = NoHandle
  Calls = {a, b, c}
  Devices = {d1, d2}
  Scanners = {s1}
  DeviceOf <- RefreshedList
  ScannerOf <- OneScanner
  Chunks = 1
  PacketChunks = 1
  Mock = FALSE
  WriteThreads = {w1}
SYMMETRY SameCalls
CHECK_DEADLOCK FALSE
INVARIANTS FailureHasCause NoHandleLeaked
PROPERTIES OthersHandlesStay KeepsPromise
