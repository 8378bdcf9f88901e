SPECIFICATION Spec
CONSTANTS
  a = a
  b = b
  c = c
  d1 = d1
  d2 = d2
  s1 = s1
  w1 = w1
  w2 = w2
  NoDevice = NoDevice
  NoHandle = NoHandle
  Calls = {a, b}
  Devices = {d1}
  Scanners = {s1}
  DeviceOf <- SharedDevice
  ScannerOf <- OneScanner
  Chunks = 1
  PacketChunks = 5
  Mock = TRUE
  WriteThreads = {w1}
CHECK_DEADLOCK FALSE
INVARIANT MockClosesCancelled
