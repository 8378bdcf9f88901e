SPECIFICATION FairSpec
CONSTANTS
  a = a
  b = b
  c = c
  d1 = d1
  d2 = d2
  s1 = s1
  w1 = w1
  w2 = w2
  NoDevice = NoDevice
  NoHandle = NoHandle
  Calls = {a, b}
  Devices = {d1}
  Scanners = {s1}
  DeviceOf <- OwnDevice
  ScannerOf <- OneScanner
  Chunks = 3
  PacketChunks = 2
  Mock = FALSE
  WriteThreads = {w1, w2}
CHECK_DEADLOCK FALSE
INVARIANTS TypeOK OneWriteAtATime OneStatus ChunksInOrder OkMeansComplete OnlyCancelMisuses
PROPERTIES PromiseToA EveryCallEnds
