SPECIFICATION Spec
CONSTANTS
  Scanners = {"flatbed"}
  Document <- TwoChunks
  SizeChecked = 1
  TIME_BITS = 1
  SEQ_BITS = 1
  THREAD_BITS = 0
  Ticks <- Clock
  MaxScans = 3
  MaxFetches = 2
  MaxChannels = 2
CHECK_DEADLOCK FALSE
INVARIANTS TypeOK FileHoldsScan MisuseHasCause
PROPERTIES ButtonsComeBack
