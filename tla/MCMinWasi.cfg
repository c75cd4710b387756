CONSTANTS
  U32 = 8
  MemorySizes = {6, 8}
  Memories <- MCMemories
  Values = {0, 1, 3, 7}
  Fds = {0, 1, 3}
  Iovcnts = {0, 1, 3}
  Pointers = {0, 2, 5, 6, 7}
  Inputs <- MCInputs
  StringLists <- MCStringLists
  ARGV_AND_ENV_LIMIT = 2
  ClockIds = {0, 3, 4}
  Clocks <- MCClocks
  THOUSAND = 2
  WASM2C_WASI_TRAP_ON_EXIT = FALSE
SPECIFICATION Spec
CHECK_DEADLOCK FALSE
INVARIANTS
  TypeOK
  InsideMemory
  CountsReported
  WrittenIsGathered
  StringsFit
  ClockIsTime
