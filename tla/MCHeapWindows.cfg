CONSTANTS
  Threads = {t1, t2}
  Windows = TRUE
  UINT32_MAX = 3
  SIZE_MAX = 127
  WASM_PAGE_SIZE = 2
  WASM_HEAP_GUARD_PAGE_SIZE = 4
  WASM_HEAP_ALIGNMENT = 8
  WASM_HEAP_DEFAULT_MAX_PAGES = 2
  OsPageSize = 2
  MmapLimit = 16
  AddressEnd = 44
  Retries = 2
  MinCapacities = {0, 4, 5}
  InitialPages = {0, 1}
SPECIFICATION FairSpec
INVARIANTS
  LiveHeapsIntact
  NoLeak
PROPERTY CreateReturns
