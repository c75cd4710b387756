CONSTANTS
  Threads = {t1, t2}
  Windows = FALSE
  UINT32_MAX = 15
  SIZE_MAX = 15
  WASM_PAGE_SIZE = 4
  WASM_HEAP_GUARD_PAGE_SIZE = 1
  WASM_HEAP_ALIGNMENT = 0
  WASM_HEAP_DEFAULT_MAX_PAGES = 1
  OsPageSize = 1
  MmapLimit = 64
  AddressEnd = 15
  Retries = 2
  MinCapacities = {0, 10}
  InitialPages = {1}
SPECIFICATION Spec
INVARIANT WholeProgramReserved
