CONSTANTS
  Threads = {t1, t2}
  Keys = {k1, k2}
  Callbacks = {c1, c2}
  HostFuncs = {f1}
  MAX_CALLBACKS = 2
  InitTableSize = 1
  MaxTableSize = 3
  Null = Null
SPECIFICATION Spec
SYMMETRY Symmetry
INVARIANT FullTableHoldsLiveEntries
