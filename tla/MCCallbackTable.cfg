CONSTANTS
  Threads = {t1, t2}
  Keys = {k1, k2}
  Callbacks = {c1, c2}
  HostFuncs = {f1}
  MAX_CALLBACKS = 2
  InitTableSize = 0
  MaxTableSize = 4
  Null = Null
SPECIFICATION FairSpec
INVARIANTS
  TypeOK
  IInv
  RegistryConsistent
  DispatchMatchesSlot
  GrownSlotsOwned
  NullPointerNeverGranted
PROPERTIES
  MutexReleased
  WithdrawnStaysWithdrawn
  ImplementsRegistry
