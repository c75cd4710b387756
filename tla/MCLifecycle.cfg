CONSTANTS
  Sandboxes = {s1, s2}
  Imported = {s1}
  ClockAllocates = TRUE
  RLBOX_USE_EXCEPTIONS = TRUE
  Reuse = FALSE
  Slots = {1, 2}
  Sizes = {1, 2}
  MaxCreates = 2
SPECIFICATION FairSpec
CHECK_DEADLOCK FALSE
INVARIANTS
  TypeOK
  NoMisuse
  ReleasedWhenGone
  CreatedIsComplete
  ReturnSlotFits
PROPERTIES
  CreateReturns
