CONSTANTS
  Sandboxes = {s1, s2}
  Imported = {s1}
  ClockAllocates = FALSE
  RLBOX_USE_EXCEPTIONS = TRUE
  Reuse = TRUE
  Slots = {1, 2}
  Sizes = {1, 2}
  MaxCreates = 2
SPECIFICATION Spec
CHECK_DEADLOCK FALSE
INVARIANT CallsReachInstance
