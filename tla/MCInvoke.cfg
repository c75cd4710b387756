CONSTANTS
  Threads = {t1, t2}
  s1 = s1
  s2 = s2
  Sandboxes = {s1, s2}
  NoSandbox = NoSandbox
  ping = ping
  plain = plain
  small = small
  large = large
  Functions = {ping, plain, small, large}
  Exports <- MCExports
  ReturnSize <- MCReturnSize
  ClassArgs <- MCClassArgs
  Interceptors = {1, 2}
  Promoted = {2}
  Blocks = {b1, b2}
  Null = Null
  MaxDepth = 4
SPECIFICATION Spec
SYMMETRY Symmetry
INVARIANTS
  TypeOK
  ThreadDataIsCurrent
  InterceptorReachesCaller
  KeyIsOwn
  ResultIsOwn
  ArgumentsIntact
  HeapAccounted
