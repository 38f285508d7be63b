\* No registration fails, no callback is empty.
SPECIFICATION MCSpec
CONSTANTS
  Parts = {"event"}
  w1 = w1  w2 = w2  w3 = w3
  buffer = buffer  program = program  device11 = device11
  None = None
  Wrappers <- MCWrappers
  Objects <- MCObjects
  Counted <- MCCounted
  MaxRaw = 2
  MaxThrows = 2
  e1 = e1  e2 = e2  c1 = c1  c2 = c2
  Events <- MCEvents
  Callbacks <- Two
  MayFail = FALSE
  MaxEmpty = 0
INVARIANT ReverseOrder
CHECK_DEADLOCK FALSE
