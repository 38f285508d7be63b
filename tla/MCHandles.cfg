\* retain() may throw within operator=, twice at most.  Callbacks are set in time or
\* late; one may be empty, and registration may fail.
SPECIFICATION MCSpec
CONSTANTS
  Parts = {"handles", "event"}
  w1 = w1  w2 = w2  w3 = w3
  buffer = buffer  program = program  device11 = device11
  None = None
  Wrappers <- MCWrappers
  Objects <- MCObjects
  Counted <- MCCounted
  MaxRaw = 2
  MaxThrows = 2
  e1 = e1  e2 = e2  c1 = c1  c2 = c2
  Events <- MCEvents
  Callbacks <- Two
  MayFail = TRUE
  MaxEmpty = 1
INVARIANTS
  TypeOK
  CountsAgree
  NoDangling
  ExceptionCost
  StoreOutlivesRegistration
  CalledTogether
PROPERTIES
  ImplementsOwnership
  TimelyCallbackRuns
