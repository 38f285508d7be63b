\* Blocking and non-blocking commands, in order or out of order; a command may fail.
\* Two wrappings of a memory object with callbacks, registration may fail.  A program
\* may stop when its commands have run and its memory objects are gone.
SPECIFICATION MCSpec
CONSTANTS
  Parts = {"queue", "memory"}
  MaxCommands = 3
  MaxFailures = 1
  m1 = m1  m2 = m2  l1 = l1  l2 = l2  c1 = c1  c2 = c2  c3 = c3
  Wrappers <- MCWrappers
  Lists <- MCLists
  Callbacks <- Three
  MaxWraps = 2
  MayFail = TRUE
  MaxEmpty = 1
  None = None
INVARIANTS
  DataArrived
  SourceIntact
  BarrierSplits
  RegistrationsValid
  ListsReclaimed
  RunAsSet
  StackPerList
PROPERTY BlockedReturns
CHECK_DEADLOCK FALSE
