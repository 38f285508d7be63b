\* Two calls of any kind, with any outcome.
SPECIFICATION Spec
CONSTANTS
  gpu = gpu  cpu = cpu  p1 = p1  p2 = p2
  Devices <- MCDevices
  Programs <- MCPrograms
  MaxBuilds = 2
  None = None
INVARIANTS TypeOK NotifyFindsBlock EventTellsTruth NoLeak
PROPERTIES ImplementsPromise EventSettles CallbackFreed
\* The host may stop building and drop its last Program.
CHECK_DEADLOCK FALSE
