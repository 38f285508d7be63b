\* When raw_build_program rejects a call.
SPECIFICATION Spec
CONSTANTS
  gpu = gpu  cpu = cpu  p1 = p1  p2 = p2
  Devices <- MCDevices
  Programs <- MCPrograms
  MaxBuilds = 2
  None = None
PROPERTY RejectsOnlyDuringBuild
\* The host may stop building and drop its last Program.
CHECK_DEADLOCK FALSE
