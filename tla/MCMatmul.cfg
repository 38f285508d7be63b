SPECIFICATION MCSpec
CONSTANTS
  Side = 4
  GroupSide = 2
  ComputeUnits = 2
  MaxFailures = 0
  MaxPlatforms = 2
  MaxDevices = 2
  MaxSubDevices = 3
  MaxInput = 2
  Tasks = {}
  Examples = {"application_matmul"}
INVARIANT NeverAborts
CHECK_DEADLOCK FALSE
