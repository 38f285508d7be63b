SPECIFICATION MCSpec
CONSTANTS
  Side = 4
  GroupSide = 2
  ComputeUnits = 2
  MaxFailures = 2
  MaxPlatforms = 2
  MaxDevices = 2
  MaxSubDevices = 3
  MaxInput = 2
  Tasks = {"select", "sub_devices"}
  Examples = {"buffer_readwrite", "buffer_copy", "buffer_fill_map", "buffer_rectangle",
    "kernel_execution", "event_profiling", "application_matmul"}
INVARIANTS
  LaunchComputes
  RaceFree
  ResultsSound
  NothingOutlives
  OffersMatching
  SubDevicesReleased
PROPERTIES
  LaunchEnds
  Concludes
  SelectionEnds
CHECK_DEADLOCK FALSE
