SPECIFICATION FairSpec
CONSTANTS
  MaxTasks = 2
INVARIANTS
  ControlMatchesStatus
  PipelineStopsApart
PROPERTY
  CallsReturn
CHECK_DEADLOCK FALSE
