SPECIFICATION LifecycleFairSpec
CONSTANTS
  MaxDataNum = 2
  NoData = NoData
  Payload = {p1}
  Polling = {}
  MaxEntries = 2
INVARIANTS
  LifecycleExclusion
  ResetWhenParked
  StoppedIsQuiet
PROPERTY
  CallsReturn
