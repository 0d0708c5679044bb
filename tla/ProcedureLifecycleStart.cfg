SPECIFICATION LifecycleSpec
CONSTANTS
  MaxDataNum = 1
  NoData = NoData
  Payload = {p1}
  Polling = {}
  MaxEntries = 1
INVARIANT StartedRuns
