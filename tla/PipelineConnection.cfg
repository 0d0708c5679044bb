SPECIFICATION FairSpec
CONSTANTS
  MaxDataNum = 2
  NoData = NoData
  Payload = {p1, p2}
  Polling = {"source", "target"}
INVARIANTS
  ListExclusion
  BuffersConserved
  NoLostWakeup
PROPERTIES
  SameBufferUntilCommit
  ImplementsChannel
  WaitersServed
CHECK_DEADLOCK FALSE
