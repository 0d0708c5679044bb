SPECIFICATION Spec
CONSTANTS
  User = {u1, u2}
  Value = {0, 2}
  None = None
  Last = 2
  Interval = 1
  Tolerance = 1
  DisplayTolerance = 2
  Wrap = 64
  Capacity = 1
  Effect = {e1}
  MaxRequests = 2
PROPERTIES
  RequestsDelivered
  NothingSkipped
  PlaybackGoesOn
CHECK_DEADLOCK FALSE
