SPECIFICATION MCSpec
CONSTANTS
  Threads = {t1, t2, t3}
  NoThread = NoThread
  t1 = t1
  t2 = t2
  t3 = t3
  c1 = c1
  c2 = c2
  w1 = w1
  w2 = w2
  o1 = o1
  o2 = o2
  q1 = q1
  q2 = q2
  e1 = e1
  e2 = e2
  Element = {e1, e2}
  AllWaiters = {t1}
  OneThread = {t1}
  MaxPending = 2
  ServiceWorker = {w1}
  Client = {c1, c2}
  Queue = {q1, q2}
  MaxCalls = 4
  Outstanding = 1
  PoolOwner = {o1, o2}
  PoolWorker = {w1, w2}
  MaxSize = 1
  NoOwner = NoOwner
  Order <- MCOrder
  InputBuffers = 1
  Block = {b1, b2, b3}
  Buffers = 2
  Shapes = {{"input"}, {"output"}}
INVARIANTS
  NoLostWakeup
  NoWaitMissed
  PoolsSound
PROPERTIES
  ImplementsEvent
  ImplementsPosix
  CallsReturn
  TasksRun
CHECK_DEADLOCK FALSE
