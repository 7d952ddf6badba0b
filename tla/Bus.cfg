\* Threads die anywhere, the broker may refuse, tasks are redelivered (no
\* symmetry: the run checks liveness).
CONSTANTS
  Requests = {q1}
  Workers = {w1, w2}
  Events = {1, 2, 3}
  NoEvent = 0
  dispatch = dispatch
  dept = dept
  Handlers <- MCHandlers
  Router = dispatch
  Registry <- MCRegistry
  Timeout = 600
  Retry = 900
  MaxAttempts = 2
  Mortal = {q1, w1, w2}
  BrokerFails = TRUE
SPECIFICATION SideSpec
INVARIANTS DispatchedWasRouted RerunNeedsDeath
PROPERTIES ImplementsEventLifecycle QueuedSettles
CHECK_DEADLOCK FALSE
