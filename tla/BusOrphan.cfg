\* A worker dies mid-dispatch, the broker's retries as configured.
CONSTANTS
  Requests = {q1}
  Workers = {w1}
  Events = {1, 2, 3}
  NoEvent = 0
  dispatch = dispatch
  dept = dept
  Handlers <- MCHandlers
  Router = dispatch
  Registry <- MCRegistry
  Timeout = 600
  Retry = 900
  MaxAttempts = 3
  Mortal = {w1}
  BrokerFails = FALSE
SPECIFICATION SideSpec
INVARIANT QueuedHasTask
CHECK_DEADLOCK FALSE
