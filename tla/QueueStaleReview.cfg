\* Two requests, one item: the docstring of ap_queue_detail.
CONSTANTS
  Runners = {r1, r2}
  Ops = {o1}
  Moves = {m1}
  Items = {i1}
  Mortal = {}
  ErpItems = {i1}
  MaxAttempts = 1
  RetryableCauses = {}
  MaxLocal = 0
  NoOp = NoOp
  NoMove = NoMove
  NoItem = NoItem
  requests = requests
  Sides = {requests}
SPECIFICATION MCSpec
PROPERTY ReviewedOnce
CHECK_DEADLOCK FALSE
