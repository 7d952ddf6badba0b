\* Two concurrent requests, each of which may die, on an item posted to Odoo and
\* an item of a standalone tenant; and change forms beside requests on each.
CONSTANTS
  Runners = {r1, r2}
  Ops = {o1, o2}
  Moves = {m1, m2}
  Items = {i1, i2}
  ErpItems = {i1}
  Mortal = {r1, r2}
  MaxAttempts = 1
  RetryableCauses = {}
  MaxLocal = 2
  NoOp = NoOp
  NoMove = NoMove
  NoItem = NoItem
  requests = requests
  Sides = {requests, i1, i2}
SPECIFICATION MCSpec
SYMMETRY SafetySymmetry
INVARIANTS ExecutedWasPosted NothingWithoutApproval DuplicateNeedsRaceOrCrash OutcomeIsMarked AnnouncedBillsExist
PROPERTY ImplementsItemLifecycle
CHECK_DEADLOCK FALSE
