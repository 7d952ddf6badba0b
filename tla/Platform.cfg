\* The drift detector, the poller, sessions and connections.
CONSTANTS
  w1 = w1
  w2 = w2
  you = you
  c1 = c1
  c2 = c2
  u1 = u1
  key1 = key1
  Runners = {r1}
  Ops = {o1}
  Moves = {m1, m2}
  NoOp = NoOp
  NoMove = NoMove
  MaxAttempts = 2
  RetryableCauses = {"network"}
  Mortal = {r1}
  NoState = NoState
  MoveIds = {1, 2, 3}
  PollLimit = 2
  Overlap = 1
  LastSecond = 3
  Requests = {q1, q2}
  Tenants = {w1, w2}
  NoTenant = NoTenant
  Me = me
  People = {me, you}
  Nobody = Nobody
  Joined <- JoinedInOrder
  DatabaseModes = {"sqlite", "rls"}
  ConThreads = {t1, t2}
  Connections = {c1, c2}
  NoConnection = NoConnection
  Rank <- RankByName
  Urls = {u1}
  NoUrl = NoUrl
  Keys = {key1}
  NoKey = NoKey
  Forms <- MCForms
SYMMETRY Symmetry
SPECIFICATION Spec
INVARIANTS ReportIsTrue ConnectionIsAsSaved AuditNamesTheErp
PROPERTIES NothingIsSkipped TenantIsRespected
CHECK_DEADLOCK FALSE
