\* The switches of automation alone matter here.
CONSTANTS
  w1 = w1
  w2 = w2
  p1 = p1
  p2 = p2
  rates = rates
  other = other
  h1 = h1
  NoCode = "none"
  SupplierCode = "401"
  VatCode = "445"
  Plans = {"free", "pro"}
  PlanCap <- MCPlanCap
  Caps = {0, 2}
  Requested <- MCRequested
  Bills <- MCBills
  Answers <- MCAnswers
  ExpenseCodes = {"601", "628"}
  Charts <- MCCharts
  Slugs = {"K10"}
  Verdicts <- MCVerdicts
  IntakeRequests = {r1, r2}
  Mails <- MCMails
  MaxDocuments = 4
  Writers = {h1, h2}
  Procedures = {p1, p2}
  NoProcedure = NoProcedure
  OwnerOf <- OneEach
  TenantIds = {w1, w2}
  Rules = {rates, other}
  RatesRule = rates
  Contents <- MCContents
  Ceilings = {2000, 2500}
  FixtureCeiling = 2500
  Queries <- MCQueries
  MaxHits = 2
  Runners = {r1, r2}
  Ops = {o1, o2}
  Moves = {1, 2, 3, 4, 5, 6}
  NoOp = NoOp
  NoMove = NoMove
  MaxAttempts = 3
  RetryableCauses = {"network"}
  Mortal = {r1}
SPECIFICATION Spec
INVARIANT ZeroCapQueues
CHECK_DEADLOCK FALSE
