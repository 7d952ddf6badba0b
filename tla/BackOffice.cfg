\* Five components without a common row, each explored on its own.
CONSTANTS
  s1 = s1
  e1 = e1
  e2 = e2
  BankThreads = {t1, t2}
  Statements = {s1}
  BankLines = {l1, l2}
  NoLine = NoLine
  StatementOf <- OneStatement
  EntryLines = {e1, e2}
  NoEntryLine = NoEntryLine
  bank = bank
  other = other
  Accounts = {bank, other}
  BankAccount = bank
  Booked <- Movements
  EntryForms <- LedgerEdits
  BankAmounts = {100000}
  FormLines = {l2}
  DepThreads = {u1, u2}
  DepMortal = {u1, u2}
  DepLines = {d1, d2}
  DueLines = {d1}
  NewAsset <- NewMachine
  AssetForms <- FormChoices
  PeriodThreads = {v1, v2}
  PeriodKeys = {p1, p2}
  MaxDiary = 3
  Currencies = {EUR, XAF}
  LastDate = 3
  Rates <- RateChoices
  Quantities <- Halves
  Prices <- Cents
  TaxRates <- Percents
  WithholdingRates <- Withholdings
  MaxLines = 2
SPECIFICATION Spec
SYMMETRY Symmetry
INVARIANTS MatchesAreTrue StateFollowsLines DiaryTellsTheState RegularDocumentsPost
PROPERTIES FullyMeansCovered NoLookAhead
CHECK_DEADLOCK FALSE
