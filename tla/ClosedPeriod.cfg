\* One request posts a draft, another locks the period it is dated in.
CONSTANTS
  Threads = {t1}
  Entries = {e1}
  Journals = {j1}
  NoThread = NoThread
  NoEntry = NoEntry
  NoJournal = NoJournal
  NoName = NoName
  MaxNumber = 1
  Acts = {"post"}
  Mortal = {}
  PeriodThreads = {v1}
  PeriodKeys = {p1}
  MaxDiary = 1
  PeriodOf <- OnePeriod
SPECIFICATION BooksSpec
PROPERTY NoPostingWhenClosed
CHECK_DEADLOCK FALSE
