\* Two concurrent requests of every kind on two documents of one table.
CONSTANTS
  Threads = {t1, t2}
  Invoices = {i1, i2}
  Bills = {}
  Entries = {e1, e2}
  Totals = {1, 2}
  Sequences = {1, 2}
  NoThread = NoThread
  NoDocument = NoDocument
  NoEntry = NoEntry
SPECIFICATION SideSpec
SYMMETRY Symmetry
INVARIANTS PostedIsBooked SettledInFull FreshNumbers
PROPERTY ImplementsDocumentLifecycle
CHECK_DEADLOCK FALSE
