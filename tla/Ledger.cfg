\* Two concurrent requests of every kind, each of which may die.
CONSTANTS
  j1 = j1
  j2 = j2
  Threads = {t1, t2}
  Entries = {e1, e2}
  Journals = {j1, j2}
  NoThread = NoThread
  NoEntry = NoEntry
  NoJournal = NoJournal
  NoName = NoName
  MaxNumber = 2
  Acts = {"post", "cancel", "edit"}
  Mortal = {t1, t2}
SPECIFICATION SideSpec
SYMMETRY Symmetry
INVARIANTS UniqueNames GapNeedsRaceOrCrash PostedIsBalanced
PROPERTIES PostedIsFinal ImplementsEntryLifecycle
CHECK_DEADLOCK FALSE
