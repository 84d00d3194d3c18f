\* Three dialogs of one session, one of another, fair scheduling.
SPECIFICATION FairSpec
CONSTANTS
  d1 = d1
  d2 = d2
  d3 = d3
  d4 = d4
  s1 = s1
  s2 = s2
  Dialogs = {d1, d2, d3, d4}
  Sessions = {s1, s2}
  SessionOf <- MCTwoSessions
  MinSpacing = 1
  NoDialog = NoDialog
INVARIANTS
  TypeOK
  OpenCount
  NoOrphanWatchdog
  IInv
PROPERTIES
  WatchdogStops
CHECK_DEADLOCK FALSE
