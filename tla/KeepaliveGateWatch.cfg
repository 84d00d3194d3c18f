\* A dialog opens after a failed ping.
SPECIFICATION Spec
CONSTANTS
  d1 = d1
  d2 = d2
  d3 = d3
  d4 = d4
  s1 = s1
  s2 = s2
  Dialogs = {d1, d2, d3}
  Sessions = {s1}
  SessionOf <- MCOneSession
  MinSpacing = 2
  NoDialog = NoDialog
PROPERTIES
  OpensUnderWatch
CHECK_DEADLOCK FALSE
