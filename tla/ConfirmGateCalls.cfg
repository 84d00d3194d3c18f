\* Three calls in auto-write mode race for two tokens, of an operation that is
\* bypassed and of a deletion, across expiry and one restart, under fair
\* scheduling.
SPECIFICATION FairSpec
CONSTANTS
  Calls = {c1, c2, c3}
  Nonces = {n1, n2}
  create = create
  exec = exec
  delete = delete
  Ops <- MCOps
  NeverBypassed <- MCDeletions
  Deletions <- MCDeletions
  AutoWrite = TRUE
  TokenTTL = 1
  MaxClock = 2
  MaxRestarts = 1
  NoNonce = NoNonce
  NoOp = NoOp
  NoCall = NoCall
INVARIANTS
  TypeOK
  IInv
  UsedOnceWhileValid
  ApprovedByGate
PROPERTIES
  ImplementsLedger
  TokenCheckEnds
CHECK_DEADLOCK FALSE
