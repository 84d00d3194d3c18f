\* Two calls present one token while its last second passes.
SPECIFICATION Spec
CONSTANTS
  Calls = {c1, c2}
  Nonces = {n1}
  create = create
  exec = exec
  delete = delete
  Ops <- MCCommands
  NeverBypassed <- MCCommands
  Deletions <- MCNone
  AutoWrite = FALSE
  TokenTTL = 1
  MaxClock = 3
  MaxRestarts = 0
  NoNonce = NoNonce
  NoOp = NoOp
  NoCall = NoCall
SYMMETRY GateSymmetry
INVARIANTS
  SingleUse
CHECK_DEADLOCK FALSE
