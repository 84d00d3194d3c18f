\* Two operations of every kind, in both modes, among other edits.
SPECIFICATION Spec
CONSTANTS
  Calls = {c1, c2}
  AutoWrite = {TRUE, FALSE}
  PoolNames = {"p", "w", "cp"}
  PrefixedName <- MCPrefixedName
  Requests <- MCRequests
  InitialPools <- MCInitialPools
  Quantities = {1, 4}
  Half = 8
INVARIANTS
  TypeOK
  SentAsPlanned
  IInv
PROPERTIES
  SafeUndisturbed
CHECK_DEADLOCK FALSE
