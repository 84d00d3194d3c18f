\* One operation without auto-write: the pool grows between the check, before the
\* dialog, and the patch, after it.
SPECIFICATION Spec
CONSTANTS
  Calls = {c1}
  AutoWrite = {FALSE}
  PoolNames = {"p", "w", "cp"}
  PrefixedName <- MCPrefixedName
  Requests <- MCDesired
  InitialPools <- MCInitialPools
  Quantities = {1, 4}
  Half = 8
PROPERTIES
  QuorumKept
CHECK_DEADLOCK FALSE
