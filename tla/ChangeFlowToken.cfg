\* One call, a plan for one container of a pod, an execution for another.
SPECIFICATION Spec
CONSTANTS
  Calls = {c1}
  Nonces = {n1}
  Requests <- MCRequests
  Modes <- MCModes
  Scenarios <- MCContainers
  Versions = {"g1", "g2"}
  ClusterIDs = {"c", "d"}
  ProjectIDs = {"p1", "p2"}
  Releases = {"r1", "r2"}
  None = None
  MaxDrift = 2
  MaxClock = 1
INVARIANTS
  TokenBindsParameters
CHECK_DEADLOCK FALSE
