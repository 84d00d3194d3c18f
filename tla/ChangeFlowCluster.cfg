\* One call deletes by the name of a cluster, which leads elsewhere after the plan.
SPECIFICATION Spec
CONSTANTS
  Calls = {c1}
  Nonces = {n1}
  Requests <- MCRequests
  Modes <- MCAsking
  Scenarios <- MCDeletion
  Versions = {"g1", "g2"}
  ClusterIDs = {"c", "d"}
  ProjectIDs = {"p1", "p2"}
  Releases = {"r1", "r2"}
  None = None
  MaxDrift = 2
  MaxClock = 1
INVARIANTS
  DeletesPlanned
CHECK_DEADLOCK FALSE
