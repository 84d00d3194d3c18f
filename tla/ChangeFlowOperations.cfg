\* Two calls, a token and the requests of one operation, or of two on one object,
\* among other clients, in all modes.
SPECIFICATION Spec
CONSTANTS
  Calls = {c1, c2}
  Nonces = {n1}
  Requests <- MCRequests
  Modes <- MCModes
  Scenarios <- MCScenarios
  Versions = {"g1", "g2"}
  ClusterIDs = {"c", "d"}
  ProjectIDs = {"p1", "p2"}
  Releases = {"r1", "r2"}
  None = None
  MaxDrift = 2
  MaxClock = 1
INVARIANTS
  TypeOK
  SentAsPlanned
  SentOncePerToken
  AlwaysAsked
PROPERTIES
  NoLostUpdate
SYMMETRY Symmetries
CHECK_DEADLOCK FALSE
