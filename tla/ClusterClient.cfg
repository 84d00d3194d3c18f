\* Two concurrent calls, two clusters that are created, renamed and deleted.
SPECIFICATION Spec
CONSTANTS
  Calls = {c1, c2}
  Requests <- MCRequests
  BuiltIn = {"Pod"}
  ClusterIDs = {"A", "B"}
  Names = {"x", "A"}
  Listings <- MCListings
  Starts <- MCStarts
  None = None
  TTL = 1
  MaxNow = 1
  MaxDrift = 1
INVARIANTS
  TypeOK
  KnownIDs
  NamedSo
  DiscoveryMatches
  FreshNotFound
PROPERTIES
  Answered
CHECK_DEADLOCK FALSE
