-------------------------- MODULE MCClusterClient --------------------------
(***************************************************************************)
(* Two clusters, of which one may bear the ID of the other as its display  *)
(* name, and a custom kind in up to two API groups.                        *)
(***************************************************************************)
EXTENDS ClusterClient, TLC

List(group, kinds) == [group |-> group, version |-> "v1", kinds |-> kinds]

Old == <<List("apps", {"Pod"})>>
Both == <<List("g1", {"App"}), List("g2", {"App"})>>

MCListings == {Old, Both}

Get(cl, kind, group, version) ==
  [operation |-> "get", cluster |-> cl, kind |-> kind, group |-> group, version |-> version]

AnyVersion(cl, group) == [Get(cl, "Pod", group, "") EXCEPT !.operation = "any"]

Served(a, b) == [i \in {"A", "B", "local"} |-> IF i = "B" THEN b ELSE a]

Start(requests, called, a, b) ==
  [agenda |-> requests, clusters |-> called, served |-> Served(a, b)]

\* Calls by name and by ID, of a kind with and without its version; one cluster
\* with a name that another may get, one that has the other's ID as its name.
MCStarts ==
  { Start({Get("x", "App", "g1", "v1")}, [i \in {"A"} |-> "x"], Old, Both),
    Start({Get("x", "App", "", "")},
          [i \in {"A", "B"} |-> IF i = "A" THEN "x" ELSE "A"], Both, Old),
    Start({AnyVersion("x", "apps"), Get("x", "", "", "")},
          [i \in {"A", "B"} |-> IF i = "A" THEN None ELSE "x"], Old, Old),
    Start({Get("A", "Pod", "", ""), Get("local", "Pod", "", "")},
          [i \in {"A", "B"} |-> IF i = "A" THEN "x" ELSE "A"], Both, Old) }

MCRequests == UNION {s.agenda : s \in MCStarts}

=============================================================================
