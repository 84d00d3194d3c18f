---------------------------- MODULE MCChangeFlow ----------------------------
(***************************************************************************)
(* Small instances of planChange and executeChange: a custom kind that two *)
(* API groups may serve, a pod, a namespace, a project, a release, two     *)
(* clusters of which one is called "prod", and requests of every           *)
(* operation, with near misses of one another.                             *)
(***************************************************************************)
EXTENDS ChangeFlow

Request(operation, cl, namespace, kind, name, body) ==
  [operation |-> operation, cluster |-> cl, namespace |-> namespace, kind |-> kind,
   version |-> "", name |-> name, container |-> "", project |-> "", body |-> body]

Manifest(namespace, version) ==
  [kind |-> "App", name |-> "a", namespace |-> namespace, version |-> version]

Create == Request("createKubernetesResource", "c", "", "App", "a", Manifest("n", "g1"))
Patch == Request("patchKubernetesResource", "c", "n", "App", "a", [replicas |-> 1])
Delete == Request("deleteKubernetesResource", "c", "n", "App", "a", <<>>)
Exec == Request("execPod", "c", "n", "", "p", [command |-> "ls"])
Move == [Request("moveNamespace", "c", "n", "", "", <<>>) EXCEPT !.project = "web"]
Project == Request("createProject", "c", "", "", "web", [cpu |-> 2, memory |-> 0])
Custom == Request("createCustomCluster", "", "", "", "new", [cni |-> "calico"])
Imported == Request("createImportedCluster", "", "", "", "new", <<>>)
K3k == Request("createK3kCluster", "c", "n", "", "k", [servers |-> 1, agents |-> 0])

\* The cluster by its display name.
Named(p) == [p EXCEPT !.cluster = "prod"]

\* A creation whose namespace is in the parameter alone.
CreateIn(namespace) ==
  [Create EXCEPT !.namespace = namespace, !.body = Manifest("", "g1")]

\* One of each operation.
MCOperations == {Create, Patch, Delete, Exec, Move, Project, Custom, Imported, K3k}

\* Variants: another object, patch, version, command, container, project, and
\* requests the dispatcher or a handler refuses.
MCVariants ==
  { CreateIn("n"), [Create EXCEPT !.namespace = "m"], [Create EXCEPT !.name = "b"],
    [Patch EXCEPT !.body = [replicas |-> 2]], [Patch EXCEPT !.version = "g2"],
    [Delete EXCEPT !.version = "g1"], [Delete EXCEPT !.name = ""],
    [Exec EXCEPT !.container = "side"], [Exec EXCEPT !.body = [command |-> "rm"]],
    [Move EXCEPT !.project = "p1"], [Project EXCEPT !.body = [cpu |-> 0, memory |-> 1]],
    [Custom EXCEPT !.body = [cni |-> "none"]],
    [Imported EXCEPT !.body = [management |-> "true"]],
    [K3k EXCEPT !.body = [servers |-> 3, agents |-> -1]] }

OnCluster == {Create, Patch, [Delete EXCEPT !.version = "g1"], Exec, Move, K3k}

MCRequests == MCOperations \cup MCVariants \cup {Named(p) : p \in OnCluster}

\* What others may change in a behaviour: what its requests depend on.
Scenario(requests, refs, ids, kinds, projects, names) ==
  [agenda |-> requests, objects |-> refs, served |-> [x \in ids \X kinds |-> {"g1"}],
   projectID |-> [x \in ids \X projects |-> "p1"], clusterID |-> [d \in names |-> "c"],
   release |-> "r1"]

Of(operations) == {p \in MCOperations \cup MCVariants : p.operation \in operations}

App == Ref("c", "g1", "App", "n", "a")
Pod == Ref("c", "v1", "pod", "n", "p")
Namespace == Ref("c", "v1", "namespace", "", "n")

\* Requests by the name of a cluster.
Renamed(requests, refs, kinds, projects) ==
  Scenario(requests, refs \cup {[r EXCEPT !.cluster = "d"] : r \in refs}, {"c", "d"},
           kinds, projects, {"prod"})

DeleteApp == [Delete EXCEPT !.version = "g1"]

MCScenarios ==
  {Scenario(Of({o}), {App}, {"c"}, {"App"}, {}, {}) : o \in Generic}
  \cup {Scenario(Of({o}), {}, {"c"}, {}, {}, {}) : o \in Creations}
  \cup { Scenario({Create, Patch}, {App}, {"c"}, {"App"}, {}, {}),
         Scenario({Create, Delete}, {App}, {"c"}, {"App"}, {}, {}),
         Scenario({Patch, Delete}, {App}, {"c"}, {"App"}, {}, {}),
         Scenario(Of({"execPod"}), {Pod}, {"c"}, {}, {}, {}),
         Scenario(Of({"moveNamespace"}), {Namespace}, {"c"}, {}, {"web", "p1"}, {}) }
  \cup { Renamed({Named(Create)}, {App}, {"App"}, {}),
         Renamed({Named(Patch)}, {App}, {"App"}, {}),
         Renamed({Named(DeleteApp)}, {App}, {"App"}, {}),
         Renamed({Named(Exec)}, {Pod}, {}, {}),
         Renamed({Named(Move)}, {Namespace}, {}, {"web"}),
         Renamed({Named(K3k)}, {}, {}, {}) }

\* A plan for one container, an execution for another.
MCContainers ==
  {Scenario({Exec, [Exec EXCEPT !.container = "side"]}, {Pod}, {"c"}, {}, {}, {})}

\* A deletion by the name of a cluster.
MCDeletion == {Renamed({Named(DeleteApp)}, {App}, {"App"}, {})}

Mode(r, a, e) == [readOnly |-> r, autoWrite |-> a, enableExec |-> e]

\* Commands ask also where auto-write lets other changes pass.
MCModes == {Mode(FALSE, FALSE, FALSE), Mode(FALSE, TRUE, TRUE), Mode(TRUE, FALSE, TRUE)}

MCAsking == {Mode(FALSE, FALSE, TRUE)}

Symmetries == Permutations(Calls)

=============================================================================
