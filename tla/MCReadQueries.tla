---------------------------- MODULE MCReadQueries ----------------------------
(***************************************************************************)
(* One scenario per tool, or per way through it: a few objects of one      *)
(* downstream cluster, A, and what others may create or edit.              *)
(***************************************************************************)
EXTENDS ReadQueries

MCOrder == <<"", "n1", "n2", "p", "q", "r", "s">>

Blank ==
  [label |-> "", owners |-> <<>>,
   spec |-> [management |-> "", pools |-> <<>>, displayName |-> "",
             backing |-> "", user |-> "", cluster |-> "",
             running |-> FALSE, apps |-> <<>>, inits |-> <<>>, usage |-> <<>>]]

Labelled(label) == [Blank EXCEPT !.label = label]
OwnedBy(owners) == [Blank EXCEPT !.owners = owners]
O(kind, name) == [kind |-> kind, name |-> name]

V(ref, data) == [ref |-> ref, data |-> data]

StoreOf(items) == [r \in {i.ref : i \in items} |-> (CHOOSE i \in items : i.ref = r).data]

Query(tool, cluster, namespace, name) ==
  [tool |-> tool, cluster |-> cluster, namespace |-> namespace, name |-> name,
   kind |-> "pod", user |-> "", offset |-> 0, limit |-> 0]

Scenario(query, items, others) ==
  [query |-> query, store |-> StoreOf(items), variants |-> others]

Known(cluster) == V(Ref("local", "managementcluster", "", cluster), Blank)

-----------------------------------------------------------------------------

Local(kind, name) == Ref("local", kind, "fleet-default", name)

Provisioned(management, pools) ==
  [Blank EXCEPT !.spec.management = management, !.spec.pools = pools]

Machinery ==
  {Known("A"),
   V(Local("provisioningcluster", "c"), Provisioned("A", <<"p1", "p2">>)),
   V(Local("capicluster", "c"), Blank),
   V(Local("machineconfig", "p1"), Blank), V(Local("machineconfig", "p2"), Blank),
   V(Local("machine", "m"), Labelled("c")), V(Local("machine", "o"), Labelled("other"))}

\* A cluster whose pools are edited, one whose namespace was guessed wrong, one
\* without its management cluster's name.
Clusters ==
  {Scenario(Query("analyzeCluster", "c", "", ""), Machinery,
            {V(Local("provisioningcluster", "c"), Provisioned("A", <<"p2">>))}),
   Scenario(Query("analyzeCluster", "local", "", ""), Machinery, {}),
   Scenario(Query("analyzeCluster", "c", "", ""),
            {V(Local("provisioningcluster", "c"), Provisioned("", <<>>))},
            {V(Local("provisioningcluster", "c"), Provisioned("A", <<>>))}),
   Scenario(Query("analyzeClusterMachines", "c", "", ""), Machinery,
            {V(Local("machineset", "s"), Labelled("c"))})}

\* A machine of two sets, of which the last has no deployment; and one of one
\* set, which another deployment adopts.
Machine(sets) ==
  Scenario(Query("getClusterMachine", "c", "", "m"),
    {V(Local("machine", "m"), OwnedBy(sets)),
     V(Local("machineset", "s1"), OwnedBy(<<O("machinedeployment", "d1")>>)),
     V(Local("machineset", "s2"), Blank),
     V(Local("machinedeployment", "d1"), Blank),
     V(Local("machinedeployment", "d2"), Blank)},
    {V(Local("machineset", "s1"), OwnedBy(<<O("machinedeployment", "d2")>>)),
     V(Local("machine", "m"), OwnedBy(<<O("machineset", "s2")>>))})

Machinists ==
  {Machine(<<O("machineset", "s1"), O("machineset", "s2")>>),
   Machine(<<O("machineset", "s1")>>)}

-----------------------------------------------------------------------------

In(kind, namespace, name) == Ref("A", kind, namespace, name)

Pod(running, apps, inits) ==
  [Blank EXCEPT !.spec.running = running, !.spec.apps = apps, !.spec.inits = inits]

Metrics(usage) == [Blank EXCEPT !.spec.usage = usage]

Inspected ==
  {Known("A"),
   V(In("pod", "n1", "p"), OwnedBy(<<O("node", "x"), O("replicaset", "r")>>)),
   V(In("replicaset", "n1", "r"), OwnedBy(<<O("deployment", "p")>>)),
   V(In("deployment", "n1", "p"), Labelled("p")),
   V(In("podmetrics", "n1", "p"), Metrics(<<1>>))}

Deployed ==
  {Known("A"), V(In("deployment", "n1", "p"), Labelled("p")),
   V(In("pod", "n1", "q"), Labelled("p")), V(In("pod", "n2", "q"), Labelled("p")),
   V(In("pod", "n1", "r"), Labelled("r"))}

Everywhere ==
  {Known("A"), Known("B"), V(In("pod", "n1", "p"), Blank),
   V(Ref("B", "pod", "n1", "p"), Blank), V(In("k3kcluster", "n1", "k"), Blank)}

Workload ==
  {Scenario(Query("inspectPod", "A", "n1", "p"), Inspected,
            {V(In("replicaset", "n1", "r"), OwnedBy(<<>>))}),
   Scenario(Query("getDeploymentDetails", "A", "n1", "p"), Deployed,
            {V(In("deployment", "n1", "p"), Labelled("r"))}),
   Scenario(Query("getNodes", "A", "", ""),
            {Known("A"), V(In("node", "", "x"), Blank),
             V(In("nodemetrics", "", "x"), Metrics(<<1>>))},
            {V(In("node", "", "y"), Blank)})}
  \cup {Scenario(Query(tool, cluster, "", ""), Everywhere, {}) :
          tool \in {"getClusterImages", "getK3kClusters"}, cluster \in {"", "A"}}

-----------------------------------------------------------------------------

Titled(name) == [Blank EXCEPT !.spec.displayName = name]

Project(name) == Ref("local", "project", "A", name)

Projects ==
  {Known("A"), V(Project("p1"), Titled("x")), V(Project("p2"), Titled("y")),
   V(In("namespace", "", "n1"), Labelled("p1")),
   V(In("namespace", "", "n2"), Labelled("p2"))}

\* Two init containers of which one needs more than the containers together.
Used ==
  {V(In("pod", "n1", "p"), Pod(TRUE, <<1, 1>>, <<3, 1>>)),
   V(In("pod", "n1", "q"), Pod(FALSE, <<2>>, <<>>)),
   V(In("podmetrics", "n1", "p"), Metrics(<<1, 2>>)),
   V(In("pod", "n2", "p"), Pod(TRUE, <<2, 1>>, <<1>>))}

Moves ==
  {V(In("namespace", "", "n1"), Labelled("p2")), V(Project("p1"), Titled("y"))}

Binding(cluster, user) == [Blank EXCEPT !.spec.cluster = cluster, !.spec.user = user]

Member == V(Ref("local", "projectroletemplatebinding", "p1", "b"), Binding("A", "u"))

User(name) == [Blank EXCEPT !.spec.user = name]

\* A project with a backing namespace, a user whose ID is another's user name.
Bindings ==
  Projects \cup
  {Member,
   V(Project("p3"), [Titled("w") EXCEPT !.spec.backing = "A-p3"]),
   V(Ref("local", "projectroletemplatebinding", "A-p3", "b"), Binding("A", "v")),
   V(Ref("local", "projectroletemplatebinding", "A-p3", "c"), Binding("B", "u")),
   V(Ref("local", "clusterroletemplatebinding", "A", "b"), Binding("A", "u")),
   V(Ref("local", "user", "", "u"), User("x")), V(Ref("local", "user", "", "t"), User("u"))}

For(user, query) == [query EXCEPT !.user = user]

Roles ==
  {Scenario(For(user, Query("listProjectRoleTemplateBindings", "A", "", name)), Bindings,
            {V(Project("p3"), Titled("w"))}) : user \in {"", "v"}, name \in {"", "w", "z"}}
  \cup {Scenario(For(user, Query("listClusterRoleTemplateBindings", "A", "", "")), Bindings, {}) :
          user \in {"", "v"}}
  \cup {Scenario(Query("getUser", "", "", name), Bindings,
                 {V(Ref("local", "user", "", "u"), User("v"))}) : name \in {"u", "v"}}

Singles ==
  {Scenario(Query(tool, "A", "fleet-default", "c"),
            {Known("A"), V(Local("gitrepo", "c"), Blank), V(Local("bundle", "c"), Blank),
             V(Ref("local", "gitrepo", "other", "c"), Blank),
             V(Ref("local", "roletemplate", "", "c"), Blank),
             V(In("pod", "fleet-default", "c"), Blank)}, {}) :
     tool \in OneReadTools}

Projected ==
  {Scenario(Query("getProject", "A", "", name), Projects \cup {Member}, Moves) :
     name \in {"p1", "y", "z"}}
  \cup {Scenario(Query("listProjects", "A", "", ""), Projects, Moves)}
  \cup {Scenario(Query("getResourceUsage", "A", namespace, name),
                 Projects \cup Used, Moves) :
          namespace \in {"", "n1"}, name \in {"", "p1", "x"}}

-----------------------------------------------------------------------------

Paged(namespace, offset, limit) ==
  Scenario([Query("listKubernetesResources", "A", namespace, "") EXCEPT
              !.offset = offset, !.limit = limit],
    {Known("A"), V(In("pod", "n1", "p"), Blank), V(In("pod", "n1", "q"), Blank),
     V(In("pod", "n1", "s"), Blank), V(In("pod", "n2", "p"), Blank)},
    {V(In("pod", "n1", "r"), Blank)})

Pages ==
  {Paged("", 0, 1), Paged("", -1, 0), Paged("", 1, 2), Paged("n1", 6, 1),
   Paged("", 5, 3), Paged("n1", 0, 7), Paged("", 7, 7)}

MCScenarios == Clusters \cup Machinists \cup Workload \cup Projected \cup Roles
                 \cup Singles \cup Pages

=============================================================================
