----------------------------- MODULE ReadQueries -----------------------------
(***************************************************************************)
(* The read-only tools: rancherQuery, diagnose and listKubernetesResources *)
(* (pkg/toolsets).  A tool is a sequence of requests, each to one API      *)
(* server, of which later ones depend on what earlier ones answered, while *)
(* other clients create, edit and delete what is being read.  No answer    *)
(* comes from one moment.                                                  *)
(*                                                                         *)
(* One call at a time: calls share nothing but the caches of ClusterClient.*)
(***************************************************************************)
EXTENDS Pagination, FiniteSetsExt, SequencesExt

CONSTANTS
  Scenarios, \* a query, the objects at the start, and what others may put in
             \* their place
  Order,     \* the names and namespaces of paged objects, in their order
  MaxDrift   \* bound: changes by other clients

\* Words of the tools' own among the strings.
Strings == STRING
Words ==
  {"", "local", "fleet-local", "fleet-default",
   "provisioningcluster", "managementcluster", "capicluster", "machineconfig",
   "machinedeployment", "machineset", "machine", "gitrepo", "bundle", "k3kcluster",
   "pod", "pods/log", "podmetrics", "replicaset", "deployment", "node", "nodemetrics",
   "namespace", "project", "user", "roletemplate", "clusterroletemplatebinding",
   "projectroletemplatebinding"}

ASSUME StringAssumption == Words \subseteq Strings

\* Every object has a name; a namespace is in no namespace.
References ==
  {r \in [cluster : Strings, kind : Strings, namespace : Strings, name : Strings \ {""}] :
     r.kind = "namespace" => r.namespace = ""}

\* A label stands for what lists select by; the fields of spec are those the
\* tools look at, in the kinds that have them.
Objects ==
  [label : Strings,
   owners : Seq([kind : Strings, name : Strings]),
   spec : [management : Strings, pools : Seq(Strings),
           displayName : Strings, backing : Strings, user : Strings, cluster : Strings,
           running : BOOLEAN, apps : Seq(Nat), inits : Seq(Nat), usage : Seq(Nat)]]

OneReadTools ==
  {"listClusters", "getKubernetesResource", "listGitRepos", "getGitRepo", "getBundle",
   "listRoleTemplates", "getRoleTemplate"}

Tools ==
  OneReadTools \cup
  {"analyzeCluster", "analyzeClusterMachines", "getClusterMachine", "inspectPod",
   "getDeploymentDetails", "getNodes", "getClusterImages", "getK3kClusters",
   "getProject", "listProjects", "getResourceUsage", "listKubernetesResources",
   "getUser", "listClusterRoleTemplateBindings", "listProjectRoleTemplateBindings"}

\* The parameters of a call, "" where not given.
Queries ==
  [tool : Tools, cluster : Strings, kind : Strings, namespace : Strings, name : Strings,
   user : Strings, offset : Ints, limit : Ints]

\* The log is asked for like an object of its own.
Served(kind) == IF kind = "pods/log" THEN "pod" ELSE kind

ASSUME ReadAssumption ==
  /\ \A s \in Scenarios :
       /\ s.query \in Queries
       /\ DOMAIN s.store \subseteq References /\ IsFiniteSet(DOMAIN s.store)
       /\ \A r \in DOMAIN s.store : s.store[r] \in Objects
       /\ \A v \in s.variants : v.ref \in References /\ v.data \in Objects
  /\ MaxDrift \in Nat

\* What is paged has its place in the order.
ASSUME OrderAssumption ==
  /\ Order \in Seq(Strings)
  /\ \A j, k \in DOMAIN Order : Order[j] = Order[k] => j = k
  /\ \A s \in Scenarios :
       s.query.tool = "listKubernetesResources" =>
         \A r \in DOMAIN s.store \cup {v.ref : v \in s.variants} :
           r.kind = Served(s.query.kind) => {r.namespace, r.name} \subseteq Range(Order)

VARIABLES
  store,    \* the objects of all clusters, by reference
  variants, \* objects other clients may create, or make of those there are
  drift,    \* changes so far
  touched,  \* history: what others have changed since the call began
  call      \* the call

vars == <<store, variants, drift, touched, call>>

Ref(cluster, kind, namespace, name) ==
  [cluster |-> cluster, kind |-> kind, namespace |-> namespace, name |-> name]

\* A request: what a NotFound means to the tool ("fail" the call, "skip" it,
\* "end" the answer, "search" by display name, or, like every other error of
\* such a request, "any"thing may be missing).
Get(cluster, kind, namespace, name, missing) ==
  [op |-> "get", cluster |-> cluster, kind |-> kind, namespace |-> namespace,
   name |-> name, label |-> "", missing |-> missing]

List(cluster, kind, namespace, label, missing) ==
  [Get(cluster, kind, namespace, "", missing) EXCEPT !.op = "list", !.label = label]

\* Pods of a namespace or project, what they request and what they use.
ZeroSample == [pods |-> 0, requests |-> 0, usage |-> 0]

Plus(a, b) ==
  [pods |-> a.pods + b.pods, requests |-> a.requests + b.requests,
   usage |-> a.usage + b.usage]

\* A call: the requests left, the objects of its answer; for the resource usage
\* the project, the pods of the namespace, the namespaces with their samples
\* and the totals of the projects; the pages so far and the next offset.
Called(query, reads, pc) ==
  [pc |-> pc, query |-> query, todo |-> reads, found |-> {}, project |-> "",
   pods |-> {}, spaces |-> {}, totals |-> <<>>, pages |-> <<>>,
   offset |-> IF query.tool = "listKubernetesResources" THEN query.offset ELSE 0]

Read == Head(call.todo)
Reads(tool) == call.pc = "reading" /\ call.query.tool = tool

Matching ==
  {r \in DOMAIN store :
     /\ r.cluster = Read.cluster /\ r.kind = Served(Read.kind)
     /\ IF Read.op = "get" THEN r.namespace = Read.namespace /\ r.name = Read.name
        ELSE Read.namespace \in {"", r.namespace} /\ Read.label \in {"", store[r].label}}

Got == {[ref |-> [r EXCEPT !.kind = Read.kind], data |-> store[r]] : r \in Matching}

The(items) == CHOOSE i \in items : TRUE

\* The proxy knows the cluster; a name is given.
Answers ==
  /\ \/ Read.cluster = "local"
     \/ Ref("local", "managementcluster", "", Read.cluster) \in DOMAIN store
  /\ Read.op = "get" => Read.name # ""

Absent == Read.op = "get" /\ Got = {}

\* (Defect: the call waits for a request that it does not make.)
OnwardsWaiting(state, more) == [state EXCEPT !.todo = more \o Tail(@)]
\* The call goes on with more requests before those that were left.
Onwards(state, more) ==
  LET left == more \o Tail(state.todo) IN
  [state EXCEPT !.todo = left, !.pc = IF left = <<>> THEN "done" ELSE "reading"]

Failed == Called(call.query, <<>>, "failed")

Without(kind) == {i \in call.found : i.ref.kind # kind}

Kept(found, more) == call' = Onwards([call EXCEPT !.found = found], more)

Found(found, more) == Answers /\ ~Absent /\ Kept(found, more)

-----------------------------------------------------------------------------
(* Clusters and their machines.                                             *)

ClusterNamespace(q) ==
  IF q.namespace # "" THEN q.namespace
  ELSE IF q.cluster = "local" THEN "fleet-local" ELSE "fleet-default"

MachineNamespace(q) == IF q.namespace # "" THEN q.namespace ELSE "fleet-default"

CAPIKinds == <<"machinedeployment", "machineset", "machine">>

\* getAllCAPIMachineResources
Machines(cluster, namespace) ==
  [k \in DOMAIN CAPIKinds |-> List("local", CAPIKinds[k], namespace, cluster, "skip")]

\* (Defect: the first pool's alone.)
PoolConfigsFirst(pools) ==
  [k \in DOMAIN pools \cap {1} |->
     Get("local", "machineconfig", "fleet-default", pools[k], "skip")]
\* getMachinePoolConfigs
PoolConfigs(pools) ==
  [k \in DOMAIN pools |-> Get("local", "machineconfig", "fleet-default", pools[k], "skip")]

\* What the provisioning cluster leads to.
ClusterParts(i) ==
  <<Get("local", "managementcluster", "", i.data.spec.management, "skip"),
    Get("local", "capicluster", "fleet-default", i.ref.name, "skip")>>
  \o PoolConfigs(i.data.spec.pools)
  \o Machines(call.query.cluster, "fleet-default")

AnalyzeCluster ==
  /\ Reads("analyzeCluster")
  /\ Found(call.found \cup Got,
           IF Read.kind = "provisioningcluster" THEN ClusterParts(The(Got)) ELSE <<>>)

AnalyzeClusterMachines ==
  Reads("analyzeClusterMachines") /\ Found(call.found \cup Got, <<>>)

\* A finite set as a sequence, by a strict total order of it.
InOrder(S, order) ==
  [k \in 1..Cardinality(S) |->
     CHOOSE x \in S : Cardinality({y \in S : <<y, x>> \in order}) = k - 1]

Owned(i, kind) ==
  LET those == {k \in DOMAIN i.data.owners : i.data.owners[k].kind = kind}
      places == InOrder(those, {p \in those \X those : p[1] < p[2]}) IN
  [k \in DOMAIN places |-> i.data.owners[places[k]]]

OwnerReads(i, kind) ==
  [k \in DOMAIN Owned(i, kind) |->
     Get("local", kind, "fleet-default", Owned(i, kind)[k].name, "end")]

\* (Defect: the deployment is looked for from every set.)
LastOfAny(kind) == TRUE
LastOf(kind) == \A k \in 2..Len(call.todo) : call.todo[k].kind # kind

\* Of several owners of a kind the last is kept, and leads on.
GetClusterMachine ==
  /\ Reads("getClusterMachine")
  /\ Found(Without(Read.kind) \cup Got,
           CASE Read.kind = "machine" -> OwnerReads(The(Got), "machineset")
             [] Read.kind = "machineset" /\ LastOf("machineset") ->
                  OwnerReads(The(Got), "machinedeployment")
             [] OTHER -> <<>>)

-----------------------------------------------------------------------------
(* Pods, deployments, nodes.                                                *)

Workloads == {"deployment", "statefulset", "daemonset"}

FirstOwner(i, kinds) ==
  LET those == {k \in DOMAIN i.data.owners : i.data.owners[k].kind \in kinds}
      owner == i.data.owners[Min(those)] IN
  IF those = {} THEN <<>>
  ELSE <<Get(i.ref.cluster, owner.kind, i.ref.namespace, owner.name, "fail")>>

PodReads(i) ==
  FirstOwner(i, {"replicaset"})
  \o <<Get(i.ref.cluster, "podmetrics", i.ref.namespace, i.ref.name, "any"),
       Get(i.ref.cluster, "pods/log", i.ref.namespace, i.ref.name, "any")>>

InspectPod ==
  /\ Reads("inspectPod")
  /\ Found(IF Read.kind = "replicaset" THEN call.found ELSE call.found \cup Got,
           CASE Read.kind = "pod" -> PodReads(The(Got))
             [] Read.kind = "replicaset" -> FirstOwner(The(Got), Workloads)
             [] OTHER -> <<>>)

\* The label of a deployment is what it selects its pods by.
GetDeploymentDetails ==
  /\ Reads("getDeploymentDetails")
  /\ Found(call.found \cup Got,
           IF Read.kind = "deployment"
           THEN <<List(Read.cluster, "pod", Read.namespace, The(Got).data.label, "fail")>>
           ELSE <<>>)

GetNodes == Reads("getNodes") /\ Found(call.found \cup Got, <<>>)

-----------------------------------------------------------------------------
(* Every cluster: with images, one that does not answer fails the call.     *)

OfEach(clusters, kind, missing) ==
  LET names == SetToSeq({i.ref.name : i \in clusters}) IN
  [k \in DOMAIN names |-> List(names[k], kind, "", "", missing)]

GetClusterImages ==
  /\ Reads("getClusterImages")
  /\ IF Read.kind = "managementcluster" THEN Found({}, OfEach(Got, "pod", "fail"))
     ELSE Found(call.found \cup Got, <<>>)

GetK3kClusters ==
  /\ Reads("getK3kClusters")
  /\ IF Read.kind = "managementcluster" THEN Found({}, OfEach(Got, "k3kcluster", "any"))
     ELSE Found(call.found \cup Got, <<>>)

-----------------------------------------------------------------------------
(* Projects.                                                                *)

ProjectNamed(q) == <<Get("local", "project", q.cluster, q.name, "search")>>

AllProjects(q) == <<List("local", "project", q.cluster, "", "fail")>>

\* GetProjectID: by its ID, or by its display name whatever the case; a value
\* stands for the names that fold to it.
ProjectFits(i) == Read.op = "get" \/ i.data.spec.displayName = call.query.name

NoProject ==
  /\ call.pc = "reading" /\ Answers /\ ~Absent /\ Read.kind = "project"
  /\ call.query.name # "" /\ ~\E i \in Got : ProjectFits(i)
  /\ call' = Failed

GetProject ==
  /\ Reads("getProject")
  /\ IF Read.kind = "project"
     THEN \E i \in Got :
            /\ ProjectFits(i)
            /\ Found({i}, <<List(call.query.cluster, "namespace", "", i.ref.name, "fail"),
                            List("local", "projectroletemplatebinding", i.ref.name, "", "fail")>>)
     ELSE Found(call.found \cup Got, <<>>)

ListProjects == Reads("listProjects") /\ Found(Got, <<>>)

-----------------------------------------------------------------------------
(* Users and role bindings.                                                 *)

\* filterResourcesByField, by the user that the query asks for, if any.
OfUser(items) == {i \in items : call.query.user \in {"", i.data.spec.user}}

\* The first one, by user name or by ID.
GetUser ==
  LET fitting == {i \in Got : call.query.name \in {i.data.spec.user, i.ref.name}} IN
  /\ Reads("getUser")
  /\ \/ \E i \in fitting : Found({i}, <<>>)
     \/ fitting = {} /\ Found({}, <<>>)

ListClusterRoleTemplateBindings ==
  Reads("listClusterRoleTemplateBindings") /\ Found(OfUser(Got), <<>>)

\* GetProjectBackingNamespace
Backing(i) == IF i.data.spec.backing = "" THEN i.ref.name ELSE i.data.spec.backing

BindingReads(namespace) ==
  <<List("local", "projectroletemplatebinding", namespace, "", "fail")>>

\* Those of all clusters are listed and then filtered.
ListProjectRoleTemplateBindings ==
  /\ Reads("listProjectRoleTemplateBindings")
  /\ IF Read.kind = "project"
     THEN \E i \in Got : ProjectFits(i) /\ Found({}, BindingReads(Backing(i)))
     ELSE Found({i \in OfUser(Got) : i.data.spec.cluster = call.query.cluster}, <<>>)

-----------------------------------------------------------------------------
(* What one request answers.                                                *)

OneRead(q) ==
  CASE q.tool = "listClusters" -> List("local", "managementcluster", "", "", "fail")
    [] q.tool = "getKubernetesResource" -> Get(q.cluster, q.kind, q.namespace, q.name, "fail")
    [] q.tool = "listGitRepos" -> List("local", "gitrepo", q.namespace, "", "fail")
    [] q.tool = "getGitRepo" -> Get("local", "gitrepo", q.namespace, q.name, "fail")
    [] q.tool = "getBundle" -> Get("local", "bundle", q.namespace, q.name, "fail")
    [] q.tool = "listRoleTemplates" -> List("local", "roletemplate", "", "", "fail")
    [] q.tool = "getRoleTemplate" -> Get("local", "roletemplate", "", q.name, "fail")

ReadOnce == call.query.tool \in OneReadTools /\ call.pc = "reading" /\ Found(Got, <<>>)

-----------------------------------------------------------------------------
(* Resource usage.                                                          *)

\* getResourceUsage: a namespace, or the namespaces of one or all projects.
NamespacesRead(project) == List(call.query.cluster, "namespace", "", project, "fail")

NamespacesOf(projects) ==
  LET names == SetToSeq({i.ref.name : i \in projects}) IN
  [k \in DOMAIN names |-> NamespacesRead(names[k])]

UsageRead(namespace) == List(call.query.cluster, "pod", namespace, "", "fail")

MetricsRead(namespace) == List(call.query.cluster, "podmetrics", namespace, "", "any")

UsageProjects ==
  /\ Reads("getResourceUsage") /\ Read.kind = "project"
  /\ IF call.query.name = "" THEN Found({}, NamespacesOf(Got))
     ELSE \E i \in Got : ProjectFits(i) /\ Found({}, NamespacesOf({i}))

UsageNamespace ==
  /\ Reads("getResourceUsage") /\ Read.kind = "namespace" /\ Read.op = "get"
  /\ Found({}, <<UsageRead(call.query.namespace)>>)

UsageReads(namespaces) ==
  LET names == SetToSeq({i.ref.name : i \in namespaces}) IN
  [k \in DOMAIN names |-> UsageRead(names[k])]

UsageNamespaces ==
  /\ Reads("getResourceUsage") /\ Read.kind = "namespace" /\ Read.op = "list"
  /\ Answers
  /\ call' = Onwards([call EXCEPT !.project = Read.label,
                                  !.totals = [p \in DOMAIN @ \cup {Read.label} |->
                                                IF p = Read.label THEN ZeroSample ELSE @[p]]],
                     UsageReads(Got))

UsagePods ==
  /\ Reads("getResourceUsage") /\ Read.kind = "pod"
  /\ Answers
  /\ call' = Onwards([call EXCEPT !.pods = Got],
                     <<MetricsRead(Read.namespace)>>)

\* (Defect: the smaller of two quantities.)
QuantityMin(a, b) == IF a >= b THEN b ELSE a
QuantityMax(a, b) == IF a >= b THEN a ELSE b

SumOf(f) == FoldFunction(+, 0, f)
Largest(f) == FoldFunction(QuantityMax, 0, f)

\* What a pod's containers need: together, or any one before they start.
Effective(spec) == QuantityMax(SumOf(spec.apps), Largest(spec.inits))

Sample(pods, metrics) ==
  LET running == {i \in pods : i.data.spec.running}
      used == {m \in metrics : \E i \in running : i.ref.name = m.ref.name} IN
  [pods |-> Cardinality(running),
   requests |-> SumOf([i \in running |-> Effective(i.data.spec)]),
   usage |-> SumOf([m \in used |-> SumOf(m.data.spec.usage)])]

\* Without metrics the usage is left out.
UsageMetrics ==
  /\ Reads("getResourceUsage") /\ Read.kind = "podmetrics"
  /\ \E metrics \in {{}} \cup (IF Answers THEN {Got} ELSE {}) :
       LET sample == Sample(call.pods, metrics) IN
       call' = Onwards([call EXCEPT
                 !.pods = {},
                 !.spaces = @ \cup {[project |-> call.project, namespace |-> Read.namespace,
                                     sample |-> sample]},
                 !.totals = [p \in DOMAIN @ |->
                               IF p = call.project THEN Plus(@[p], sample) ELSE @[p]]], <<>>)

-----------------------------------------------------------------------------
(* Lists, a page at a time.                                                 *)

Rank(s) == CHOOSE k \in DOMAIN Order : Order[k] = s

Before(a, b) ==
  \/ Rank(a.namespace) < Rank(b.namespace)
  \/ a.namespace = b.namespace /\ Rank(a.name) < Rank(b.name)

Sorted(refs) == InOrder(refs, {p \in refs \X refs : Before(p[1], p[2])})

ListKubernetesResources ==
  LET all == Sorted(Matching)
      total == Len(all)
      at == call.offset
      limit == call.query.limit IN
  /\ Reads("listKubernetesResources")
  /\ Answers
  /\ call' =
       IF ~InBounds(at, limit, total) THEN [call EXCEPT !.pc = "panicked", !.todo = <<>>]
       ELSE [call EXCEPT
               !.pc = IF HasMore(at, limit, total) THEN "paged" ELSE "done",
               !.todo = <<>>,
               !.pages = @ \o SubSeq(all, Start(at, total) + 1, End(at, limit, total)),
               !.offset = NextOffset(at, limit)]

-----------------------------------------------------------------------------

FirstReads(q) ==
  CASE q.tool = "analyzeCluster" ->
         <<Get("local", "provisioningcluster", ClusterNamespace(q), q.cluster, "fail")>>
    [] q.tool = "analyzeClusterMachines" -> Machines(q.cluster, MachineNamespace(q))
    [] q.tool = "getClusterMachine" ->
         <<Get("local", "machine", "fleet-default", q.name, "end")>>
    [] q.tool = "inspectPod" -> <<Get(q.cluster, "pod", q.namespace, q.name, "fail")>>
    [] q.tool = "getDeploymentDetails" ->
         <<Get(q.cluster, "deployment", q.namespace, q.name, "fail")>>
    [] q.tool = "getNodes" ->
         <<List(q.cluster, "node", "", "", "fail"), List(q.cluster, "nodemetrics", "", "", "any")>>
    [] q.tool = "getClusterImages" ->
         IF q.cluster = "" THEN <<List("local", "managementcluster", "", "", "fail")>>
         ELSE <<List(q.cluster, "pod", "", "", "fail")>>
    [] q.tool = "getK3kClusters" ->
         IF q.cluster = "" THEN <<List("local", "managementcluster", "", "", "fail")>>
         ELSE <<List(q.cluster, "k3kcluster", "", "", "any")>>
    [] q.tool = "getProject" -> ProjectNamed(q)
    [] q.tool = "listProjects" -> AllProjects(q)
    [] q.tool = "getResourceUsage" ->
         IF q.namespace # "" THEN <<Get(q.cluster, "namespace", "", q.namespace, "fail")>>
         ELSE IF q.name # "" THEN ProjectNamed(q) ELSE AllProjects(q)
    [] q.tool = "listKubernetesResources" ->
         <<List(q.cluster, q.kind, q.namespace, "", "fail")>>
    [] q.tool = "getUser" -> <<List("local", "user", "", "", "fail")>>
    [] q.tool = "listClusterRoleTemplateBindings" ->
         <<List("local", "clusterroletemplatebinding", q.cluster, "", "fail")>>
    [] q.tool = "listProjectRoleTemplateBindings" ->
         IF q.name # "" THEN ProjectNamed(q) ELSE BindingReads("")
    [] q.tool \in OneReadTools -> <<OneRead(q)>>

Begin ==
  /\ call.pc = "idle"
  /\ call' = Called(call.query, FirstReads(call.query), "reading")
  /\ touched' = {}
  /\ UNCHANGED <<store, variants, drift>>

\* The agent asks for the next page.
NextPage ==
  /\ call.pc = "paged"
  /\ call' = [call EXCEPT !.pc = "reading", !.todo = FirstReads(call.query)]

NotFound ==
  /\ call.pc = "reading" /\ Answers /\ Absent
  /\ \/ Read.missing = "fail" /\ call' = Failed
     \/ Read.missing \in {"skip", "any"} /\ Kept(call.found, <<>>)
     \/ /\ Read.missing = "end"
        /\ call' = [call EXCEPT !.found = Without(Read.kind), !.todo = <<>>, !.pc = "done"]
     \/ Read.missing = "search" /\ Kept(call.found, AllProjects(call.query))

\* Any other error, as when the cluster is gone or its API server is busy.
Refused ==
  /\ call.pc = "reading"
  /\ \/ Read.missing = "any" /\ call.query.tool # "getResourceUsage" /\ Kept(call.found, <<>>)
     \/ (Read.missing # "any" \/ Read.kind = "pods/log") /\ call' = Failed

Step ==
  /\ \/ AnalyzeCluster \/ AnalyzeClusterMachines \/ GetClusterMachine
     \/ InspectPod \/ GetDeploymentDetails \/ GetNodes
     \/ GetClusterImages \/ GetK3kClusters
     \/ GetProject \/ ListProjects \/ NoProject
     \/ GetUser \/ ListClusterRoleTemplateBindings \/ ListProjectRoleTemplateBindings
     \/ ReadOnce
     \/ UsageProjects \/ UsageNamespace \/ UsageNamespaces \/ UsagePods \/ UsageMetrics
     \/ ListKubernetesResources \/ NextPage
     \/ NotFound \/ Refused
  /\ UNCHANGED <<store, variants, drift, touched>>

\* Others create, replace and delete objects.
OthersWrite ==
  /\ drift < MaxDrift /\ drift' = drift + 1
  /\ \/ \E v \in variants :
          /\ store' = [r \in DOMAIN store \cup {v.ref} |-> IF r = v.ref THEN v.data ELSE store[r]]
          /\ touched' = touched \cup {v.ref}
     \/ \E d \in DOMAIN store :
          /\ store' = [r \in DOMAIN store \ {d} |-> store[r]]
          /\ touched' = touched \cup {d}
  /\ UNCHANGED <<variants, call>>

Init ==
  /\ \E s \in Scenarios :
       store = s.store /\ variants = s.variants /\ call = Called(s.query, <<>>, "idle")
  /\ drift = 0 /\ touched = {}

Next == Begin \/ Step \/ OthersWrite

Spec == Init /\ [][Next]_vars

-----------------------------------------------------------------------------

Samples == [pods : Nat, requests : Nat, usage : Nat]
Spaces == [project : Strings, namespace : Strings, sample : Samples]
Items == [ref : References, data : Objects]
Requests ==
  [op : {"get", "list"}, cluster : Strings, kind : Strings, namespace : Strings,
   name : Strings, label : Strings, missing : {"fail", "skip", "end", "search", "any"}]

\* The variables keep their types, and a call waits for an answer exactly when
\* it has a request to make.
TypeOK ==
  /\ DOMAIN store \subseteq References /\ IsFiniteSet(DOMAIN store)
  /\ touched \subseteq References
  /\ \A r \in DOMAIN store : store[r] \in Objects
  /\ \A v \in variants : v.ref \in References /\ v.data \in Objects
  /\ drift \in 0..MaxDrift
  /\ call \in [pc : {"idle", "reading", "paged", "done", "failed", "panicked"},
                query : Queries, todo : Seq(Requests), found : SUBSET Items,
                project : Strings, pods : SUBSET Items, spaces : SUBSET Spaces,
                totals : {call.totals}, pages : Seq(References), offset : Ints]
  /\ call.pc = "reading" <=> call.todo # <<>>
  /\ IsFiniteSet(call.pods) /\ IsFiniteSet(call.spaces)
  /\ DOMAIN call.totals \subseteq Strings
  /\ \A p \in DOMAIN call.totals : call.totals[p] \in Samples

Done(tool) == call.pc = "done" /\ call.query.tool = tool

AnswerOf(kind) == {i \in call.found : i.ref.kind = kind}

InCluster(i, kinds, cluster) == i.ref.kind \in kinds /\ i.ref.cluster = cluster

MachineOf(i, cluster, namespace) ==
  /\ InCluster(i, Range(CAPIKinds), "local")
  /\ i.ref.namespace = namespace /\ cluster \in {"", i.data.label}

\* The object i is an owner of o: of the same cluster and namespace.
Owns(i, o) ==
  /\ i.ref.cluster = o.ref.cluster /\ i.ref.namespace = o.ref.namespace
  /\ [kind |-> i.ref.kind, name |-> i.ref.name] \in Range(o.data.owners)

\* The objects in the namespace of r that own one with these owners: the first
\* of one of the kinds, if there is one.
FirstOf(r, owners, kinds) ==
  {Ref(r.cluster, owners[k].kind, r.namespace, owners[k].name) : k \in
    {j \in DOMAIN owners : /\ owners[j].kind \in kinds
                           /\ \A l \in 1..j-1 : owners[l].kind \notin kinds}}

ReplicaSets(p) == FirstOf(p.ref, p.data.owners, {"replicaset"})

\* The replica set s is owned by the workload r, for all that is known of s.
HasOwner(s, r) ==
  \/ s \in touched
  \/ s \in DOMAIN store /\ r \in FirstOf(s, store[s].owners, Workloads)

\* The projects that the query may have meant.
NamedProjects ==
  {p \in DOMAIN store \cup touched :
     /\ p.cluster = "local" /\ p.kind = "project"
     /\ call.query.cluster \in {"", p.namespace}
     /\ p \in touched \/ call.query.name \in {p.name, store[p].spec.displayName}}

BackedBy(p, namespace) ==
  namespace = IF store[p].spec.backing = "" THEN p.name ELSE store[p].spec.backing

\* What the request r is answered with, if it is there.
Gets(r, i) ==
  /\ i.ref.cluster = r.cluster /\ i.ref.kind = r.kind
  /\ IF r.op = "get" THEN i.ref.namespace = r.namespace /\ i.ref.name = r.name
     ELSE r.namespace \in {"", i.ref.namespace} /\ r.label \in {"", i.data.label}

\* What a provisioning cluster, a deployment and a project lead to.
ClusterPart(i, c, cluster) ==
  \/ i.ref \in {c.ref, Ref("local", "managementcluster", "", c.data.spec.management),
               Ref("local", "capicluster", "fleet-default", c.ref.name)}
  \/ \E n \in Range(c.data.spec.pools) :
       i.ref = Ref("local", "machineconfig", "fleet-default", n)
  \/ MachineOf(i, cluster, "fleet-default")

DeploymentPart(i, d, q) ==
  \/ i.ref = d.ref
  \/ /\ InCluster(i, {"pod"}, q.cluster) /\ q.namespace \in {"", i.ref.namespace}
     /\ d.data.label \in {"", i.data.label}

ProjectPart(i, p, cluster) ==
  \/ i.ref = p.ref
  \/ InCluster(i, {"namespace"}, cluster) /\ i.data.label = p.ref.name
  \/ InCluster(i, {"projectroletemplatebinding"}, "local") /\ i.ref.namespace = p.ref.name

\* What an answer consists of, given the objects it names the others by.
Belongs(i) ==
  LET q == call.query IN
  CASE q.tool = "analyzeCluster" ->
         \E c \in AnswerOf("provisioningcluster") : ClusterPart(i, c, q.cluster)
    [] q.tool = "analyzeClusterMachines" -> MachineOf(i, q.cluster, MachineNamespace(q))
    [] q.tool = "getClusterMachine" ->
         \/ i.ref = Ref("local", "machine", "fleet-default", q.name)
         \/ i.ref.kind = "machineset" /\ \E m \in AnswerOf("machine") : Owns(i, m)
         \/ i.ref.kind = "machinedeployment" /\ \E s \in AnswerOf("machineset") : Owns(i, s)
    [] q.tool = "inspectPod" ->
         \/ /\ InCluster(i, {"pod", "pods/log", "podmetrics"}, q.cluster)
            /\ i.ref.namespace = q.namespace /\ i.ref.name = q.name
         \/ /\ i.ref.kind \in Workloads
            /\ \E p \in AnswerOf("pod") : \E s \in ReplicaSets(p) : HasOwner(s, i.ref)
    [] q.tool = "getDeploymentDetails" ->
         \E d \in AnswerOf("deployment") : DeploymentPart(i, d, q)
    [] q.tool = "getNodes" -> InCluster(i, {"node", "nodemetrics"}, q.cluster)
    [] q.tool = "getClusterImages" ->
         i.ref.kind = "pod" /\ q.cluster \in {"", i.ref.cluster}
    [] q.tool = "getK3kClusters" ->
         i.ref.kind = "k3kcluster" /\ q.cluster \in {"", i.ref.cluster}
    [] q.tool = "getProject" ->
         \E p \in AnswerOf("project") : ProjectPart(i, p, q.cluster)
    [] q.tool = "listProjects" ->
         InCluster(i, {"project"}, "local") /\ q.cluster \in {"", i.ref.namespace}
    [] q.tool = "getUser" ->
         InCluster(i, {"user"}, "local") /\ q.name \in {i.ref.name, i.data.spec.user}
    [] q.tool = "listClusterRoleTemplateBindings" ->
         /\ InCluster(i, {"clusterroletemplatebinding"}, "local")
         /\ q.cluster \in {"", i.ref.namespace}
         /\ q.user \in {"", i.data.spec.user}
    [] q.tool = "listProjectRoleTemplateBindings" ->
         /\ InCluster(i, {"projectroletemplatebinding"}, "local")
         /\ i.data.spec.cluster = q.cluster
         /\ q.user \in {"", i.data.spec.user}
         /\ q.name # "" => \E p \in NamedProjects : p \in touched \/ BackedBy(p, i.ref.namespace)
    [] q.tool \in OneReadTools -> Gets(OneRead(q), i)
    [] OTHER -> FALSE

\* The cluster was known to Rancher all the time.
Steady(cluster) ==
  LET m == Ref("local", "managementcluster", "", cluster) IN
  m \in DOMAIN store \ touched

\* The parts whose errors are answered by leaving them out; a machine's owners
\* when it has several, of which only the last is kept; what belongs to the
\* replica set or project of another moment; a second user that fits; the pods of
\* a cluster that was not known all the time, when those of all are asked for.
Optional(i) ==
  \/ i.ref.kind \in {"podmetrics", "nodemetrics", "pods/log", "k3kcluster"}
  \/ /\ call.query.tool = "getClusterMachine"
     /\ \E o \in call.found : Owns(i, o) /\ Len(Owned(o, i.ref.kind)) > 1
  \/ /\ call.query.tool = "inspectPod" /\ i.ref.kind \in Workloads
     /\ \E p \in AnswerOf("pod") : ReplicaSets(p) \subseteq touched
  \/ /\ call.query.tool = "listProjectRoleTemplateBindings" /\ call.query.name # ""
     /\ NamedProjects \cap touched # {} \/ \E p, o \in NamedProjects : p # o
  \/ call.query.tool = "getUser" /\ call.found # {}
  \/ /\ call.query.tool = "getClusterImages" /\ call.query.cluster = ""
     /\ ~Steady(i.ref.cluster)

\* An answer leaves out nothing that was there, unchanged, from the call's start
\* to its end: for each object of the answer as it was read, what it leads to
\* (a cluster's machines, a deployment's pods, a project's namespaces) is in
\* the answer as well, as it is now.
LastingAnswered ==
  call.pc = "done" =>
    \A r \in DOMAIN store \ touched :
      LET i == [ref |-> r, data |-> store[r]] IN
      Belongs(i) /\ ~Optional(i) => i \in call.found

\* Nothing else is in an answer, although its objects come from different
\* moments: what one of them leads to is what it led to when it was read (the
\* deployment of a machine is an owner of the set in the answer), and an object
\* that nobody changed is as it is now.
AnswerFits ==
  call.pc = "done" =>
    \A i \in call.found :
      LET r == [i.ref EXCEPT !.kind = Served(@)] IN
      Belongs(i) /\ (r \notin touched => r \in DOMAIN store /\ store[r] = i.data)

SpacesOf(p) == {s \in call.spaces : s.project = p}

Need(spec) == Max({SumOf(spec.apps)} \cup Range(spec.inits))

PodsIn(namespace) ==
  {r \in DOMAIN store :
     r.cluster = call.query.cluster /\ r.kind = "pod" /\ r.namespace = namespace}

RunningIn(namespace) == {r \in PodsIn(namespace) : store[r].spec.running}

MetricsOf(pods) ==
  {r \in DOMAIN store :
     r.kind = "podmetrics" /\ [r EXCEPT !.kind = "pod"] \in pods}

SampleFits(s) ==
  LET running == RunningIn(s.namespace) IN
  /\ s.sample.pods = Cardinality(running)
  /\ s.sample.requests = SumOf([r \in running |-> Need(store[r].spec)])
  /\ s.sample.usage \in
       {0, SumOf([r \in MetricsOf(running) |-> SumOf(store[r].spec.usage)])}

PodsTouched(namespace) ==
  \E r \in touched : r.kind \in {"pod", "podmetrics"} /\ r.namespace = namespace

\* The sums of samples.
Total(spaces) ==
  [pods |-> SumOf([s \in spaces |-> s.sample.pods]),
   requests |-> SumOf([s \in spaces |-> s.sample.requests]),
   usage |-> SumOf([s \in spaces |-> s.sample.usage])]

\* A project's totals are the sum of its namespaces' samples; a namespace that
\* nobody moved is counted once, under its project, among the others that are
\* moved, created and deleted during the count; and a namespace whose pods
\* nobody touched is sampled as it is: the running pods, each at the sum of its
\* containers or the largest of its init containers, whichever is more.
UsageExact ==
  Done("getResourceUsage") =>
    /\ \A p \in DOMAIN call.totals : call.totals[p] = Total(SpacesOf(p))
    /\ \A r \in DOMAIN store \ touched :
         /\ r.cluster = call.query.cluster /\ r.kind = "namespace"
         /\ store[r].label \in DOMAIN call.totals
         => /\ Cardinality({s \in call.spaces : s.namespace = r.name}) = 1
            /\ \E s \in SpacesOf(store[r].label) : s.namespace = r.name
    /\ \A r \in DOMAIN store \ touched :
         /\ r.cluster = "local" /\ r.kind = "project" /\ r.namespace = call.query.cluster
         /\ call.query.name = "" /\ call.query.namespace = ""
         => r.name \in DOMAIN call.totals
    /\ \A s \in call.spaces : ~PodsTouched(s.namespace) => SampleFits(s)

Listed ==
  {r \in DOMAIN store : /\ r.cluster = call.query.cluster /\ r.kind = Served(call.query.kind)
                        /\ call.query.namespace \in {"", r.namespace}}

\* Who follows the notes from the first page to the last meets every object
\* that stays exactly once, unless one that comes before it in the order was
\* created or deleted meanwhile; undisturbed, the pages are the whole list from
\* the first offset on.
WalkMeetsAll ==
  Done("listKubernetesResources") =>
    LET from == Offset(call.query.offset) IN
    /\ from = 0 =>
         \A r \in Listed \ touched :
           ~(\E t \in touched : t.kind = r.kind /\ Before(t, r))
             => Cardinality({k \in DOMAIN call.pages : call.pages[k] = r}) = 1
    /\ touched = {} =>
         call.pages = SubSeq(Sorted(Listed), from + 1, Cardinality(Listed))

\* A page panics only on an offset and a limit whose sum is no int64, never on
\* an offset that deletions have left past the end.
PanicsOnlyOnOverflow ==
  call.pc = "panicked" => Offset(call.offset) + Limit(call.query.limit) > MaxInt

-----------------------------------------------------------------------------
(* The inductive invariant.                                                  *)

Pending(kind) == \E r \in Range(call.todo) : r.kind = kind

\* A request that follows from what is found.
Follows(r) ==
  LET q == call.query IN
  CASE q.tool = "analyzeCluster" ->
         \E c \in AnswerOf("provisioningcluster") : r \in Range(ClusterParts(c))
    [] q.tool \in {"analyzeClusterMachines", "getNodes"} -> r \in Range(FirstReads(q))
    [] q.tool = "getClusterMachine" ->
         \/ /\ AnswerOf("machinedeployment") = {} /\ ~Pending("machinedeployment")
            /\ \E m \in AnswerOf("machine") : r \in Range(OwnerReads(m, "machineset"))
         \/ /\ ~Pending("machineset")
            /\ \E s \in AnswerOf("machineset") : r \in Range(OwnerReads(s, "machinedeployment"))
    [] q.tool = "inspectPod" ->
         \E p \in AnswerOf("pod") :
           \/ r \in Range(PodReads(p))
           \/ /\ r = Get(r.cluster, r.kind, r.namespace, r.name, "fail")
              /\ r.kind \in Workloads
              /\ \E s \in ReplicaSets(p) :
                   HasOwner(s, Ref(r.cluster, r.kind, r.namespace, r.name))
    [] q.tool = "getDeploymentDetails" ->
         \E d \in AnswerOf("deployment") :
           r = List(q.cluster, "pod", q.namespace, d.data.label, "fail")
    [] q.tool = "getClusterImages" ->
         r = List(r.cluster, "pod", "", "", "fail") /\ q.cluster \in {"", r.cluster}
    [] q.tool = "getK3kClusters" ->
         r = List(r.cluster, "k3kcluster", "", "", "any") /\ q.cluster \in {"", r.cluster}
    [] q.tool = "getProject" ->
         \E p \in AnswerOf("project") :
           r \in {List(q.cluster, "namespace", "", p.ref.name, "fail"),
                  List("local", "projectroletemplatebinding", p.ref.name, "", "fail")}
    [] q.tool = "listProjectRoleTemplateBindings" ->
         /\ call.found = {} /\ q.name # ""
         /\ r \in Range(BindingReads(r.namespace))
         /\ \E p \in NamedProjects : p \in touched \/ BackedBy(p, r.namespace)
    [] q.tool = "getResourceUsage" ->
         r.kind \in {"namespace", "pod", "podmetrics"} /\ r.missing \in {"fail", "any"}
    [] OTHER -> FALSE

\* The call asks what its query says, the projects if the query's was not found
\* by its ID, or what follows from what is found; the bindings of one project at
\* most; and pages hold no objects.
Asked ==
  /\ \/ call.found = {} /\ call.todo = FirstReads(call.query)
     \/ /\ call.query.tool \in
             {"getProject", "getResourceUsage", "listProjectRoleTemplateBindings"}
        /\ call.found = {} /\ call.query.name # "" /\ call.todo = AllProjects(call.query)
     \/ \A r \in Range(call.todo) : Follows(r)
  /\ call.query.tool = "listProjectRoleTemplateBindings" => Len(call.todo) <= 1
  /\ call.query.tool = "listKubernetesResources" => call.found = {}

\* What is found belongs there, and is as it was read.
Fits ==
  \A i \in call.found :
    LET r == [i.ref EXCEPT !.kind = Served(@)] IN
    Belongs(i) /\ (r \notin touched => r \in DOMAIN store /\ store[r] = i.data)

\* One machine, one set at a time, one pod.
Single ==
  \A i, j \in call.found :
    /\ i.ref.kind = j.ref.kind
    /\ \/ call.query.tool = "getClusterMachine" /\ i.ref.kind \in {"machine", "machineset"}
       \/ call.query.tool = "inspectPod" /\ i.ref.kind = "pod"
    => i = j

\* What the object is found from is still asked for.
Led(i) ==
  LET tool == call.query.tool IN
  \/ tool = "getClusterMachine" /\ i.ref.kind = "machinedeployment" /\ Pending("machineset")
  \/ tool = "inspectPod" /\ i.ref.kind \in Workloads /\ Pending("replicaset")
  \/ tool = "getClusterImages" /\ Pending("managementcluster")
  \/ tool = "listProjectRoleTemplateBindings" /\ Pending("project")

\* What belongs in the answer and stays is in it, or will be.
Lasting ==
  call.pc \in {"reading", "done"} =>
    \A r \in DOMAIN store \ touched :
      LET i == [ref |-> r, data |-> store[r]] IN
      Belongs(i) /\ ~Optional(i) =>
        i \in call.found \/ Led(i) \/ \E o \in Range(call.todo) : Gets(o, i)

\* Only lists are paged, and what may be paged has its place in the order.
Ordered ==
  /\ call.pc = "paged" => call.query.tool = "listKubernetesResources"
  /\ call.query.tool = "listKubernetesResources" =>
       \A r \in DOMAIN store \cup {v.ref : v \in variants} :
         r.kind = Served(call.query.kind) => {r.namespace, r.name} \subseteq Range(Order)

\* The pages so far end where the next one starts.
Walked ==
  LET from == Offset(call.query.offset)
      upTo == IF call.pc = "done" THEN Cardinality(Listed)
              ELSE Lesser(Offset(call.offset), Cardinality(Listed)) IN
  call.query.tool = "listKubernetesResources" /\ call.pc \in {"reading", "paged", "done"} =>
    /\ Offset(call.offset) >= from
    /\ from = 0 =>
         \A r \in Listed \ touched :
           ~(\E t \in touched : t.kind = r.kind /\ Before(t, r)) =>
             Cardinality({k \in DOMAIN call.pages : call.pages[k] = r}) =
               IF Cardinality({x \in Listed : Before(x, r)}) < upTo THEN 1 ELSE 0
    /\ touched = {} => call.pages = SubSeq(Sorted(Listed), from + 1, upTo)

\* The requests of the resource usage: the lists of namespaces of projects come
\* last, the metrics of pods first; none is made twice, or for what is counted.
UsageAsks(r) ==
  \/ /\ r = NamespacesRead(r.label) /\ call.query.namespace = ""
     /\ r.label \notin {"", call.project} \cup DOMAIN call.totals
                        \cup {s.project : s \in call.spaces}
  \/ /\ r \in {UsageRead(r.namespace), MetricsRead(r.namespace)}
     /\ r.namespace \notin {""} \cup {s.namespace : s \in SpacesOf(call.project)}

After(a, b) ==
  /\ b.kind # "podmetrics"
  /\ a.kind = "namespace" => b.kind = "namespace"
  /\ a.namespace = b.namespace => a.label # b.label

InTurn(todo) == \A j, k \in DOMAIN todo : j < k => After(todo[j], todo[k])

\* Of the namespaces being counted, the pods or their metrics are asked for.
Uncounted == {r.namespace : r \in Range(call.todo)} \ {""}

\* The totals add up, and those of a namespace alone are nobody's.
Totalled ==
  /\ \A p \in DOMAIN call.totals : call.totals[p] = Total(SpacesOf(p))
  /\ call.query.namespace # "" => DOMAIN call.totals = {}

\* A namespace that stays is, or will be, counted once and under its project.
Housed ==
  /\ \A s, t \in call.spaces : s.project = t.project /\ s.namespace = t.namespace => s = t
  /\ call.query.namespace = "" =>
       \A r \in DOMAIN store \ touched :
         r.cluster = call.query.cluster /\ r.kind = "namespace" =>
           /\ r.name \in Uncounted => call.project = store[r].label
           /\ \A s \in call.spaces : s.namespace = r.name => s.project = store[r].label
           /\ store[r].label \in DOMAIN call.totals =>
                r.name \in Uncounted \cup {s.namespace : s \in SpacesOf(store[r].label)}

\* So is a project that stays, when all are asked for.
Enlisted ==
  call.query.name = "" /\ call.query.namespace = "" =>
    \A r \in DOMAIN store \ touched :
      r.cluster = "local" /\ r.kind = "project" /\ r.namespace = call.query.cluster =>
        r.name \in DOMAIN call.totals \/ NamespacesRead(r.name) \in Range(call.todo)

\* What was sampled, or kept to be, is as it is unless somebody touched it.
Sampled ==
  /\ \A s \in call.spaces : ~PodsTouched(s.namespace) => SampleFits(s)
  /\ \A r \in Range(call.todo) :
       r.kind = "podmetrics" /\ ~PodsTouched(r.namespace) =>
         call.pods = {[ref |-> p, data |-> store[p]] : p \in PodsIn(r.namespace)}

\* Nothing is counted before the namespaces are known.
Uncalled ==
  /\ \/ call.todo = FirstReads(call.query)
     \/ call.todo = AllProjects(call.query) /\ call.query.namespace = ""
  /\ call.spaces = {} /\ DOMAIN call.totals = {} /\ call.project = ""

Counting ==
  /\ \A r \in Range(call.todo) : UsageAsks(r)
  /\ InTurn(call.todo)
  /\ Totalled /\ Housed /\ Enlisted /\ Sampled

Counted ==
  call.query.tool = "getResourceUsage" /\ call.pc \in {"reading", "done"} =>
    Uncalled \/ Counting

IInv ==
  /\ TypeOK /\ Ordered /\ Asked /\ PanicsOnlyOnOverflow
  /\ Fits /\ Single /\ Lasting
  /\ Walked /\ Counted

=============================================================================
