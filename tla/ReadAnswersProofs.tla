-------------------------- MODULE ReadAnswersProofs --------------------------
(***************************************************************************)
(* Proofs about the answers of the read-only tools: what is found belongs  *)
(* in the answer, what stays is not left out, and the usage of resources   *)
(* is counted once.                                                        *)
(***************************************************************************)
EXTENDS ReadQueriesProofs

-----------------------------------------------------------------------------
(* What a request is answered with.                                          *)

\* The object is as it was read.
Fresh(i) ==
  LET r == [i.ref EXCEPT !.kind = Served(@)] IN
  r \notin touched => r \in DOMAIN store /\ store[r] = i.data

LEMMA FitsIs == Fits <=> \A i \in call.found : Belongs(i) /\ Fresh(i)
BY DEF Fits, Fresh

LEMMA FitsIsNext == Fits' <=> \A i \in call'.found : Belongs(i)' /\ Fresh(i)'
BY DEF Fits, Fresh

LEMMA GotFresh ==
  ASSUME TypeOK, call.pc = "reading", NEW i \in Got
  PROVE  /\ Fresh(i) /\ i \in Items /\ i.ref \in References
         /\ i.ref.cluster = Read.cluster /\ i.ref.kind = Read.kind
         /\ Read.op = "get" => i.ref.namespace = Read.namespace /\ i.ref.name = Read.name
         /\ Read.op = "list" => /\ Read.namespace \in {"", i.ref.namespace}
                                /\ Read.label \in {"", i.data.label}
  BY GotIs, ObjectTyped DEF Fresh, Gets

\* By name there is one.
LEMMA OneGot ==
  ASSUME TypeOK, call.pc = "reading", Read.op = "get", NEW i \in Got, NEW j \in Got
  PROVE  i = j
<1>1. /\ i \in Items /\ j \in Items /\ Gets(Read, i) /\ Gets(Read, j)
      /\ store[[i.ref EXCEPT !.kind = Served(@)]] = i.data
      /\ store[[j.ref EXCEPT !.kind = Served(@)]] = j.data
  BY GotIs
<1>2. /\ i.ref \in References /\ j.ref \in References
      /\ i.ref.cluster = j.ref.cluster /\ i.ref.kind = j.ref.kind
      /\ i.ref.namespace = j.ref.namespace /\ i.ref.name = j.ref.name
  BY <1>1, ObjectTyped DEF Gets
<1>3. i.ref = j.ref
  BY <1>2, SameReference
<1>4. i.data = j.data
  BY <1>1, <1>3
<1>. QED
  BY <1>1, <1>3, <1>4 DEF Items

LEMMA RefIs ==
  ASSUME NEW r \in References, NEW cluster, NEW kind, NEW namespace, NEW name,
         r.cluster = cluster, r.kind = kind, r.namespace = namespace, r.name = name
  PROVE  r = Ref(cluster, kind, namespace, name)
BY DEF Ref, References

LEMMA KeptFound ==
  ASSUME TypeOK, NEW found, NEW more, Kept(found, more)
  PROVE  /\ call'.found = found /\ call'.query = call.query
         /\ call'.todo = more \o Tail(call.todo) /\ call'.pc \in {"reading", "done"}
BY DEF Kept, Onwards, TypeOK

\* What an answer consists of, tool by tool.
BelongsAre ==
  \A i :
  /\ call.query.tool = "analyzeCluster" =>
       (Belongs(i) <=>
          \E c \in AnswerOf("provisioningcluster") : ClusterPart(i, c, call.query.cluster))
  /\ call.query.tool = "analyzeClusterMachines" =>
       (Belongs(i) <=> MachineOf(i, call.query.cluster, MachineNamespace(call.query)))
  /\ call.query.tool = "getClusterMachine" =>
       (Belongs(i) <=>
          \/ i.ref = Ref("local", "machine", "fleet-default", call.query.name)
          \/ i.ref.kind = "machineset" /\ \E m \in AnswerOf("machine") : Owns(i, m)
          \/ i.ref.kind = "machinedeployment" /\ \E s \in AnswerOf("machineset") : Owns(i, s))
  /\ call.query.tool = "inspectPod" =>
       (Belongs(i) <=>
          \/ /\ InCluster(i, {"pod", "pods/log", "podmetrics"}, call.query.cluster)
             /\ i.ref.namespace = call.query.namespace /\ i.ref.name = call.query.name
          \/ /\ i.ref.kind \in Workloads
             /\ \E p \in AnswerOf("pod") : \E s \in ReplicaSets(p) : HasOwner(s, i.ref))
  /\ call.query.tool = "getDeploymentDetails" =>
       (Belongs(i) <=> \E d \in AnswerOf("deployment") : DeploymentPart(i, d, call.query))
  /\ call.query.tool = "getNodes" =>
       (Belongs(i) <=> InCluster(i, {"node", "nodemetrics"}, call.query.cluster))
  /\ call.query.tool = "getClusterImages" =>
       (Belongs(i) <=> i.ref.kind = "pod" /\ call.query.cluster \in {"", i.ref.cluster})
  /\ call.query.tool = "getK3kClusters" =>
       (Belongs(i) <=> i.ref.kind = "k3kcluster" /\ call.query.cluster \in {"", i.ref.cluster})
  /\ call.query.tool = "getProject" =>
       (Belongs(i) <=> \E p \in AnswerOf("project") : ProjectPart(i, p, call.query.cluster))
  /\ call.query.tool = "listProjects" =>
       (Belongs(i) <=>
          InCluster(i, {"project"}, "local") /\ call.query.cluster \in {"", i.ref.namespace})
  /\ call.query.tool = "getUser" =>
       (Belongs(i) <=>
          InCluster(i, {"user"}, "local") /\ call.query.name \in {i.ref.name, i.data.spec.user})
  /\ call.query.tool = "listClusterRoleTemplateBindings" =>
       (Belongs(i) <=>
          /\ InCluster(i, {"clusterroletemplatebinding"}, "local")
          /\ call.query.cluster \in {"", i.ref.namespace}
          /\ call.query.user \in {"", i.data.spec.user})
  /\ call.query.tool = "listProjectRoleTemplateBindings" =>
       (Belongs(i) <=>
          /\ InCluster(i, {"projectroletemplatebinding"}, "local")
          /\ i.data.spec.cluster = call.query.cluster
          /\ call.query.user \in {"", i.data.spec.user}
          /\ call.query.name # "" =>
               \E p \in NamedProjects : p \in touched \/ BackedBy(p, i.ref.namespace))
  /\ call.query.tool \in OneReadTools => (Belongs(i) <=> Gets(OneRead(call.query), i))
  /\ call.query.tool \in {"getResourceUsage", "listKubernetesResources"} => ~Belongs(i)

LEMMA ToolsBelong == BelongsAre
<1>1. CASE call.query.tool = "analyzeCluster"
  BY <1>1 DEF BelongsAre, Belongs, OneReadTools
<1>2. CASE call.query.tool = "analyzeClusterMachines"
  BY <1>2 DEF BelongsAre, Belongs, OneReadTools
<1>3. CASE call.query.tool = "getClusterMachine"
  BY <1>3 DEF BelongsAre, Belongs, OneReadTools
<1>4. CASE call.query.tool = "inspectPod"
  BY <1>4 DEF BelongsAre, Belongs, OneReadTools
<1>5. CASE call.query.tool = "getDeploymentDetails"
  BY <1>5 DEF BelongsAre, Belongs, OneReadTools
<1>6. CASE call.query.tool = "getNodes"
  BY <1>6 DEF BelongsAre, Belongs, OneReadTools
<1>7. CASE call.query.tool = "getClusterImages"
  BY <1>7 DEF BelongsAre, Belongs, OneReadTools
<1>8. CASE call.query.tool = "getK3kClusters"
  BY <1>8 DEF BelongsAre, Belongs, OneReadTools
<1>9. CASE call.query.tool = "getProject"
  BY <1>9 DEF BelongsAre, Belongs, OneReadTools
<1>10. CASE call.query.tool = "listProjects"
  BY <1>10 DEF BelongsAre, Belongs, OneReadTools
<1>11. CASE call.query.tool = "getUser"
  BY <1>11 DEF BelongsAre, Belongs, OneReadTools
<1>12. CASE call.query.tool = "listClusterRoleTemplateBindings"
  BY <1>12 DEF BelongsAre, Belongs, OneReadTools
<1>13. CASE call.query.tool = "listProjectRoleTemplateBindings"
  BY <1>13 DEF BelongsAre, Belongs, OneReadTools
<1>14. CASE call.query.tool \in OneReadTools
  <2>1. call.query.tool \notin
          {"analyzeCluster", "analyzeClusterMachines", "getClusterMachine", "inspectPod",
           "getDeploymentDetails", "getNodes", "getClusterImages", "getK3kClusters",
           "getProject", "listProjects", "getUser", "listClusterRoleTemplateBindings",
           "listProjectRoleTemplateBindings", "getResourceUsage", "listKubernetesResources"}
    BY <1>14 DEF OneReadTools
  <2>2. ASSUME NEW i PROVE Belongs(i) <=> Gets(OneRead(call.query), i)
    BY <1>14, <2>1 DEF Belongs
  <2>. QED
    BY <2>1, <2>2 DEF BelongsAre
<1>15. CASE call.query.tool \in {"getResourceUsage", "listKubernetesResources"}
  <2>1. call.query.tool \notin OneReadTools
    BY <1>15 DEF OneReadTools
  <2>2. ASSUME NEW i PROVE ~Belongs(i)
    BY <1>15, <2>1 DEF Belongs
  <2>. QED
    BY <1>15, <2>1, <2>2 DEF BelongsAre
<1>16. CASE call.query.tool \notin
          {"analyzeCluster", "analyzeClusterMachines", "getClusterMachine", "inspectPod",
           "getDeploymentDetails", "getNodes", "getClusterImages", "getK3kClusters",
           "getProject", "listProjects", "getUser", "listClusterRoleTemplateBindings",
           "listProjectRoleTemplateBindings", "getResourceUsage", "listKubernetesResources"}
          \cup OneReadTools
  BY <1>16 DEF BelongsAre
<1>. QED
  BY <1>1, <1>2, <1>3, <1>4, <1>5, <1>6, <1>7, <1>8, <1>9, <1>10, <1>11, <1>12, <1>13,
     <1>14, <1>15, <1>16

LEMMA ToolsBelongNext == BelongsAre'
BY ToolsBelong, PTL

\* A request of an answer that does not go by what else is in it.
LEMMA BelongsSame ==
  ASSUME UNCHANGED <<store, touched>>, call'.query = call.query, call'.found = call.found, NEW i
  PROVE  Belongs(i)' <=> Belongs(i)
  BY DEF Belongs, AnswerOf, NamedProjects, BackedBy, HasOwner

\* What led to an object still does when more is found.
LEMMA BelongsStill ==
  ASSUME TypeOK, UNCHANGED <<store, touched>>, call'.query = call.query,
         call.found \subseteq call'.found, NEW i, Belongs(i)
  PROVE  Belongs(i)'
<1>1. \A kind : \A o \in AnswerOf(kind) : o \in AnswerOf(kind)'
  BY DEF AnswerOf
<1>2. CASE call.query.tool = "analyzeCluster"
  BY <1>1, <1>2, ToolsBelong, ToolsBelongNext DEF BelongsAre
<1>3. CASE call.query.tool = "getClusterMachine"
  BY <1>1, <1>3, ToolsBelong, ToolsBelongNext DEF BelongsAre
<1>4. CASE call.query.tool = "inspectPod"
  BY <1>1, <1>4, ToolsBelong, ToolsBelongNext DEF BelongsAre, HasOwner
<1>5. CASE call.query.tool = "getDeploymentDetails"
  BY <1>1, <1>5, ToolsBelong, ToolsBelongNext DEF BelongsAre
<1>6. CASE call.query.tool = "getProject"
  BY <1>1, <1>6, ToolsBelong, ToolsBelongNext DEF BelongsAre
<1>7. CASE call.query.tool \notin {"analyzeCluster", "getClusterMachine", "inspectPod",
                                   "getDeploymentDetails", "getProject"}
  <2>1. /\ NamedProjects' = NamedProjects
        /\ \A p, n : BackedBy(p, n)' <=> BackedBy(p, n)
    BY DEF NamedProjects, BackedBy
  <2>2. CASE call.query.tool = "listProjectRoleTemplateBindings"
    BY <2>1, <2>2, ToolsBelong, ToolsBelongNext DEF BelongsAre
  <2>3. CASE call.query.tool \in {"getResourceUsage", "listKubernetesResources"}
    BY <2>3, ToolsBelong DEF BelongsAre
  <2>4. CASE call.query.tool \in OneReadTools
    BY <2>4, ToolsBelong, ToolsBelongNext DEF BelongsAre
  <2>5. CASE call.query.tool \in
              {"analyzeClusterMachines", "getNodes", "getClusterImages", "getK3kClusters",
               "listProjects", "getUser", "listClusterRoleTemplateBindings"}
    BY <2>5, ToolsBelong, ToolsBelongNext DEF BelongsAre
  <2>. QED
    BY <1>7, <2>2, <2>3, <2>4, <2>5 DEF TypeOK, Queries, Tools
<1>. QED
  BY <1>2, <1>3, <1>4, <1>5, <1>6, <1>7


-----------------------------------------------------------------------------
(* Every answer fits.                                                        *)

\* What a step finds belongs there.
Fitting == \A i \in call'.found : i \in call.found \cup Got /\ Belongs(i)'

LEMMA FitsOn ==
  ASSUME TypeOK, Fits, call.pc = "reading", UNCHANGED <<store, touched>>, Fitting
  PROVE  Fits'
<1>1. \A i \in call'.found : Fresh(i)
  BY FitsIs, GotFresh DEF Fitting
<1>2. \A i : Fresh(i)' <=> Fresh(i)
  BY DEF Fresh
<1>. QED
  BY <1>1, <1>2, FitsIsNext DEF Fitting

\* More is found, and what belonged still does.
LEMMA MoreFits ==
  ASSUME TypeOK, Fits, UNCHANGED <<store, touched>>,
         call'.query = call.query, call'.found = call.found \cup Got,
         \A i \in Got : Belongs(i)'
  PROVE  Fitting
<1>1. \A i \in call.found : Belongs(i)
  BY FitsIs
<1>. QED
  BY <1>1, BelongsStill DEF Fitting

LEMMA ClustersFit ==
  ASSUME TypeOK, Asked, Fits, UNCHANGED <<store, touched>>, AnalyzeCluster
  PROVE  Fitting
<1>1. call.pc = "reading" /\ call.query.tool = "analyzeCluster"
  BY DEF AnalyzeCluster, Reads
<1>2. call'.found = call.found \cup Got /\ call'.query = call.query
  BY KeptFound DEF AnalyzeCluster, Found
<1>3. \A c \in AnswerOf("provisioningcluster") : c \in AnswerOf("provisioningcluster")'
  BY <1>2 DEF AnswerOf
<1>4. ASSUME NEW i \in Got PROVE Belongs(i)'
  <2>1. /\ i \in Items /\ i.ref \in References
        /\ i.ref.cluster = Read.cluster /\ i.ref.kind = Read.kind
        /\ Read.op = "get" => i.ref.namespace = Read.namespace /\ i.ref.name = Read.name
        /\ Read.op = "list" => /\ Read.namespace \in {"", i.ref.namespace}
                               /\ Read.label \in {"", i.data.label}
    BY <1>1, GotFresh
  <2>2. \E c \in AnswerOf("provisioningcluster")' : ClusterPart(i, c, call.query.cluster)
    <3>1. CASE Read.kind = "provisioningcluster"
      <4>1. i \in AnswerOf("provisioningcluster")'
        BY <1>2, <2>1, <3>1 DEF AnswerOf
      <4>. QED
        BY <4>1 DEF ClusterPart
    <3>2. CASE Read.kind # "provisioningcluster"
      <4>1. PICK c \in AnswerOf("provisioningcluster") : Read \in Range(ClusterParts(c))
        <5>1. CASE Read = Get("local", "provisioningcluster", ClusterNamespace(call.query),
                              call.query.cluster, "fail")
          <6>1. Read.kind = "provisioningcluster"
            BY <5>1 DEF Get
          <6>. QED
            BY <3>2, <6>1
        <5>. QED
          BY <1>1, <3>2, <5>1, ClusterRead
      <4>2. c \in Items /\ c \in AnswerOf("provisioningcluster")'
        BY <1>3, <4>1 DEF AnswerOf, TypeOK
      <4>3. ASSUME NEW kind, NEW namespace, NEW name,
                   Read = Get("local", kind, namespace, name, "skip")
            PROVE  i.ref = Ref("local", kind, namespace, name)
        <5>1. /\ Read.op = "get" /\ Read.cluster = "local" /\ Read.kind = kind
              /\ Read.namespace = namespace /\ Read.name = name
          BY <4>3 DEF Get
        <5>. QED
          BY <2>1, <5>1, RefIs
      <4>4. CASE \E kind \in Range(CAPIKinds) :
                   Read = List("local", kind, "fleet-default", call.query.cluster, "skip")
        <5>1. PICK kind \in Range(CAPIKinds) :
                Read = List("local", kind, "fleet-default", call.query.cluster, "skip")
          BY <4>4
        <5>2. /\ Read.op = "list" /\ Read.cluster = "local" /\ Read.kind = kind
              /\ Read.namespace = "fleet-default" /\ Read.label = call.query.cluster
          BY <5>1 DEF List, Get
        <5>3. MachineOf(i, call.query.cluster, "fleet-default")
          BY <2>1, <5>2, WordsAreStrings DEF MachineOf, InCluster
        <5>. QED
          BY <4>2, <5>3 DEF ClusterPart
      <4>5. CASE Read = Get("local", "managementcluster", "", c.data.spec.management, "skip")
        <5>1. i.ref = Ref("local", "managementcluster", "", c.data.spec.management)
          BY <4>3, <4>5
        <5>. QED
          BY <4>2, <5>1 DEF ClusterPart
      <4>6. CASE Read = Get("local", "capicluster", "fleet-default", c.ref.name, "skip")
        <5>1. i.ref = Ref("local", "capicluster", "fleet-default", c.ref.name)
          BY <4>3, <4>6
        <5>. QED
          BY <4>2, <5>1 DEF ClusterPart
      <4>7. CASE \E n \in Range(c.data.spec.pools) :
                   Read = Get("local", "machineconfig", "fleet-default", n, "skip")
        <5>1. \E n \in Range(c.data.spec.pools) :
                i.ref = Ref("local", "machineconfig", "fleet-default", n)
          BY <4>3, <4>7
        <5>. QED
          BY <4>2, <5>1 DEF ClusterPart
      <4>. QED
        BY <4>1, <4>2, <4>4, <4>5, <4>6, <4>7, ClusterPartsAre
    <3>. QED
      BY <3>1, <3>2
  <2>. QED
    BY <1>1, <1>2, <2>2, ToolsBelongNext DEF BelongsAre
<1>. QED
  BY <1>2, <1>4, MoreFits

LEMMA MachinesAre ==
  ASSUME NEW cluster, NEW namespace, NEW r \in Range(Machines(cluster, namespace))
  PROVE  \E kind \in Range(CAPIKinds) : r = List("local", kind, namespace, cluster, "skip")
<1>1. DOMAIN CAPIKinds = 1..3 /\ DOMAIN Machines(cluster, namespace) = 1..3
  BY DEF CAPIKinds, Machines
<1>2. PICK k \in 1..3 : r = Machines(cluster, namespace)[k]
  BY <1>1 DEF Range
<1>3. r = List("local", CAPIKinds[k], namespace, cluster, "skip")
  BY <1>1, <1>2 DEF Machines
<1>. QED
  BY <1>1, <1>3 DEF Range

\* What is listed at once.
LEMMA ListsFit ==
  ASSUME TypeOK, Asked, Fits, UNCHANGED <<store, touched>>,
         AnalyzeClusterMachines \/ GetNodes
  PROVE  Fitting
<1>1. /\ call.pc = "reading" /\ call.query.tool \in {"analyzeClusterMachines", "getNodes"}
      /\ Kept(call.found \cup Got, <<>>)
  BY DEF AnalyzeClusterMachines, GetNodes, Found, Reads
<1>2. call'.found = call.found \cup Got /\ call'.query = call.query
  BY <1>1, KeptFound
<1>3. Read \in Range(FirstReads(call.query))
  <2>1. CASE call.todo = FirstReads(call.query)
    BY <1>1, <2>1, TodoIs
  <2>2. CASE Follows(Read)
    BY <1>1, <2>2 DEF Follows
  <2>. QED
    BY <1>1, <2>1, <2>2, AskedIs
<1>4. ASSUME NEW i \in Got PROVE Belongs(i)'
  <2>1. /\ i.ref.cluster = Read.cluster /\ i.ref.kind = Read.kind
        /\ Read.op = "list" => /\ Read.namespace \in {"", i.ref.namespace}
                               /\ Read.label \in {"", i.data.label}
    BY <1>1, GotFresh
  <2>2. CASE call.query.tool = "analyzeClusterMachines"
    <3>1. Read \in Range(Machines(call.query.cluster, MachineNamespace(call.query)))
      BY <1>3, <2>2, FirstReadsAre
    <3>2. PICK kind \in Range(CAPIKinds) :
            Read = List("local", kind, MachineNamespace(call.query), call.query.cluster, "skip")
      BY <3>1, MachinesAre
    <3>3. /\ Read.op = "list" /\ Read.cluster = "local" /\ Read.kind = kind
          /\ Read.namespace = MachineNamespace(call.query) /\ Read.label = call.query.cluster
      BY <3>2 DEF List, Get
    <3>4. MachineOf(i, call.query.cluster, MachineNamespace(call.query))
      BY <2>1, <3>3 DEF MachineOf, InCluster, MachineNamespace
    <3>. QED
      BY <1>2, <2>2, <3>4, ToolsBelongNext DEF BelongsAre
  <2>3. CASE call.query.tool = "getNodes"
    <3>1. Read \in {List(call.query.cluster, "node", "", "", "fail"),
                    List(call.query.cluster, "nodemetrics", "", "", "any")}
      <4>1. FirstReads(call.query) = <<List(call.query.cluster, "node", "", "", "fail"),
                                       List(call.query.cluster, "nodemetrics", "", "", "any")>>
        BY <2>3, FirstReadsAre
      <4>2. \A a, b : Range(<<a, b>>) = {a, b}
        BY FewAre
      <4>3. Range(FirstReads(call.query)) = {List(call.query.cluster, "node", "", "", "fail"),
                                             List(call.query.cluster, "nodemetrics", "", "", "any")}
        BY <4>1, <4>2
      <4>. QED
        BY <1>3, <4>3
    <3>2. Read.cluster = call.query.cluster /\ Read.kind \in {"node", "nodemetrics"}
      <4>1. CASE Read = List(call.query.cluster, "node", "", "", "fail")
        BY <4>1 DEF List, Get
      <4>2. CASE Read = List(call.query.cluster, "nodemetrics", "", "", "any")
        BY <4>2 DEF List, Get
      <4>. QED
        BY <3>1, <4>1, <4>2
    <3>3. InCluster(i, {"node", "nodemetrics"}, call.query.cluster)
      BY <2>1, <3>2 DEF InCluster
    <3>. QED
      BY <1>2, <2>3, <3>3, ToolsBelongNext DEF BelongsAre
  <2>. QED
    BY <1>1, <2>2, <2>3
<1>. QED
  BY <1>2, <1>4, MoreFits


LEMMA OwnerOf ==
  ASSUME NEW o \in Items, NEW kind \in Strings, NEW r \in Range(OwnerReads(o, kind))
  PROVE  /\ r.op = "get" /\ r.cluster = "local" /\ r.namespace = "fleet-default"
         /\ r.missing = "end" /\ r.kind = kind
         /\ [kind |-> kind, name |-> r.name] \in Range(o.data.owners)
<1>1. PICK k \in 1..Len(OwnerReads(o, kind)) : r = OwnerReads(o, kind)[k]
  BY OwnerReadsAre, RangeEquality
<1>2. r = Get("local", kind, "fleet-default", Owned(o, kind)[k].name, "end")
  BY <1>1, OwnerReadsAre
<1>3. k \in 1..Len(Owned(o, kind))
  BY <1>1, OwnerReadsAre
<1>4. Owned(o, kind)[k] \in Range(o.data.owners) /\ Owned(o, kind)[k].kind = kind
  BY <1>3, OwnedAre
<1>5. Owned(o, kind)[k] \in Owners
  BY <1>4, RangeOfSeq DEF Items, Objects, Owners
<1>6. Owned(o, kind)[k] = [kind |-> kind, name |-> Owned(o, kind)[k].name]
  BY <1>4, <1>5 DEF Owners
<1>. QED
  BY <1>2, <1>4, <1>6 DEF Get

\* A machine, its sets and their deployments are of one namespace.
LEMMA MachineryIs ==
  ASSUME TypeOK, Fits, call.query.tool = "getClusterMachine", NEW i \in call.found
  PROVE  /\ i \in Items /\ i.ref.cluster = "local" /\ i.ref.namespace = "fleet-default"
         /\ i.ref.kind \in {"machine", "machineset", "machinedeployment"}
         /\ i.ref.kind = "machine" => i.ref.name = call.query.name
         /\ i.ref.kind = "machineset" => \E m \in AnswerOf("machine") : Owns(i, m)
         /\ i.ref.kind = "machinedeployment" => \E s \in AnswerOf("machineset") : Owns(i, s)
<1>1. ASSUME NEW o \in call.found
      PROVE  \/ o.ref = Ref("local", "machine", "fleet-default", call.query.name)
             \/ o.ref.kind = "machineset" /\ \E m \in AnswerOf("machine") : Owns(o, m)
             \/ o.ref.kind = "machinedeployment" /\ \E s \in AnswerOf("machineset") : Owns(o, s)
  <2>1. Belongs(o)
    BY <1>1, FitsIs
  <2>. QED
    BY <2>1, ToolsBelong DEF BelongsAre
<1>2. ASSUME NEW m \in AnswerOf("machine")
      PROVE  m.ref = Ref("local", "machine", "fleet-default", call.query.name)
  BY <1>1, <1>2 DEF AnswerOf
<1>3. ASSUME NEW s \in AnswerOf("machineset")
      PROVE  s.ref.cluster = "local" /\ s.ref.namespace = "fleet-default"
  <2>1. s \in call.found /\ s.ref.kind = "machineset"
    BY <1>3 DEF AnswerOf
  <2>2. PICK m \in AnswerOf("machine") : Owns(s, m)
    BY <1>1, <2>1 DEF Ref
  <2>. QED
    BY <1>2, <2>2 DEF Owns, Ref
<1>4. i \in Items
  BY DEF TypeOK
<1>5. CASE i.ref = Ref("local", "machine", "fleet-default", call.query.name)
  BY <1>4, <1>5 DEF Ref
<1>6. CASE i.ref.kind = "machineset" /\ \E m \in AnswerOf("machine") : Owns(i, m)
  BY <1>2, <1>4, <1>6 DEF Ref, Owns
<1>7. CASE i.ref.kind = "machinedeployment" /\ \E s \in AnswerOf("machineset") : Owns(i, s)
  BY <1>3, <1>4, <1>7 DEF Owns
<1>. QED
  BY <1>1, <1>5, <1>6, <1>7

\* What the machine's step finds, in the place of another of its kind.
LEMMA MachineFound ==
  ASSUME TypeOK, Asked, Fits, UNCHANGED <<store, touched>>, GetClusterMachine
  PROVE  /\ call.pc = "reading" /\ call.query.tool = "getClusterMachine"
         /\ call'.found = Without(Read.kind) \cup Got /\ call'.query = call.query
         /\ Got # {} /\ Read.op = "get"
         /\ \A kind : AnswerOf(kind)' = IF kind = Read.kind THEN Got ELSE AnswerOf(kind)
<1>1. call.pc = "reading" /\ call.query.tool = "getClusterMachine" /\ ~Absent
  BY DEF GetClusterMachine, Reads, Found
<1>2. call'.found = Without(Read.kind) \cup Got /\ call'.query = call.query
  BY KeptFound DEF GetClusterMachine, Found
<1>3. Read.op = "get" /\ Got # {}
  BY <1>1, MachineRead DEF Absent
<1>4. \A i \in Got : i.ref.kind = Read.kind
  BY <1>1, GotFresh
<1>5. ASSUME NEW kind
      PROVE  AnswerOf(kind)' = IF kind = Read.kind THEN Got ELSE AnswerOf(kind)
  <2>1. AnswerOf(kind)' = {i \in Without(Read.kind) \cup Got : i.ref.kind = kind}
    BY <1>2 DEF AnswerOf
  <2>. QED
    BY <1>4, <2>1 DEF AnswerOf, Without
<1>. QED
  BY <1>1, <1>2, <1>3, <1>5

LEMMA MachineFits ==
  ASSUME TypeOK, Asked, Fits, UNCHANGED <<store, touched>>, GetClusterMachine
  PROVE  Fitting
<1>1. /\ call.pc = "reading" /\ call.query.tool = "getClusterMachine"
      /\ call'.found = Without(Read.kind) \cup Got /\ call'.query = call.query
      /\ Got # {} /\ Read.op = "get"
      /\ \A kind : AnswerOf(kind)' = IF kind = Read.kind THEN Got ELSE AnswerOf(kind)
  BY MachineFound
<1>2. ASSUME NEW i,
             \/ i.ref = Ref("local", "machine", "fleet-default", call.query.name)
             \/ i.ref.kind = "machineset" /\ \E m \in AnswerOf("machine")' : Owns(i, m)
             \/ i.ref.kind = "machinedeployment" /\ \E s \in AnswerOf("machineset")' : Owns(i, s)
      PROVE  Belongs(i)'
  BY <1>1, <1>2, ToolsBelongNext DEF BelongsAre
<1>3. ASSUME NEW i \in Got
      PROVE  /\ i \in Items /\ i.ref \in References
             /\ i.ref.cluster = "local" /\ i.ref.kind = Read.kind
             /\ i.ref.namespace = "fleet-default" /\ i.ref.name = Read.name
  BY <1>1, GotFresh, MachineRead
<1>4. ASSUME NEW o \in call.found, NEW kind \in Strings, Read \in Range(OwnerReads(o, kind)),
             NEW i \in Got
      PROVE  Owns(i, o)
  <2>1. o \in Items /\ o.ref.cluster = "local" /\ o.ref.namespace = "fleet-default"
    BY <1>1, <1>4, MachineryIs
  <2>2. Read.kind = kind /\ [kind |-> kind, name |-> Read.name] \in Range(o.data.owners)
    BY <1>4, <2>1, OwnerOf
  <2>. QED
    BY <1>3, <2>1, <2>2 DEF Owns
<1>5. CASE call.found = {} /\ Read.kind = "machine" /\ Read.name = call.query.name
  <2>1. ASSUME NEW i \in Got
        PROVE  i.ref = Ref("local", "machine", "fleet-default", call.query.name)
    BY <1>3, <1>5, RefIs
  <2>. QED
    BY <1>1, <1>2, <1>5, <2>1 DEF Fitting, Without
<1>6. CASE /\ Read.kind = "machineset" /\ AnswerOf("machinedeployment") = {}
           /\ \E m \in AnswerOf("machine") : Read \in Range(OwnerReads(m, "machineset"))
  <2>1. PICK m \in AnswerOf("machine") : Read \in Range(OwnerReads(m, "machineset"))
    BY <1>6
  <2>2. AnswerOf("machine")' = AnswerOf("machine") /\ m \in call.found
    BY <1>1, <1>6, <2>1 DEF AnswerOf
  <2>3. ASSUME NEW i \in Got PROVE Belongs(i)'
    BY <1>2, <1>3, <1>4, <1>6, <2>1, <2>2, <2>3, WordsAreStrings
  <2>4. ASSUME NEW i \in Without(Read.kind) PROVE Belongs(i)'
    <3>1. i \in call.found /\ i.ref.kind # "machineset" /\ i.ref.kind # "machinedeployment"
      BY <1>6, <2>4 DEF Without, AnswerOf
    <3>2. Belongs(i)
      BY <3>1, FitsIs
    <3>3. i.ref = Ref("local", "machine", "fleet-default", call.query.name)
      BY <1>1, <3>1, <3>2, ToolsBelong DEF BelongsAre
    <3>. QED
      BY <1>2, <3>3
  <2>. QED
    BY <1>1, <2>3, <2>4 DEF Fitting, Without
<1>7. CASE /\ Read.kind = "machinedeployment"
           /\ \E s \in AnswerOf("machineset") : Read \in Range(OwnerReads(s, "machinedeployment"))
  <2>1. PICK s \in AnswerOf("machineset") : Read \in Range(OwnerReads(s, "machinedeployment"))
    BY <1>7
  <2>2. /\ AnswerOf("machineset")' = AnswerOf("machineset") /\ s \in call.found
        /\ AnswerOf("machine")' = AnswerOf("machine")
    BY <1>1, <1>7, <2>1 DEF AnswerOf
  <2>3. ASSUME NEW i \in Got PROVE Belongs(i)'
    BY <1>2, <1>3, <1>4, <1>7, <2>1, <2>2, <2>3, WordsAreStrings
  <2>4. ASSUME NEW i \in Without(Read.kind) PROVE Belongs(i)'
    <3>1. i \in call.found /\ i.ref.kind # "machinedeployment"
      BY <1>7, <2>4 DEF Without
    <3>2. Belongs(i)
      BY <3>1, FitsIs
    <3>3. \/ i.ref = Ref("local", "machine", "fleet-default", call.query.name)
          \/ i.ref.kind = "machineset" /\ \E m \in AnswerOf("machine") : Owns(i, m)
      BY <1>1, <3>1, <3>2, ToolsBelong DEF BelongsAre
    <3>. QED
      BY <1>2, <2>2, <3>3
  <2>. QED
    BY <1>1, <2>3, <2>4 DEF Fitting, Without
<1>. QED
  BY <1>1, <1>5, <1>6, <1>7, MachineRead


LEMMA PodFits ==
  ASSUME TypeOK, Asked, Fits, UNCHANGED <<store, touched>>, InspectPod
  PROVE  Fitting
<1> DEFINE q == call.query
<1>1. call.pc = "reading" /\ q.tool = "inspectPod"
  BY DEF InspectPod, Reads
<1>2. /\ call'.query = call.query
      /\ call'.found = IF Read.kind = "replicaset" THEN call.found ELSE call.found \cup Got
  BY KeptFound DEF InspectPod, Found
<1>3. CASE Read.kind = "replicaset"
  BY <1>2, <1>3, BelongsSame, FitsIs DEF Fitting
<1>4. CASE Read.kind # "replicaset"
  <2>1. \A p \in AnswerOf("pod") : p \in AnswerOf("pod")'
    BY <1>2, <1>4 DEF AnswerOf
  <2>2. ASSUME NEW i \in Got PROVE Belongs(i)'
    <3>1. /\ i \in Items /\ i.ref \in References
          /\ i.ref.cluster = Read.cluster /\ i.ref.kind = Read.kind
          /\ Read.op = "get" => i.ref.namespace = Read.namespace /\ i.ref.name = Read.name
      BY <1>1, GotFresh
    <3>2. ASSUME InCluster(i, {"pod", "pods/log", "podmetrics"}, q.cluster),
                 i.ref.namespace = q.namespace, i.ref.name = q.name
          PROVE  Belongs(i)'
      BY <1>1, <1>2, <3>2, ToolsBelongNext DEF BelongsAre
    <3>3. CASE Read = Get(q.cluster, "pod", q.namespace, q.name, "fail")
      <4>1. /\ Read.op = "get" /\ Read.cluster = q.cluster /\ Read.kind = "pod"
            /\ Read.namespace = q.namespace /\ Read.name = q.name
        BY <3>3 DEF Get
      <4>. QED
        BY <3>1, <3>2, <4>1 DEF InCluster
    <3>4. CASE Read # Get(q.cluster, "pod", q.namespace, q.name, "fail")
      <4>1. PICK p \in AnswerOf("pod") :
              \/ /\ Read.op = "get" /\ Read.missing = "any"
                 /\ Read.kind \in {"podmetrics", "pods/log"}
                 /\ Read.cluster = p.ref.cluster /\ Read.namespace = p.ref.namespace
                 /\ Read.name = p.ref.name
              \/ /\ Read.op = "get" /\ Read.missing = "fail" /\ Read.kind \in Workloads
                 /\ \E s \in ReplicaSets(p) :
                      HasOwner(s, Ref(Read.cluster, Read.kind, Read.namespace, Read.name))
        BY <1>1, <1>4, <3>4, PodRead
      <4>2. p \in call.found /\ p.ref.kind = "pod"
        BY <4>1 DEF AnswerOf
      <4>3. CASE /\ Read.op = "get" /\ Read.kind \in {"podmetrics", "pods/log"}
                 /\ Read.cluster = p.ref.cluster /\ Read.namespace = p.ref.namespace
                 /\ Read.name = p.ref.name
        <5>1. Belongs(p)
          BY <4>2, FitsIs
        <5>2. "pod" \notin Workloads
          BY DEF Workloads
        <5>3. /\ InCluster(p, {"pod", "pods/log", "podmetrics"}, q.cluster)
              /\ p.ref.namespace = q.namespace /\ p.ref.name = q.name
          BY <1>1, <4>2, <5>1, <5>2, ToolsBelong DEF BelongsAre
        <5>. QED
          BY <3>1, <3>2, <4>3, <5>3 DEF InCluster
      <4>4. CASE /\ Read.op = "get" /\ Read.kind \in Workloads
                 /\ \E s \in ReplicaSets(p) :
                      HasOwner(s, Ref(Read.cluster, Read.kind, Read.namespace, Read.name))
        <5>1. PICK s \in ReplicaSets(p) :
                HasOwner(s, Ref(Read.cluster, Read.kind, Read.namespace, Read.name))
          BY <4>4
        <5>2. i.ref = Ref(Read.cluster, Read.kind, Read.namespace, Read.name)
          BY <3>1, <4>4, RefIs
        <5>3. HasOwner(s, i.ref)
          BY <5>1, <5>2
        <5>4. HasOwner(s, i.ref)'
          BY <5>3 DEF HasOwner
        <5>. QED
          BY <1>1, <1>2, <2>1, <3>1, <4>1, <4>4, <5>1, <5>4, ToolsBelongNext DEF BelongsAre
      <4>. QED
        BY <4>1, <4>3, <4>4
    <3>. QED
      BY <3>3, <3>4
  <2>. QED
    BY <1>2, <1>4, <2>2, MoreFits
<1>. QED
  BY <1>3, <1>4

LEMMA DeploymentFits ==
  ASSUME TypeOK, Asked, Fits, UNCHANGED <<store, touched>>, GetDeploymentDetails
  PROVE  Fitting
<1> DEFINE q == call.query
<1>1. call.pc = "reading" /\ q.tool = "getDeploymentDetails"
  BY DEF GetDeploymentDetails, Reads
<1>2. call'.query = call.query /\ call'.found = call.found \cup Got
  BY KeptFound DEF GetDeploymentDetails, Found
<1>3. ASSUME NEW i \in Got PROVE Belongs(i)'
  <2>1. /\ i.ref.cluster = Read.cluster /\ i.ref.kind = Read.kind
        /\ Read.op = "list" => /\ Read.namespace \in {"", i.ref.namespace}
                               /\ Read.label \in {"", i.data.label}
    BY <1>1, GotFresh
  <2>2. \E d \in AnswerOf("deployment")' : DeploymentPart(i, d, q)
    <3>1. CASE Read = Get(q.cluster, "deployment", q.namespace, q.name, "fail")
      <4>1. Read.kind = "deployment"
        BY <3>1 DEF Get
      <4>2. i \in AnswerOf("deployment")'
        BY <1>2, <2>1, <4>1 DEF AnswerOf
      <4>. QED
        BY <4>2 DEF DeploymentPart
    <3>2. CASE \E d \in AnswerOf("deployment") :
                 Read = List(q.cluster, "pod", q.namespace, d.data.label, "fail")
      <4>1. PICK d \in AnswerOf("deployment") :
              Read = List(q.cluster, "pod", q.namespace, d.data.label, "fail")
        BY <3>2
      <4>2. /\ Read.op = "list" /\ Read.cluster = q.cluster /\ Read.kind = "pod"
            /\ Read.namespace = q.namespace /\ Read.label = d.data.label
        BY <4>1 DEF List, Get
      <4>3. d \in AnswerOf("deployment")'
        BY <1>2 DEF AnswerOf
      <4>4. DeploymentPart(i, d, q)
        BY <2>1, <4>2 DEF DeploymentPart, InCluster
      <4>. QED
        BY <4>3, <4>4
    <3>. QED
      BY <1>1, <3>1, <3>2, DeploymentRead
  <2>. QED
    BY <1>1, <1>2, <2>2, ToolsBelongNext DEF BelongsAre
<1>. QED
  BY <1>2, <1>3, MoreFits

LEMMA EverywhereFits ==
  ASSUME TypeOK, Asked, Fits, UNCHANGED <<store, touched>>, GetClusterImages \/ GetK3kClusters
  PROVE  Fitting
<1> DEFINE q == call.query
<1>1. PICK kind, missing :
        /\ call.pc = "reading"
        /\ \/ q.tool = "getClusterImages" /\ kind = "pod" /\ missing = "fail"
           \/ q.tool = "getK3kClusters" /\ kind = "k3kcluster" /\ missing = "any"
  BY DEF GetClusterImages, GetK3kClusters, Reads
<1>2. /\ call'.query = call.query
      /\ call'.found = IF Read.kind = "managementcluster" THEN {} ELSE call.found \cup Got
  BY KeptFound DEF GetClusterImages, GetK3kClusters, Found
<1>3. CASE Read.kind = "managementcluster"
  BY <1>2, <1>3 DEF Fitting
<1>4. CASE Read.kind # "managementcluster"
  <2>1. Read.kind = kind /\ q.cluster \in {"", Read.cluster}
    <3>1. CASE Read = List("local", "managementcluster", "", "", "fail")
      BY <1>4, <3>1 DEF List, Get
    <3>. QED
      BY <1>1, <3>1, EverywhereRead
  <2>2. ASSUME NEW i \in Got PROVE Belongs(i)'
    <3>1. i.ref.cluster = Read.cluster /\ i.ref.kind = Read.kind
      BY <1>1, GotFresh
    <3>. QED
      BY <1>1, <1>2, <2>1, <3>1, ToolsBelongNext DEF BelongsAre
  <2>. QED
    BY <1>2, <1>4, <2>2, MoreFits
<1>. QED
  BY <1>3, <1>4


\* The one request of a call.
LEMMA ReadOf ==
  ASSUME TypeOK, Asked, call.pc = "reading",
         call.query.tool \in OneReadTools \cup
           {"listProjects", "getUser", "listClusterRoleTemplateBindings"}
  PROVE  /\ call.query.tool \in OneReadTools => Read = OneRead(call.query)
         /\ call.query.tool = "listProjects" =>
              Read = List("local", "project", call.query.cluster, "", "fail")
         /\ call.query.tool = "getUser" => Read = List("local", "user", "", "", "fail")
         /\ call.query.tool = "listClusterRoleTemplateBindings" =>
              Read = List("local", "clusterroletemplatebinding", call.query.cluster, "", "fail")
<1>1. call.todo = FirstReads(call.query)
  BY AskedOnce
<1>2. CASE call.query.tool \in OneReadTools
  <2>1. call.todo = <<OneRead(call.query)>>
    BY <1>1, <1>2, FirstReadsAre
  <2>2. call.query.tool \notin {"listProjects", "getUser", "listClusterRoleTemplateBindings"}
    BY <1>2 DEF OneReadTools
  <2>. QED
    BY <2>1, <2>2, FirstOnly
<1>3. CASE call.query.tool = "listProjects"
  <2>1. call.todo = AllProjects(call.query)
    BY <1>1, <1>3, FirstReadsAre
  <2>2. call.todo = <<List("local", "project", call.query.cluster, "", "fail")>>
    BY <2>1 DEF AllProjects
  <2>. QED
    BY <1>3, <2>2, FirstOnly DEF OneReadTools
<1>4. CASE call.query.tool = "getUser"
  <2>1. call.todo = <<List("local", "user", "", "", "fail")>>
    BY <1>1, <1>4, FirstReadsAre
  <2>. QED
    BY <1>4, <2>1, FirstOnly DEF OneReadTools
<1>5. CASE call.query.tool = "listClusterRoleTemplateBindings"
  <2>1. call.todo = <<List("local", "clusterroletemplatebinding", call.query.cluster, "", "fail")>>
    BY <1>1, <1>5, FirstReadsAre
  <2>. QED
    BY <1>5, <2>1, FirstOnly DEF OneReadTools
<1>. QED
  BY <1>2, <1>3, <1>4, <1>5

LEMMA OnceFit ==
  ASSUME TypeOK, Asked, Fits, UNCHANGED <<store, touched>>,
         ListProjects \/ GetUser \/ ListClusterRoleTemplateBindings \/ ReadOnce
  PROVE  Fitting
<1> DEFINE q == call.query
<1>1. call.pc = "reading"
  BY DEF ListProjects, GetUser, ListClusterRoleTemplateBindings, ReadOnce, Reads
<1>2. ASSUME NEW i \in Got
      PROVE  /\ i.ref.cluster = Read.cluster /\ i.ref.kind = Read.kind
             /\ Read.op = "list" => Read.namespace \in {"", i.ref.namespace}
  BY <1>1, GotFresh
<1>3. CASE ListProjects
  <2>1. call'.query = q /\ call'.found = Got /\ q.tool = "listProjects"
    BY <1>3, KeptFound DEF ListProjects, Found, Reads
  <2>2. Read = List("local", "project", q.cluster, "", "fail")
    BY <1>1, <2>1, ReadOf
  <2>3. /\ Read.op = "list" /\ Read.cluster = "local" /\ Read.kind = "project"
        /\ Read.namespace = q.cluster
    BY <2>2 DEF List, Get
  <2>. QED
    BY <1>2, <2>1, <2>3, ToolsBelongNext DEF BelongsAre, InCluster, Fitting
<1>4. CASE GetUser
  <2>1. q.tool = "getUser"
    BY <1>4 DEF GetUser, Reads
  <2>2. /\ call'.query = q /\ call'.found \subseteq Got
        /\ \A i \in call'.found : q.name \in {i.data.spec.user, i.ref.name}
    <3>1. CASE \E i \in {j \in Got : q.name \in {j.data.spec.user, j.ref.name}} : Found({i}, <<>>)
      BY <3>1, KeptFound DEF Found
    <3>2. CASE Found({}, <<>>)
      BY <3>2, KeptFound DEF Found
    <3>. QED
      BY <1>4, <3>1, <3>2 DEF GetUser
  <2>3. Read = List("local", "user", "", "", "fail")
    BY <1>1, <2>1, ReadOf
  <2>4. Read.cluster = "local" /\ Read.kind = "user"
    BY <2>3 DEF List, Get
  <2>. QED
    BY <1>2, <2>1, <2>2, <2>4, ToolsBelongNext DEF BelongsAre, InCluster, Fitting
<1>5. CASE ListClusterRoleTemplateBindings
  <2>1. /\ call'.query = q /\ call'.found = OfUser(Got)
        /\ q.tool = "listClusterRoleTemplateBindings"
    BY <1>5, KeptFound DEF ListClusterRoleTemplateBindings, Found, Reads
  <2>2. Read = List("local", "clusterroletemplatebinding", q.cluster, "", "fail")
    BY <1>1, <2>1, ReadOf
  <2>3. /\ Read.op = "list" /\ Read.cluster = "local"
        /\ Read.kind = "clusterroletemplatebinding" /\ Read.namespace = q.cluster
    BY <2>2 DEF List, Get
  <2>4. \A i \in OfUser(Got) : i \in Got /\ q.user \in {"", i.data.spec.user}
    BY DEF OfUser
  <2>. QED
    BY <1>2, <2>1, <2>3, <2>4, ToolsBelongNext DEF BelongsAre, InCluster, Fitting
<1>6. CASE ReadOnce
  <2>1. call'.query = q /\ call'.found = Got /\ q.tool \in OneReadTools
    BY <1>6, KeptFound DEF ReadOnce, Found
  <2>2. Read = OneRead(q)
    BY <1>1, <2>1, ReadOf
  <2>3. \A i \in Got : Gets(OneRead(q), i)
    BY <1>1, <2>2, GotIs
  <2>4. ASSUME NEW i \in Got PROVE Belongs(i)'
    <3>1. Gets(OneRead(q), i)
      BY <2>3
    <3>2. Gets(OneRead(call'.query), i)
      BY <2>1, <3>1
    <3>. QED
      BY <2>1, <3>2, ToolsBelongNext DEF BelongsAre
  <2>. QED
    BY <2>1, <2>4 DEF Fitting
<1>. QED
  BY <1>3, <1>4, <1>5, <1>6

LEMMA PartRead ==
  ASSUME TypeOK, Asked, call.pc = "reading", call.query.tool = "getProject", Read.kind # "project"
  PROVE  \E p \in AnswerOf("project") :
           Read \in {List(call.query.cluster, "namespace", "", p.ref.name, "fail"),
                     List("local", "projectroletemplatebinding", p.ref.name, "", "fail")}
<1> DEFINE q == call.query
<1>1. CASE call.todo = FirstReads(q)
  <2>1. call.todo = ProjectNamed(q)
    BY <1>1, FirstReadsAre
  <2>2. Read = Get("local", "project", q.cluster, q.name, "search")
    BY <2>1, FirstOnly DEF ProjectNamed
  <2>. QED
    BY <2>2 DEF Get
<1>2. CASE call.todo = AllProjects(q)
  <2>1. Read = List("local", "project", q.cluster, "", "fail")
    BY <1>2, FirstOnly DEF AllProjects
  <2>. QED
    BY <2>1 DEF List, Get
<1>3. CASE Follows(Read)
  BY <1>3 DEF Follows
<1>. QED
  BY <1>1, <1>2, <1>3, AskedIs



LEMMA PartsFit ==
  ASSUME TypeOK, Asked, Fits, UNCHANGED <<store, touched>>, GetProject
  PROVE  Fitting
<1> DEFINE q == call.query
<1>1. call.pc = "reading" /\ q.tool = "getProject"
  BY DEF GetProject, Reads
<1>2. CASE Read.kind = "project"
  <2>1. PICK i \in Got : call'.found = {i} /\ call'.query = q
    BY <1>2, KeptFound DEF GetProject, Found
  <2>2. i.ref.kind = "project"
    BY <1>1, <1>2, GotFresh
  <2>3. i \in AnswerOf("project")'
    BY <2>1, <2>2 DEF AnswerOf
  <2>4. ProjectPart(i, i, q.cluster)
    BY DEF ProjectPart
  <2>5. Belongs(i)'
    BY <1>1, <2>1, <2>3, <2>4, ToolsBelongNext DEF BelongsAre
  <2>. QED
    BY <2>1, <2>5 DEF Fitting
<1>3. CASE Read.kind # "project"
  <2>1. call'.query = q /\ call'.found = call.found \cup Got
    BY <1>3, KeptFound DEF GetProject, Found
  <2>2. PICK p \in AnswerOf("project") :
          Read \in {List(q.cluster, "namespace", "", p.ref.name, "fail"),
                    List("local", "projectroletemplatebinding", p.ref.name, "", "fail")}
    BY <1>1, <1>3, PartRead
  <2>3. p \in AnswerOf("project")' /\ p \in Items
    BY <2>1, <2>2 DEF AnswerOf, TypeOK
  <2>4. p.ref.name # ""
    BY <2>3, ObjectTyped DEF References
  <2>5. ASSUME NEW i \in Got PROVE Belongs(i)'
    <3>1. /\ i.ref.cluster = Read.cluster /\ i.ref.kind = Read.kind
          /\ Read.op = "list" => /\ Read.namespace \in {"", i.ref.namespace}
                                 /\ Read.label \in {"", i.data.label}
      BY <1>1, GotFresh
    <3>2. ProjectPart(i, p, q.cluster)
      <4>1. CASE Read = List(q.cluster, "namespace", "", p.ref.name, "fail")
        <5>1. /\ Read.op = "list" /\ Read.cluster = q.cluster /\ Read.kind = "namespace"
              /\ Read.label = p.ref.name
          BY <4>1 DEF List, Get
        <5>. QED
          BY <2>4, <3>1, <5>1 DEF ProjectPart, InCluster
      <4>2. CASE Read = List("local", "projectroletemplatebinding", p.ref.name, "", "fail")
        <5>1. /\ Read.op = "list" /\ Read.cluster = "local"
              /\ Read.kind = "projectroletemplatebinding" /\ Read.namespace = p.ref.name
          BY <4>2 DEF List, Get
        <5>. QED
          BY <2>4, <3>1, <5>1 DEF ProjectPart, InCluster
      <4>. QED
        BY <2>2, <4>1, <4>2
    <3>. QED
      BY <1>1, <2>1, <2>3, <3>2, ToolsBelongNext DEF BelongsAre
  <2>. QED
    BY <2>1, <2>5, MoreFits
<1>. QED
  BY <1>2, <1>3

\* The backing namespace of a project is never no namespace.
LEMMA BackingNamed ==
  ASSUME TypeOK, NEW p \in DOMAIN store, NEW namespace, BackedBy(p, namespace)
  PROVE  namespace # ""
BY DEF BackedBy, TypeOK, References

LEMMA BindingsFit ==
  ASSUME TypeOK, Asked, Fits, UNCHANGED <<store, touched>>, ListProjectRoleTemplateBindings
  PROVE  Fitting
<1> DEFINE q == call.query
<1>1. call.pc = "reading" /\ q.tool = "listProjectRoleTemplateBindings"
  BY DEF ListProjectRoleTemplateBindings, Reads
<1>2. CASE Read.kind = "project"
  <2>1. call'.found = {}
    BY <1>2, KeptFound DEF ListProjectRoleTemplateBindings, Found
  <2>. QED
    BY <2>1 DEF Fitting
<1>3. CASE Read.kind # "project"
  <2>1. /\ call'.query = q
        /\ call'.found = {i \in OfUser(Got) : i.data.spec.cluster = q.cluster}
    BY <1>3, KeptFound DEF ListProjectRoleTemplateBindings, Found
  <2>2. NamedProjects' = NamedProjects
    BY <2>1 DEF NamedProjects
  <2>3. ASSUME NEW i \in call'.found PROVE i \in Got /\ Belongs(i)'
    <3>1. /\ i \in Got /\ q.user \in {"", i.data.spec.user} /\ i.data.spec.cluster = q.cluster
      BY <2>1 DEF OfUser
    <3>2. /\ i.ref.cluster = Read.cluster /\ i.ref.kind = Read.kind
          /\ Read.op = "list" => Read.namespace \in {"", i.ref.namespace}
      BY <1>1, <3>1, GotFresh
    <3>3. PICK namespace :
            /\ Read = List("local", "projectroletemplatebinding", namespace, "", "fail")
            /\ q.name # "" => \E p \in NamedProjects : p \in touched \/ BackedBy(p, namespace)
      BY <1>1, <1>3, BindingRead
    <3>4. /\ Read.op = "list" /\ Read.cluster = "local"
          /\ Read.kind = "projectroletemplatebinding" /\ Read.namespace = namespace
      BY <3>3 DEF List, Get
    <3>5. ASSUME q.name # ""
          PROVE  \E p \in NamedProjects : p \in touched \/ BackedBy(p, i.ref.namespace)
      <4>1. PICK p \in NamedProjects : p \in touched \/ BackedBy(p, namespace)
        BY <3>3, <3>5
      <4>2. p \in touched \/ p \in DOMAIN store
        BY <4>1 DEF NamedProjects
      <4>3. CASE p \in touched
        BY <4>1, <4>3
      <4>4. CASE p \notin touched
        <5>1. namespace # ""
          BY <4>1, <4>2, <4>4, BackingNamed
        <5>2. i.ref.namespace = namespace
          BY <3>2, <3>4, <5>1
        <5>. QED
          BY <4>1, <4>4, <5>2
      <4>. QED
        BY <4>3, <4>4
    <3>6. q.name # "" =>
            \E p \in NamedProjects' : p \in touched' \/ BackedBy(p, i.ref.namespace)'
      BY <2>2, <3>5 DEF BackedBy
    <3>7. InCluster(i, {"projectroletemplatebinding"}, "local")
      BY <3>2, <3>4 DEF InCluster
    <3>. QED
      BY <1>1, <2>1, <3>1, <3>6, <3>7, ToolsBelongNext DEF BelongsAre
  <2>. QED
    BY <2>3 DEF Fitting
<1>. QED
  BY <1>2, <1>3

\* The usage finds numbers, and no objects; neither do pages or a failed call.
LEMMA UsageFindsNothing ==
  ASSUME Fits, call.query.tool = "getResourceUsage"
  PROVE  call.found = {}
BY FitsIs, ToolsBelong DEF BelongsAre

LEMMA NothingFits ==
  ASSUME TypeOK, Ordered, Asked, Fits,
         \/ UsageProjects \/ UsageNamespace \/ UsageNamespaces \/ UsagePods \/ UsageMetrics
         \/ ListKubernetesResources \/ NextPage \/ NoProject
  PROVE  call'.found = {}
<1>1. CallTyped(call)
  BY CallHasType
<1>2. CASE UsageProjects \/ UsageNamespace
  BY <1>2, KeptFound DEF UsageProjects, UsageNamespace, Found
<1>3. CASE UsageNamespaces \/ UsagePods \/ UsageMetrics
  <2>1. call.found = {}
    BY <1>3, UsageFindsNothing DEF UsageNamespaces, UsagePods, UsageMetrics, Reads
  <2>2. call'.found = call.found
    BY <1>1, <1>3 DEF UsageNamespaces, UsagePods, UsageMetrics, Onwards, CallTyped
  <2>. QED
    BY <2>1, <2>2
<1>4. CASE NextPage
  <2>1. call.found = {}
    BY <1>4 DEF NextPage, Ordered, Asked
  <2>. QED
    BY <1>1, <1>4, <2>1 DEF NextPage, CallTyped
<1>5. CASE ListKubernetesResources
  <2>1. call.found = {}
    BY <1>5 DEF ListKubernetesResources, Reads, Asked
  <2>2. call'.found = call.found
    BY <1>1, <1>5 DEF ListKubernetesResources, CallTyped
  <2>. QED
    BY <2>1, <2>2
<1>6. CASE NoProject
  BY <1>6, FailedTyped DEF NoProject
<1>. QED
  BY <1>2, <1>3, <1>4, <1>5, <1>6


\* An answer without the object asked for: the rest of it does not lead further.
LEMMA AbsentFits ==
  ASSUME TypeOK, Asked, Fits, UNCHANGED <<store, touched>>, NotFound \/ Refused
  PROVE  Fitting
<1>1. call.pc = "reading"
  BY DEF NotFound, Refused
<1>2. CASE call' = Failed
  BY <1>2, FailedTyped DEF Fitting
<1>3. ASSUME NEW more, Kept(call.found, more)
      PROVE  Fitting
  <2>1. call'.found = call.found /\ call'.query = call.query
    BY <1>3, KeptFound
  <2>. QED
    BY <2>1, BelongsSame, FitsIs DEF Fitting
<1>4. CASE /\ Read.missing = "end"
           /\ call' = [call EXCEPT !.found = Without(Read.kind), !.todo = <<>>, !.pc = "done"]
  <2>1. call.query.tool = "getClusterMachine"
    BY <1>1, <1>4, MissingMeans
  <2>2. call'.found = Without(Read.kind) /\ call'.query = call.query
    <3>1. CallTyped(call)
      BY CallHasType
    <3>. QED
      BY <1>4, <3>1 DEF CallTyped
  <2>3. \A kind : AnswerOf(kind)' = IF kind = Read.kind THEN {} ELSE AnswerOf(kind)
    BY <2>2 DEF AnswerOf, Without
  <2>4. ASSUME NEW i \in Without(Read.kind) PROVE Belongs(i)'
    <3>1. i \in call.found /\ i.ref.kind # Read.kind
      BY <2>4 DEF Without
    <3>2. Belongs(i)
      BY <3>1, FitsIs
    <3>3. \/ i.ref = Ref("local", "machine", "fleet-default", call.query.name)
          \/ i.ref.kind = "machineset" /\ \E m \in AnswerOf("machine") : Owns(i, m)
          \/ i.ref.kind = "machinedeployment" /\ \E s \in AnswerOf("machineset") : Owns(i, s)
      BY <2>1, <3>2, ToolsBelong DEF BelongsAre
    <3>4. \/ Read.kind = "machine" /\ call.found = {}
          \/ Read.kind = "machineset" /\ AnswerOf("machinedeployment") = {}
          \/ Read.kind = "machinedeployment"
      BY <1>1, <2>1, MachineRead
    <3>5. CASE Read.kind = "machine" /\ call.found = {}
      BY <3>1, <3>5
    <3>6. CASE Read.kind = "machineset" /\ AnswerOf("machinedeployment") = {}
      <4>1. i.ref.kind # "machinedeployment" /\ i.ref.kind # "machineset"
        BY <3>1, <3>6 DEF AnswerOf
      <4>. QED
        BY <2>1, <2>2, <3>3, <4>1, ToolsBelongNext DEF BelongsAre
    <3>7. CASE Read.kind = "machinedeployment"
      <4>1. AnswerOf("machine")' = AnswerOf("machine") /\ i.ref.kind # "machinedeployment"
        BY <2>3, <3>1, <3>7
      <4>. QED
        BY <2>1, <2>2, <3>3, <4>1, ToolsBelongNext DEF BelongsAre
    <3>. QED
      BY <3>4, <3>5, <3>6, <3>7
  <2>5. \A i \in Without(Read.kind) : i \in call.found
    BY DEF Without
  <2>. QED
    BY <2>2, <2>4, <2>5 DEF Fitting
<1>. QED
  BY <1>2, <1>3, <1>4 DEF NotFound, Refused

LEMMA StepFits ==
  ASSUME TypeOK, Ordered, Asked, Fits, Step
  PROVE  Fits'
<1>1. UNCHANGED <<store, touched>>
  BY DEF Step
<1>2. ASSUME call.pc = "reading", Fitting PROVE Fits'
  BY <1>1, <1>2, FitsOn
<1>3. ASSUME call'.found = {} PROVE Fits'
  BY <1>3, FitsIsNext
<1>4. CASE AnalyzeCluster
  BY <1>1, <1>2, <1>4, ClustersFit DEF AnalyzeCluster, Reads
<1>5. CASE AnalyzeClusterMachines \/ GetNodes
  BY <1>1, <1>2, <1>5, ListsFit DEF AnalyzeClusterMachines, GetNodes, Reads
<1>6. CASE GetClusterMachine
  BY <1>1, <1>2, <1>6, MachineFits DEF GetClusterMachine, Reads
<1>7. CASE InspectPod
  BY <1>1, <1>2, <1>7, PodFits DEF InspectPod, Reads
<1>8. CASE GetDeploymentDetails
  BY <1>1, <1>2, <1>8, DeploymentFits DEF GetDeploymentDetails, Reads
<1>9. CASE GetClusterImages \/ GetK3kClusters
  BY <1>1, <1>2, <1>9, EverywhereFits DEF GetClusterImages, GetK3kClusters, Reads
<1>10. CASE GetProject
  BY <1>1, <1>2, <1>10, PartsFit DEF GetProject, Reads
<1>11. CASE ListProjects \/ GetUser \/ ListClusterRoleTemplateBindings \/ ReadOnce
  <2>1. call.pc = "reading"
    BY <1>11 DEF ListProjects, GetUser, ListClusterRoleTemplateBindings, ReadOnce, Reads
  <2>. QED
    BY <1>1, <1>2, <1>11, <2>1, OnceFit
<1>12. CASE ListProjectRoleTemplateBindings
  BY <1>1, <1>2, <1>12, BindingsFit DEF ListProjectRoleTemplateBindings, Reads
<1>13. CASE \/ UsageProjects \/ UsageNamespace \/ UsageNamespaces \/ UsagePods \/ UsageMetrics
            \/ ListKubernetesResources \/ NextPage \/ NoProject
  BY <1>3, <1>13, NothingFits
<1>14. CASE NotFound \/ Refused
  BY <1>1, <1>2, <1>14, AbsentFits DEF NotFound, Refused
<1>. QED
  BY <1>4, <1>5, <1>6, <1>7, <1>8, <1>9, <1>10, <1>11, <1>12, <1>13, <1>14 DEF Step

\* What others have changed may be of any other answer.
LEMMA OthersKeepNames ==
  ASSUME TypeOK, OthersWrite
  PROVE  /\ \A p \in NamedProjects : p \in NamedProjects'
         /\ \A p \in NamedProjects : \A namespace :
              p \in touched \/ BackedBy(p, namespace) => p \in touched' \/ BackedBy(p, namespace)'
         /\ \A s, r : HasOwner(s, r) => HasOwner(s, r)'
<1>1. PICK d : /\ touched' = touched \cup {d}
               /\ \A r : r # d => /\ r \in DOMAIN store' <=> r \in DOMAIN store
                                  /\ r \in DOMAIN store => store'[r] = store[r]
  BY OthersChange
<1>2. call' = call
  BY OthersChange
<1>3. touched \subseteq touched'
  BY <1>1
<1>4. \A s : s \notin touched' => /\ s \in DOMAIN store => s \in DOMAIN store'
                                  /\ s \in DOMAIN store => store'[s] = store[s]
  BY <1>1
<1>5. ASSUME NEW p \in NamedProjects
      PROVE  p \in NamedProjects'
  <2>1. /\ p \in DOMAIN store \cup touched /\ p.cluster = "local" /\ p.kind = "project"
        /\ call.query.cluster \in {"", p.namespace}
        /\ p \in touched \/ call.query.name \in {p.name, store[p].spec.displayName}
    BY DEF NamedProjects
  <2>2. CASE p \in touched'
    BY <1>2, <2>1, <2>2 DEF NamedProjects
  <2>3. CASE p \notin touched'
    <3>1. p \in DOMAIN store' /\ store'[p] = store[p] /\ p \notin touched
      BY <1>3, <1>4, <2>1, <2>3
    <3>. QED
      BY <1>2, <2>1, <3>1 DEF NamedProjects
  <2>. QED
    BY <2>2, <2>3
<1>6. ASSUME NEW p \in NamedProjects, NEW namespace, p \in touched \/ BackedBy(p, namespace)
      PROVE  p \in touched' \/ BackedBy(p, namespace)'
  <2>1. CASE p \in touched'
    BY <2>1
  <2>2. CASE p \notin touched'
    <3>1. p \in DOMAIN store /\ BackedBy(p, namespace)
      BY <1>3, <1>6, <2>2 DEF NamedProjects
    <3>2. store'[p] = store[p]
      BY <1>4, <2>2, <3>1
    <3>. QED
      BY <3>1, <3>2 DEF BackedBy
  <2>. QED
    BY <2>1, <2>2
<1>7. ASSUME NEW s, NEW r, HasOwner(s, r)
      PROVE  HasOwner(s, r)'
  BY <1>3, <1>4, <1>7 DEF HasOwner
<1>. QED
  BY <1>5, <1>6, <1>7

LEMMA OthersFits ==
  ASSUME TypeOK, Fits, OthersWrite
  PROVE  Fits'
<1>1. PICK d : /\ touched' = touched \cup {d}
               /\ \A r : r # d => /\ r \in DOMAIN store' <=> r \in DOMAIN store
                                  /\ r \in DOMAIN store => store'[r] = store[r]
  BY OthersChange
<1>2. call' = call
  BY OthersChange
<1>3. \A kind : AnswerOf(kind)' = AnswerOf(kind)
  BY <1>2 DEF AnswerOf
<1>4. ASSUME NEW i \in call.found PROVE Fresh(i)'
  <2>1. Fresh(i)
    BY FitsIs
  <2>. QED
    BY <1>1, <2>1 DEF Fresh
<1>5. ASSUME NEW i \in call.found PROVE Belongs(i)'
  <2>1. Belongs(i)
    BY FitsIs
  <2>2. CASE call.query.tool = "inspectPod"
    <3>1. CASE /\ InCluster(i, {"pod", "pods/log", "podmetrics"}, call.query.cluster)
               /\ i.ref.namespace = call.query.namespace /\ i.ref.name = call.query.name
      BY <1>2, <2>2, <3>1, ToolsBelongNext DEF BelongsAre
    <3>2. CASE /\ i.ref.kind \in Workloads
               /\ \E p \in AnswerOf("pod") : \E s \in ReplicaSets(p) : HasOwner(s, i.ref)
      <4>1. PICK p \in AnswerOf("pod") : \E s \in ReplicaSets(p) : HasOwner(s, i.ref)
        BY <3>2
      <4>2. PICK s \in ReplicaSets(p) : HasOwner(s, i.ref)
        BY <4>1
      <4>3. HasOwner(s, i.ref)'
        BY <4>2, OthersKeepNames
      <4>4. p \in AnswerOf("pod")'
        BY <1>3, <4>1
      <4>. QED
        BY <1>2, <2>2, <3>2, <4>2, <4>3, <4>4, ToolsBelongNext DEF BelongsAre
    <3>. QED
      BY <2>1, <2>2, <3>1, <3>2, ToolsBelong DEF BelongsAre
  <2>3. CASE call.query.tool = "listProjectRoleTemplateBindings"
    <3>1. /\ InCluster(i, {"projectroletemplatebinding"}, "local")
          /\ i.data.spec.cluster = call.query.cluster
          /\ call.query.user \in {"", i.data.spec.user}
          /\ call.query.name # "" =>
               \E p \in NamedProjects : p \in touched \/ BackedBy(p, i.ref.namespace)
      BY <2>1, <2>3, ToolsBelong DEF BelongsAre
    <3>2. call.query.name # "" =>
            \E p \in NamedProjects' : p \in touched' \/ BackedBy(p, i.ref.namespace)'
      BY <3>1, OthersKeepNames
    <3>. QED
      BY <1>2, <2>3, <3>1, <3>2, ToolsBelongNext DEF BelongsAre
  <2>4. CASE call.query.tool \in {"analyzeCluster", "getClusterMachine",
                                  "getDeploymentDetails", "getProject"}
    BY <1>2, <1>3, <2>1, <2>4, ToolsBelong, ToolsBelongNext DEF BelongsAre
  <2>5. CASE call.query.tool \in OneReadTools
    BY <1>2, <2>1, <2>5, ToolsBelong, ToolsBelongNext DEF BelongsAre
  <2>6. CASE call.query.tool \in
              {"analyzeClusterMachines", "getNodes", "getClusterImages", "getK3kClusters",
               "listProjects", "getUser", "listClusterRoleTemplateBindings"}
    BY <1>2, <2>1, <2>6, ToolsBelong, ToolsBelongNext DEF BelongsAre
  <2>7. CASE call.query.tool \in {"getResourceUsage", "listKubernetesResources"}
    BY <2>1, <2>7, ToolsBelong DEF BelongsAre
  <2>. QED
    BY <2>2, <2>3, <2>4, <2>5, <2>6, <2>7 DEF TypeOK, Queries, Tools
<1>. QED
  BY <1>2, <1>4, <1>5, FitsIsNext


\* By name one is found, and the others of its kind make place for it.
LEMMA StepSingle ==
  ASSUME TypeOK, Ordered, Asked, PanicsOnlyOnOverflow, Fits, Single, Step
  PROVE  Single'
<1>1. UNCHANGED <<store, touched>>
  BY DEF Step
<1>2. call'.query = call.query
  BY ToolsStepTyped
<1>3. ASSUME call'.found \subseteq call.found PROVE Single'
  BY <1>2, <1>3 DEF Single
<1>4. CASE GetClusterMachine
  <2>1. /\ call.pc = "reading" /\ call.query.tool = "getClusterMachine"
        /\ call'.found = Without(Read.kind) \cup Got /\ Read.op = "get"
    BY <1>1, <1>4, MachineFound
  <2>2. \A i \in Got : i.ref.kind = Read.kind
    BY <2>1, GotFresh
  <2>3. ASSUME NEW i \in call'.found, NEW j \in call'.found, i.ref.kind = j.ref.kind,
               i.ref.kind \in {"machine", "machineset"}
        PROVE  i = j
    <3>1. CASE i.ref.kind = Read.kind
      <4>1. i \in Got /\ j \in Got
        BY <2>1, <2>3, <3>1 DEF Without
      <4>. QED
        BY <2>1, <4>1, OneGot
    <3>2. CASE i.ref.kind # Read.kind
      <4>1. i \in call.found /\ j \in call.found
        BY <2>1, <2>2, <2>3, <3>2 DEF Without
      <4>. QED
        BY <2>1, <2>3, <4>1 DEF Single
    <3>. QED
      BY <3>1, <3>2
  <2>. QED
    BY <1>2, <2>1, <2>3 DEF Single
<1>5. CASE InspectPod
  <2>1. /\ call.pc = "reading" /\ call.query.tool = "inspectPod"
        /\ call'.found \in {call.found, call.found \cup Got}
    BY <1>5, KeptFound DEF InspectPod, Found, Reads
  <2>2. \A i \in Got : i.ref.kind = Read.kind
    BY <2>1, GotFresh
  <2>3. \/ Read.kind # "pod"
        \/ call.found = {} /\ Read.op = "get"
    <3>1. CASE Read = Get(call.query.cluster, "pod", call.query.namespace, call.query.name, "fail")
      <4>1. Read.op = "get"
        BY <3>1 DEF Get
      <4>. QED
        BY <2>1, <3>1, <4>1, PodRead DEF Workloads
    <3>2. CASE Read # Get(call.query.cluster, "pod", call.query.namespace, call.query.name, "fail")
      BY <2>1, <3>2, PodRead DEF Workloads
    <3>. QED
      BY <3>1, <3>2
  <2>4. ASSUME NEW i \in call'.found, NEW j \in call'.found,
               i.ref.kind = "pod", j.ref.kind = "pod"
        PROVE  i = j
    <3>1. CASE Read.kind # "pod"
      <4>1. i \in call.found /\ j \in call.found
        BY <2>1, <2>2, <2>4, <3>1
      <4>. QED
        BY <2>1, <2>4, <4>1 DEF Single
    <3>2. CASE call.found = {} /\ Read.op = "get"
      <4>1. i \in Got /\ j \in Got
        BY <2>1, <3>2
      <4>. QED
        BY <2>1, <3>2, <4>1, OneGot
    <3>. QED
      BY <2>3, <3>1, <3>2
  <2>. QED
    BY <1>2, <2>1, <2>4 DEF Single
<1>6. CASE call.query.tool \notin {"getClusterMachine", "inspectPod"}
  BY <1>2, <1>6 DEF Single
<1>7. CASE NotFound \/ Refused
  <2>1. CASE call' = Failed
    BY <1>3, <2>1, FailedTyped
  <2>2. ASSUME NEW more, Kept(call.found, more) PROVE Single'
    BY <1>3, <2>2, KeptFound
  <2>3. CASE call' = [call EXCEPT !.found = Without(Read.kind), !.todo = <<>>, !.pc = "done"]
    <3>1. CallTyped(call)
      BY CallHasType
    <3>2. call'.found = Without(Read.kind)
      BY <2>3, <3>1 DEF CallTyped
    <3>. QED
      BY <1>3, <3>2 DEF Without
  <2>. QED
    BY <1>7, <2>1, <2>2, <2>3 DEF NotFound, Refused
<1>8. CASE NextPage \/ NoProject
  <2>1. call'.found = {}
    BY <1>8, NothingFits
  <2>. QED
    BY <1>3, <2>1
<1>. QED
  BY <1>4, <1>5, <1>6, <1>7, <1>8
     DEF Step, AnalyzeCluster, AnalyzeClusterMachines, GetDeploymentDetails, GetNodes,
         GetClusterImages, GetK3kClusters, GetProject, ListProjects, GetUser,
         ListClusterRoleTemplateBindings, ListProjectRoleTemplateBindings, ReadOnce,
         UsageProjects, UsageNamespace, UsageNamespaces, UsagePods, UsageMetrics,
         ListKubernetesResources, Reads, OneReadTools

LEMMA OthersSingle ==
  ASSUME TypeOK, Single, OthersWrite
  PROVE  Single'
BY OthersChange DEF Single


Fitted == Fits /\ Single

LEMMA InitFitted ==
  ASSUME Init
  PROVE  Fitted
BY InitTyped DEF Fitted, Fits, Single

LEMMA NextFitted ==
  ASSUME Typed, Fitted, [Next]_vars
  PROVE  Fitted'
<1>1. TypeOK /\ Ordered /\ Asked /\ PanicsOnlyOnOverflow /\ Fits /\ Single
  BY DEF Typed, Fitted
<1>2. CASE Begin
  <2>1. call'.found = {}
    BY <1>1, <1>2, BeginTyped
  <2>. QED
    BY <2>1 DEF Fitted, Fits, Single
<1>3. CASE Step
  BY <1>1, <1>3, StepFits, StepSingle DEF Fitted
<1>4. CASE OthersWrite
  BY <1>1, <1>4, OthersFits, OthersSingle DEF Fitted
<1>5. CASE UNCHANGED vars
  <2>1. \A i : Belongs(i)' <=> Belongs(i)
    BY <1>5, BelongsSame DEF vars
  <2>2. \A i : Fresh(i)' <=> Fresh(i)
    BY <1>5 DEF vars, Fresh
  <2>3. call' = call
    BY <1>5 DEF vars
  <2>4. Fits'
    BY <1>1, <2>1, <2>2, <2>3, FitsIs, FitsIsNext
  <2>5. Single'
    BY <1>1, <2>3 DEF Single
  <2>. QED
    BY <2>4, <2>5 DEF Fitted
<1>. QED
  BY <1>2, <1>3, <1>4, <1>5 DEF Next

\* Nothing is in an answer that does not belong there, although its objects come
\* from different moments, and what nobody changed is as it is now.
THEOREM AnswersFit == Spec => []AnswerFits
<1>1. Init => Typed /\ Fitted
  BY InitTypedAll, InitFitted
<1>2. Typed /\ Fitted /\ [Next]_vars => Typed' /\ Fitted'
  BY StepTypedAll, NextFitted
<1>3. Typed /\ Fitted => AnswerFits
  BY DEF Fitted, Fits, AnswerFits
<1>. QED
  BY <1>1, <1>2, <1>3, PTL DEF Spec


-----------------------------------------------------------------------------
(* What stays is not left out.                                               *)

\* An object that nobody has changed, as it is.
Stays == {[ref |-> r, data |-> store[r]] : r \in DOMAIN store \ touched}

\* It is in the answer, or will be.
ToBe(i) == i \in call.found \/ Led(i) \/ \E o \in Range(call.todo) : Gets(o, i)

LEMMA LastingIs ==
  Lasting <=> (call.pc \in {"reading", "done"} =>
                 \A i \in Stays : Belongs(i) /\ ~Optional(i) => ToBe(i))
BY DEF Lasting, Stays, ToBe

LEMMA LastingIsNext ==
  Lasting' <=> (call'.pc \in {"reading", "done"} =>
                  \A i \in Stays' : Belongs(i)' /\ ~Optional(i)' => ToBe(i)')
BY DEF Lasting, Stays, ToBe

LEMMA StayIs ==
  ASSUME TypeOK, NEW i \in Stays
  PROVE  /\ i \in Items /\ i.ref \in References /\ i.ref \in DOMAIN store
         /\ i.ref \notin touched /\ store[i.ref] = i.data
BY DEF Stays, Items, TypeOK

\* What stays is what it was read as.
LEMMA StaysFresh ==
  ASSUME TypeOK, NEW i \in Stays, NEW j \in Items, Fresh(j), i.ref = j.ref, j.ref.kind # "pods/log"
  PROVE  i = j
<1>1. /\ i \in Items /\ i.ref \in DOMAIN store /\ i.ref \notin touched /\ store[i.ref] = i.data
  BY StayIs
<1>2. j.ref \in References
  BY ObjectTyped
<1>3. [j.ref EXCEPT !.kind = Served(@)] = j.ref
  BY <1>2 DEF Served, References
<1>4. i.data = j.data
  BY <1>1, <1>3 DEF Fresh
<1>. QED
  BY <1>1, <1>4 DEF Items

LEMMA StayGot ==
  ASSUME TypeOK, call.pc = "reading", NEW i \in Stays, Gets(Read, i), ~Optional(i)
  PROVE  i \in Got
<1>1. i.ref.kind # "pods/log"
  BY DEF Optional
<1>2. i \in Items /\ i.ref \in DOMAIN store /\ store[i.ref] = i.data
  BY StayIs
<1>3. i = [ref |-> i.ref, data |-> store[i.ref]]
  BY <1>2 DEF Items
<1>. QED
  BY <1>1, <1>2, <1>3, GotIs

\* When it is Optional only afterwards.
LEMMA StayGotThen ==
  ASSUME TypeOK, call.pc = "reading", NEW i \in Stays, Gets(Read, i), ~Optional(i)'
  PROVE  i \in Got
<1>1. i.ref.kind # "pods/log"
  BY DEF Optional
<1>2. i \in Items /\ i.ref \in DOMAIN store /\ store[i.ref] = i.data
  BY StayIs
<1>3. i = [ref |-> i.ref, data |-> store[i.ref]]
  BY <1>2 DEF Items
<1>. QED
  BY <1>1, <1>2, <1>3, GotIs

LEMMA KeptTodo ==
  ASSUME TypeOK, call.pc = "reading", NEW found, NEW more \in Seq(Requests), Kept(found, more)
  PROVE  /\ Range(call'.todo) = Range(more) \cup Range(Tail(call.todo))
         /\ Range(call.todo) = {Read} \cup Range(Tail(call.todo))
<1>1. call'.todo = more \o Tail(call.todo)
  BY KeptFound
<1>2. Tail(call.todo) \in Seq(Requests)
  BY ReadTyped
<1>3. Range(more \o Tail(call.todo)) = Range(more) \cup Range(Tail(call.todo))
  BY <1>2, RangeConcatenation
<1>4. Range(call.todo) = {Read} \cup Range(Tail(call.todo))
  BY TodoIs
<1>. QED
  BY <1>1, <1>3, <1>4

\* What was to be still is, or is read now.
LEMMA StillToBe ==
  ASSUME TypeOK, Lasting, call.pc = "reading",
         Range(Tail(call.todo)) \subseteq Range(call'.todo),
         NEW i \in Stays, Belongs(i), ~Optional(i)
  PROVE  \/ i \in call.found \/ Led(i) \/ i \in Got
         \/ \E o \in Range(call'.todo) : Gets(o, i)
<1>1. ToBe(i)
  BY LastingIs
<1>2. Range(call.todo) = {Read} \cup Range(Tail(call.todo))
  BY TodoIs
<1>3. CASE Gets(Read, i)
  BY <1>3, StayGot
<1>. QED
  BY <1>1, <1>2, <1>3 DEF ToBe


\* What is left out of an answer on purpose.
OptionalAre ==
  \A i :
  /\ i.ref.kind \in {"podmetrics", "nodemetrics", "pods/log", "k3kcluster"} => Optional(i)
  /\ /\ call.query.tool = "getClusterMachine"
     /\ \E o \in call.found : Owns(i, o) /\ Len(Owned(o, i.ref.kind)) > 1
     => Optional(i)
  /\ /\ call.query.tool = "inspectPod" /\ i.ref.kind \in Workloads
     /\ \E p \in AnswerOf("pod") : ReplicaSets(p) \subseteq touched
     => Optional(i)
  /\ /\ call.query.tool = "listProjectRoleTemplateBindings" /\ call.query.name # ""
     /\ NamedProjects \cap touched # {} \/ \E p, o \in NamedProjects : p # o
     => Optional(i)
  /\ call.query.tool = "getUser" /\ call.found # {} => Optional(i)
  /\ /\ call.query.tool = "getClusterImages" /\ call.query.cluster = ""
     /\ ~Steady(i.ref.cluster)
     => Optional(i)

LEMMA ToolsOptional == OptionalAre
BY DEF OptionalAre, Optional

LEMMA ToolsOptionalNext == OptionalAre'
BY ToolsOptional, PTL

\* In the other tools it is a matter of the kind.
LEMMA OptionalKinds ==
  ASSUME call'.query = call.query, NEW i, ~Optional(i)',
         call.query.tool \notin {"getClusterMachine", "inspectPod", "getUser", "getClusterImages",
                                 "listProjectRoleTemplateBindings"}
  PROVE  ~Optional(i)
BY DEF Optional

LEMMA OptionalSame ==
  ASSUME UNCHANGED <<store, touched>>, call'.query = call.query, call'.found = call.found, NEW i
  PROVE  Optional(i)' <=> Optional(i)
BY DEF Optional, AnswerOf, NamedProjects, Steady

\* What a step still has to show of an object that belongs there.
Lasts(i) == i \in call'.found \/ Led(i)' \/ \E o \in Range(call'.todo) : Gets(o, i)

LEMMA LastingOn ==
  ASSUME UNCHANGED <<store, touched>>,
         \A i \in Stays : Belongs(i)' /\ ~Optional(i)' => Lasts(i)
  PROVE  Lasting'
<1>1. Stays' = Stays
  BY DEF Stays
<1>2. \A i : ToBe(i)' <=> Lasts(i)
  BY DEF ToBe, Lasts, Gets
<1>. QED
  BY <1>1, <1>2, LastingIsNext

\* Where the rest goes on as before.
LEMMA GoesOn ==
  ASSUME TypeOK, Lasting, call.pc = "reading", UNCHANGED <<store, touched>>,
         Kept(call.found \cup Got, <<>>),
         NEW i \in Stays, Belongs(i), ~Optional(i), Led(i) => Led(i)'
  PROVE  Lasts(i)
<1>1. call'.found = call.found \cup Got
  BY KeptFound
<1>2. Range(call'.todo) = Range(Tail(call.todo))
  <2>1. Range(call'.todo) = Range(<<>>) \cup Range(Tail(call.todo))
    BY EmptySeq, KeptTodo
  <2>2. Range(<<>>) = {}
    BY FewAre
  <2>. QED
    BY <2>1, <2>2
<1>3. \/ i \in call.found \/ Led(i) \/ i \in Got
      \/ \E o \in Range(call'.todo) : Gets(o, i)
  BY <1>2, StillToBe
<1>. QED
  BY <1>1, <1>3 DEF Lasts

LEMMA ClustersLast ==
  ASSUME TypeOK, Asked, Fits, Lasting, UNCHANGED <<store, touched>>, AnalyzeCluster
  PROVE  Lasting'
<1> DEFINE q == call.query
<1>1. call.pc = "reading" /\ q.tool = "analyzeCluster" /\ ~Absent
  BY DEF AnalyzeCluster, Reads, Found
<1>2. call'.found = call.found \cup Got /\ call'.query = q
  BY KeptFound DEF AnalyzeCluster, Found
<1>3. \A j \in Got : j.ref.kind = Read.kind
  BY <1>1, GotFresh
<1>4. ASSUME NEW i \in Stays, Belongs(i)', ~Optional(i)'
      PROVE  Lasts(i)
  <2>1. ~Optional(i)
    BY <1>1, <1>2, <1>4, OptionalKinds
  <2>2. PICK c \in AnswerOf("provisioningcluster")' : ClusterPart(i, c, q.cluster)
    BY <1>1, <1>2, <1>4, ToolsBelongNext DEF BelongsAre
  <2>3. c \in call.found \cup Got /\ c.ref.kind = "provisioningcluster"
    BY <1>2, <2>2 DEF AnswerOf
  <2>4. CASE Read.kind # "provisioningcluster"
    <3>1. c \in AnswerOf("provisioningcluster")
      BY <1>3, <2>3, <2>4 DEF AnswerOf
    <3>2. Belongs(i)
      BY <1>1, <2>2, <3>1, ToolsBelong DEF BelongsAre
    <3>3. ~Led(i)
      BY <1>1 DEF Led
    <3>4. Kept(call.found \cup Got, <<>>)
      BY <2>4 DEF AnalyzeCluster, Found
    <3>. QED
      BY <1>1, <2>1, <3>2, <3>3, <3>4, GoesOn
  <2>5. CASE Read.kind = "provisioningcluster"
    <3>1. call.found = {} /\ Read.op = "get"
      <4>1. Get("local", "provisioningcluster", ClusterNamespace(q), q.cluster, "fail").op = "get"
        BY DEF Get
      <4>. QED
        BY <1>1, <2>5, <4>1, ClusterRead
    <3>2. c \in Got /\ The(Got) \in Got
      BY <1>1, <2>3, <3>1, TheGot
    <3>3. c = The(Got) /\ c \in Items /\ Fresh(c)
      BY <1>1, <3>1, <3>2, OneGot, GotFresh
    <3>4. Kept(call.found \cup Got, ClusterParts(c))
      BY <2>5, <3>3 DEF AnalyzeCluster, Found
    <3>5. Range(ClusterParts(c)) \subseteq Range(call'.todo)
      <4>1. ClusterParts(c) \in Seq(Requests)
        BY <3>3, ClusterPartsTyped
      <4>. QED
        BY <1>1, <3>4, <4>1, KeptTodo
    <3>6. ASSUME NEW kind, NEW namespace, NEW name,
                 i.ref = Ref("local", kind, namespace, name)
          PROVE  Gets(Get("local", kind, namespace, name, "skip"), i)
      <4>1. PICK g : g = Get("local", kind, namespace, name, "skip")
        OBVIOUS
      <4>2. /\ g.op = "get" /\ g.cluster = "local" /\ g.kind = kind
            /\ g.namespace = namespace /\ g.name = name
        BY <4>1 DEF Get
      <4>. QED
        BY <3>6, <4>1, <4>2 DEF Gets, Ref
    <3>7. CASE i.ref = c.ref
      BY <1>2, <2>3, <3>2, <3>3, <3>7, StaysFresh DEF Lasts
    <3>8. CASE i.ref = Ref("local", "managementcluster", "", c.data.spec.management)
      <4>1. Get("local", "managementcluster", "", c.data.spec.management, "skip")
              \in Range(ClusterParts(c))
        BY <3>3, ClusterPartsAre
      <4>. QED
        BY <3>5, <3>6, <3>8, <4>1 DEF Lasts
    <3>9. CASE i.ref = Ref("local", "capicluster", "fleet-default", c.ref.name)
      <4>1. Get("local", "capicluster", "fleet-default", c.ref.name, "skip")
              \in Range(ClusterParts(c))
        BY <3>3, ClusterPartsAre
      <4>. QED
        BY <3>5, <3>6, <3>9, <4>1 DEF Lasts
    <3>10. CASE \E n \in Range(c.data.spec.pools) :
                  i.ref = Ref("local", "machineconfig", "fleet-default", n)
      <4>1. PICK n \in Range(c.data.spec.pools) :
              i.ref = Ref("local", "machineconfig", "fleet-default", n)
        BY <3>10
      <4>2. Get("local", "machineconfig", "fleet-default", n, "skip") \in Range(ClusterParts(c))
        BY <3>3, ClusterPartsAre
      <4>. QED
        BY <3>5, <3>6, <4>1, <4>2 DEF Lasts
    <3>11. CASE MachineOf(i, q.cluster, "fleet-default")
      <4>1. PICK l : l = List("local", i.ref.kind, "fleet-default", q.cluster, "skip")
        OBVIOUS
      <4>2. l \in Range(ClusterParts(c))
        BY <3>3, <3>11, <4>1, ClusterPartsAre DEF MachineOf, InCluster
      <4>3. /\ l.op = "list" /\ l.cluster = "local" /\ l.kind = i.ref.kind
            /\ l.namespace = "fleet-default" /\ l.label = q.cluster
        BY <4>1 DEF List, Get
      <4>4. Gets(l, i)
        BY <3>11, <4>3 DEF Gets, MachineOf, InCluster
      <4>. QED
        BY <3>5, <4>2, <4>4 DEF Lasts
    <3>. QED
      BY <2>2, <3>7, <3>8, <3>9, <3>10, <3>11 DEF ClusterPart
  <2>. QED
    BY <2>4, <2>5
<1>. QED
  BY <1>4, LastingOn


LEMMA ListsLast ==
  ASSUME TypeOK, Lasting, UNCHANGED <<store, touched>>, AnalyzeClusterMachines \/ GetNodes
  PROVE  Lasting'
<1>1. /\ call.pc = "reading" /\ call.query.tool \in {"analyzeClusterMachines", "getNodes"}
      /\ Kept(call.found \cup Got, <<>>)
  BY DEF AnalyzeClusterMachines, GetNodes, Reads, Found
<1>2. call'.query = call.query
  BY <1>1, KeptFound
<1>3. ASSUME NEW i \in Stays, Belongs(i)', ~Optional(i)'
      PROVE  Lasts(i)
  <2>1. ~Optional(i)
    BY <1>1, <1>2, <1>3, OptionalKinds
  <2>2. Belongs(i)
    BY <1>1, <1>2, <1>3, ToolsBelong, ToolsBelongNext DEF BelongsAre
  <2>3. ~Led(i)
    BY <1>1 DEF Led
  <2>. QED
    BY <1>1, <2>1, <2>2, <2>3, GoesOn
<1>. QED
  BY <1>3, LastingOn

\* An object that names an owner leads to it.
LEMMA OwnerAsked ==
  ASSUME NEW o \in Items, NEW kind \in Strings, NEW name,
         [kind |-> kind, name |-> name] \in Range(o.data.owners)
  PROVE  \E r \in Range(OwnerReads(o, kind)) :
           /\ r.op = "get" /\ r.cluster = "local" /\ r.kind = kind
           /\ r.namespace = "fleet-default" /\ r.name = name
<1>1. PICK k \in 1..Len(Owned(o, kind)) : Owned(o, kind)[k] = [kind |-> kind, name |-> name]
  BY OwnedAre
<1>2. k \in 1..Len(OwnerReads(o, kind))
  BY OwnerReadsAre
<1>3. OwnerReads(o, kind)[k] = Get("local", kind, "fleet-default", name, "end")
  BY <1>1, <1>2, OwnerReadsAre
<1>4. OwnerReads(o, kind)[k] \in Range(OwnerReads(o, kind))
  BY <1>2, OwnerReadsAre, RangeEquality
<1>5. PICK r : r = Get("local", kind, "fleet-default", name, "end")
  OBVIOUS
<1>6. /\ r.op = "get" /\ r.cluster = "local" /\ r.kind = kind
      /\ r.namespace = "fleet-default" /\ r.name = name
  BY <1>5 DEF Get
<1>. QED
  BY <1>3, <1>4, <1>5, <1>6

\* The only owner of a kind.
LEMMA OnlyOwner ==
  ASSUME NEW o \in Items, NEW kind, ~(Len(Owned(o, kind)) > 1), NEW a, NEW b,
         [kind |-> kind, name |-> a] \in Range(o.data.owners),
         [kind |-> kind, name |-> b] \in Range(o.data.owners)
  PROVE  a = b
<1>1. PICK j \in 1..Len(Owned(o, kind)) : Owned(o, kind)[j] = [kind |-> kind, name |-> a]
  BY OwnedAre
<1>2. PICK k \in 1..Len(Owned(o, kind)) : Owned(o, kind)[k] = [kind |-> kind, name |-> b]
  BY OwnedAre
<1>3. Len(Owned(o, kind)) \in Nat
  BY OwnedAre
<1>4. j = k
  BY <1>1, <1>2, <1>3
<1>5. [kind |-> kind, name |-> a] = [kind |-> kind, name |-> b]
  BY <1>1, <1>2, <1>4
<1>. QED
  BY <1>5


\* The objects of one machine: unless an owner of several is left out, each is
\* the one that its machine or set names.
LEMMA MachineLasts ==
  ASSUME TypeOK, Asked, Fits, Single, UNCHANGED <<store, touched>>,
         call.pc = "reading", call.query.tool = "getClusterMachine",
         call'.query = call.query, call'.found = Without(Read.kind) \cup Got,
         GetClusterMachine \/ Got = {}
  PROVE  Lasting'
<1> DEFINE q == call.query
<1>1. \A j \in Got : /\ Fresh(j) /\ j \in Items /\ j.ref.kind = Read.kind
                     /\ j.ref.cluster = "local" /\ j.ref.namespace = "fleet-default"
  BY GotFresh, MachineRead
<1>2. ASSUME NEW kind
      PROVE  AnswerOf(kind)' = IF kind = Read.kind THEN Got ELSE AnswerOf(kind)
  <2>1. AnswerOf(kind)' = {i \in Without(Read.kind) \cup Got : i.ref.kind = kind}
    BY DEF AnswerOf
  <2>. QED
    BY <1>1, <2>1 DEF AnswerOf, Without
<1>3. \A j \in call.found :
        /\ Fresh(j) /\ j \in Items /\ j.ref.cluster = "local" /\ j.ref.namespace = "fleet-default"
  BY FitsIs, MachineryIs
<1>4. ASSUME NEW m \in AnswerOf("machine"), NEW i \in Stays,
             i.ref = Ref("local", "machine", "fleet-default", q.name)
      PROVE  i = m
  <2>1. m \in call.found /\ m.ref.kind = "machine"
    BY <1>4 DEF AnswerOf
  <2>2. m.ref = Ref("local", "machine", "fleet-default", q.name)
    <3>1. m.ref \in References /\ m.ref.name = q.name
      BY <2>1, MachineryIs, ObjectTyped
    <3>. QED
      BY <1>3, <2>1, <3>1, RefIs
  <2>. QED
    BY <1>3, <1>4, <2>1, <2>2, StaysFresh
<1>5. ASSUME NEW o \in Items, NEW kind \in Strings, Read \in Range(OwnerReads(o, kind)),
             NEW i \in Stays, i.ref.kind = kind, Owns(i, o), o.ref.cluster = "local",
             o.ref.namespace = "fleet-default", ~(Len(Owned(o, kind)) > 1), ~Optional(i)'
      PROVE  i \in Got
  <2>1. /\ Read.op = "get" /\ Read.cluster = "local" /\ Read.namespace = "fleet-default"
        /\ Read.kind = kind /\ [kind |-> kind, name |-> Read.name] \in Range(o.data.owners)
    BY <1>5, OwnerOf
  <2>2. /\ i.ref.cluster = "local" /\ i.ref.namespace = "fleet-default"
        /\ [kind |-> kind, name |-> i.ref.name] \in Range(o.data.owners)
    BY <1>5 DEF Owns
  <2>3. i.ref.name = Read.name
    BY <1>5, <2>1, <2>2, OnlyOwner
  <2>4. Gets(Read, i)
    BY <1>5, <2>1, <2>2, <2>3 DEF Gets
  <2>. QED
    BY <1>5, <2>4, StayGotThen
<1>6. ASSUME NEW i \in Stays, ~Optional(i)', NEW o \in call'.found, Owns(i, o)
      PROVE  ~(Len(Owned(o, i.ref.kind)) > 1)
  BY <1>6, ToolsOptionalNext DEF OptionalAre
<1>7. ASSUME NEW i \in Stays, Belongs(i)', ~Optional(i)'
      PROVE  Lasts(i)
  <2>1. \/ i.ref = Ref("local", "machine", "fleet-default", q.name)
        \/ i.ref.kind = "machineset" /\ \E m \in AnswerOf("machine")' : Owns(i, m)
        \/ i.ref.kind = "machinedeployment" /\ \E s \in AnswerOf("machineset")' : Owns(i, s)
    BY <1>7, ToolsBelongNext DEF BelongsAre
  <2>2. CASE call.found = {} /\ Read.kind = "machine" /\ Read.name = q.name
    <3>1. AnswerOf("machine")' = Got /\ AnswerOf("machineset")' = {}
      BY <1>2, <2>2 DEF AnswerOf
    <3>2. CASE i.ref = Ref("local", "machine", "fleet-default", q.name)
      <4>1. Gets(Read, i)
        <5>1. Read.op = "get" /\ Read.cluster = "local" /\ Read.namespace = "fleet-default"
          BY MachineRead
        <5>. QED
          BY <2>2, <3>2, <5>1 DEF Gets, Ref
      <4>2. i \in Got
        BY <1>7, <4>1, StayGotThen
      <4>. QED
        BY <4>2 DEF Lasts
    <3>3. CASE i.ref.kind = "machineset" /\ \E m \in AnswerOf("machine")' : Owns(i, m)
      <4>1. PICK m \in Got : Owns(i, m)
        BY <3>1, <3>3
      <4>2. GetClusterMachine /\ Read.op = "get" /\ ~Absent
        BY <4>1, MachineRead DEF GetClusterMachine, Found
      <4>3. The(Got) \in Got
        BY <4>2, TheGot
      <4>4. m = The(Got)
        BY <4>1, <4>2, <4>3, OneGot
      <4>5. Kept(call'.found, OwnerReads(m, "machineset"))
        BY <2>2, <4>2, <4>4 DEF GetClusterMachine, Found
      <4>6. [kind |-> "machineset", name |-> i.ref.name] \in Range(m.data.owners)
        BY <3>3, <4>1 DEF Owns
      <4>7. m \in Items /\ m.ref.cluster = "local" /\ m.ref.namespace = "fleet-default"
        BY <1>1, <4>1
      <4>8. PICK r \in Range(OwnerReads(m, "machineset")) :
              /\ r.op = "get" /\ r.cluster = "local" /\ r.kind = "machineset"
              /\ r.namespace = "fleet-default" /\ r.name = i.ref.name
        <5>1. "machineset" \in Strings
          BY WordsAreStrings
        <5>. QED
          BY <4>6, <4>7, <5>1, OwnerAsked
      <4>9. OwnerReads(m, "machineset") \in Seq(Requests)
        BY <4>7, OwnerReadsAre, WordsAreStrings
      <4>10. r \in Range(call'.todo)
        BY <4>5, <4>8, <4>9, KeptTodo
      <4>11. Gets(r, i)
        BY <3>3, <4>1, <4>7, <4>8 DEF Gets, Owns
      <4>. QED
        BY <4>10, <4>11 DEF Lasts
    <3>. QED
      BY <2>1, <3>1, <3>2, <3>3
  <2>3. CASE /\ Read.kind = "machineset"
             /\ \E m \in AnswerOf("machine") : Read \in Range(OwnerReads(m, "machineset"))
    <3>1. PICK m \in AnswerOf("machine") : Read \in Range(OwnerReads(m, "machineset"))
      BY <2>3
    <3>2. /\ AnswerOf("machine")' = AnswerOf("machine") /\ AnswerOf("machineset")' = Got
          /\ m \in call.found /\ m.ref.kind = "machine" /\ m \in call'.found
      BY <1>2, <2>3, <3>1 DEF AnswerOf, Without
    <3>3. CASE i.ref = Ref("local", "machine", "fleet-default", q.name)
      BY <1>4, <3>1, <3>2, <3>3 DEF Lasts
    <3>4. CASE i.ref.kind = "machineset" /\ \E o \in AnswerOf("machine")' : Owns(i, o)
      <4>1. Owns(i, m)
        <5>1. PICK o \in AnswerOf("machine") : Owns(i, o)
          BY <3>2, <3>4
        <5>2. o = m
          BY <3>1, <5>1 DEF Single, AnswerOf
        <5>. QED
          BY <5>1, <5>2
      <4>2. ~(Len(Owned(m, "machineset")) > 1)
        BY <1>6, <1>7, <3>2, <3>4, <4>1
      <4>3. i \in Got
        BY <1>3, <1>5, <1>7, <3>1, <3>2, <3>4, <4>1, <4>2, WordsAreStrings
      <4>. QED
        BY <4>3 DEF Lasts
    <3>5. CASE i.ref.kind = "machinedeployment" /\ \E s \in AnswerOf("machineset")' : Owns(i, s)
      <4>1. PICK s \in Got : Owns(i, s)
        BY <3>2, <3>5
      <4>2. GetClusterMachine /\ Read.op = "get" /\ ~Absent
        BY <4>1, MachineRead DEF GetClusterMachine, Found
      <4>3. s = The(Got) /\ s \in Items /\ s.ref.cluster = "local"
            /\ s.ref.namespace = "fleet-default"
        BY <1>1, <4>1, <4>2, TheGot, OneGot
      <4>4. CASE LastOf("machineset")
        <5>1. Kept(call'.found, OwnerReads(s, "machinedeployment"))
          BY <2>3, <4>2, <4>3, <4>4 DEF GetClusterMachine, Found
        <5>2. [kind |-> "machinedeployment", name |-> i.ref.name] \in Range(s.data.owners)
          BY <3>5, <4>1 DEF Owns
        <5>3. PICK r \in Range(OwnerReads(s, "machinedeployment")) :
                /\ r.op = "get" /\ r.cluster = "local" /\ r.kind = "machinedeployment"
                /\ r.namespace = "fleet-default" /\ r.name = i.ref.name
          <6>1. "machinedeployment" \in Strings
            BY WordsAreStrings
          <6>. QED
            BY <4>3, <5>2, <6>1, OwnerAsked
        <5>4. OwnerReads(s, "machinedeployment") \in Seq(Requests)
          BY <4>3, OwnerReadsAre, WordsAreStrings
        <5>5. r \in Range(call'.todo)
          BY <5>1, <5>3, <5>4, KeptTodo
        <5>6. Gets(r, i)
          BY <3>5, <4>1, <4>3, <5>3 DEF Gets, Owns
        <5>. QED
          BY <5>5, <5>6 DEF Lasts
      <4>5. CASE ~LastOf("machineset")
        <5>1. PICK r \in Range(Tail(call.todo)) : r.kind = "machineset"
          BY <4>5, TodoIs
        <5>2. Kept(call'.found, <<>>)
          BY <2>3, <4>2, <4>5 DEF GetClusterMachine, Found
        <5>3. r \in Range(call'.todo)
          BY <5>1, <5>2, KeptTodo, EmptySeq
        <5>4. Led(i)'
          BY <3>5, <5>1, <5>3 DEF Led, Pending
        <5>. QED
          BY <5>4 DEF Lasts
      <4>. QED
        BY <4>4, <4>5
    <3>. QED
      BY <2>1, <3>3, <3>4, <3>5
  <2>4. CASE /\ Read.kind = "machinedeployment"
             /\ \E s \in AnswerOf("machineset") : Read \in Range(OwnerReads(s, "machinedeployment"))
    <3>1. PICK s \in AnswerOf("machineset") : Read \in Range(OwnerReads(s, "machinedeployment"))
      BY <2>4
    <3>2. /\ AnswerOf("machine")' = AnswerOf("machine")
          /\ AnswerOf("machineset")' = AnswerOf("machineset")
          /\ s \in call.found /\ s.ref.kind = "machineset" /\ s \in call'.found
      BY <1>2, <2>4, <3>1 DEF AnswerOf, Without
    <3>3. PICK m \in AnswerOf("machine") : Owns(s, m)
      BY <3>2, MachineryIs
    <3>4. m \in call.found /\ m.ref.kind = "machine" /\ m \in call'.found
      BY <2>4, <3>3 DEF AnswerOf, Without
    <3>5. CASE i.ref = Ref("local", "machine", "fleet-default", q.name)
      BY <1>4, <3>3, <3>4, <3>5 DEF Lasts
    <3>6. CASE i.ref.kind = "machineset" /\ \E o \in AnswerOf("machine")' : Owns(i, o)
      <4>1. Owns(i, m)
        <5>1. PICK o \in AnswerOf("machine") : Owns(i, o)
          BY <3>2, <3>6
        <5>2. o = m
          BY <3>3, <5>1 DEF Single, AnswerOf
        <5>. QED
          BY <5>1, <5>2
      <4>2. ~(Len(Owned(m, "machineset")) > 1)
        BY <1>6, <1>7, <3>4, <3>6, <4>1
      <4>3. /\ [kind |-> "machineset", name |-> i.ref.name] \in Range(m.data.owners)
            /\ [kind |-> "machineset", name |-> s.ref.name] \in Range(m.data.owners)
        BY <3>2, <3>3, <3>6, <4>1 DEF Owns
      <4>4. i.ref.name = s.ref.name
        BY <1>3, <3>4, <4>2, <4>3, OnlyOwner
      <4>5. /\ i.ref.cluster = s.ref.cluster /\ i.ref.namespace = s.ref.namespace
            /\ i.ref \in References /\ s.ref \in References
        BY <1>3, <3>2, <3>3, <4>1, StayIs, ObjectTyped DEF Owns
      <4>6. i.ref = s.ref
        BY <3>2, <3>6, <4>4, <4>5, SameReference
      <4>. QED
        BY <1>3, <3>2, <4>6, StaysFresh DEF Lasts
    <3>7. CASE i.ref.kind = "machinedeployment" /\ \E o \in AnswerOf("machineset")' : Owns(i, o)
      <4>1. Owns(i, s)
        <5>1. PICK o \in AnswerOf("machineset") : Owns(i, o)
          BY <3>2, <3>7
        <5>2. o = s
          BY <3>1, <5>1 DEF Single, AnswerOf
        <5>. QED
          BY <5>1, <5>2
      <4>2. ~(Len(Owned(s, "machinedeployment")) > 1)
        BY <1>6, <1>7, <3>2, <3>7, <4>1
      <4>3. i \in Got
        BY <1>3, <1>5, <1>7, <3>1, <3>2, <3>7, <4>1, <4>2, WordsAreStrings
      <4>. QED
        BY <4>3 DEF Lasts
    <3>. QED
      BY <2>1, <3>5, <3>6, <3>7
  <2>. QED
    BY <2>2, <2>3, <2>4, MachineRead
<1>. QED
  BY <1>7, LastingOn


\* There is one first.
LEMMA OneFirst ==
  ASSUME NEW r, NEW owners \in Seq(Owners), NEW kinds,
         NEW a \in FirstOf(r, owners, kinds), NEW b \in FirstOf(r, owners, kinds)
  PROVE  a = b
<1> DEFINE those == {j \in DOMAIN owners : /\ owners[j].kind \in kinds
                                           /\ \A l \in 1..j-1 : owners[l].kind \notin kinds}
<1>1. PICK j \in those : a = Ref(r.cluster, owners[j].kind, r.namespace, owners[j].name)
  BY DEF FirstOf
<1>2. PICK k \in those : b = Ref(r.cluster, owners[k].kind, r.namespace, owners[k].name)
  BY DEF FirstOf
<1>3. j \in Nat \ {0} /\ k \in Nat \ {0}
  OBVIOUS
<1>4. ~(j < k) /\ ~(k < j)
  BY <1>3
<1>5. j = k
  BY <1>3, <1>4
<1>. QED
  BY <1>1, <1>2, <1>5

\* The first owner is asked for.
LEMMA FirstAsked ==
  ASSUME NEW o \in Items, NEW kinds, NEW r \in References,
         r \in FirstOf(o.ref, o.data.owners, kinds)
  PROVE  \E g \in Range(FirstOwner(o, kinds)) :
           /\ g.op = "get" /\ g.cluster = r.cluster /\ g.kind = r.kind
           /\ g.namespace = r.namespace /\ g.name = r.name
<1>1. PICK g : g = Get(r.cluster, r.kind, r.namespace, r.name, "fail")
  OBVIOUS
<1>2. /\ g.op = "get" /\ g.cluster = r.cluster /\ g.kind = r.kind
      /\ g.namespace = r.namespace /\ g.name = r.name
  BY <1>1 DEF Get
<1>3. g \in Requests
  <2>1. /\ r.cluster \in Strings /\ r.kind \in Strings /\ r.namespace \in Strings
        /\ r.name \in Strings /\ "fail" \in Missing
    BY DEF References, Missing
  <2>. QED
    BY <1>1, <2>1, GetTyped
<1>4. r = Ref(r.cluster, r.kind, r.namespace, r.name)
  BY RefIs
<1>5. g = Get(g.cluster, g.kind, g.namespace, g.name, "fail")
  BY <1>1, <1>2
<1>6. Ref(g.cluster, g.kind, g.namespace, g.name) \in FirstOf(o.ref, o.data.owners, kinds)
  BY <1>2, <1>4
<1>7. g \in Range(FirstOwner(o, kinds))
  BY <1>3, <1>5, <1>6, FirstOwnerIs
<1>. QED
  BY <1>2, <1>7


LEMMA PodLasts ==
  ASSUME TypeOK, Asked, Fits, Single, Lasting, UNCHANGED <<store, touched>>, InspectPod
  PROVE  Lasting'
<1> DEFINE q == call.query
           more == CASE Read.kind = "pod" -> PodReads(The(Got))
                     [] Read.kind = "replicaset" -> FirstOwner(The(Got), Workloads)
                     [] OTHER -> <<>>
<1>1. call.pc = "reading" /\ q.tool = "inspectPod" /\ ~Absent
  BY DEF InspectPod, Reads, Found
<1>2. Kept(call'.found, more)
  <2>1. Kept(IF Read.kind = "replicaset" THEN call.found ELSE call.found \cup Got, more)
    BY DEF InspectPod, Found
  <2>. QED
    BY <2>1, KeptFound
<1>3. /\ call'.query = q
      /\ call'.found = IF Read.kind = "replicaset" THEN call.found ELSE call.found \cup Got
  BY KeptFound DEF InspectPod, Found
<1>4. /\ Read.op = "get"
      /\ Read.kind = "pod" => call.found = {}
      /\ Read.kind = "replicaset" =>
           \E p \in AnswerOf("pod") :
             Ref(Read.cluster, Read.kind, Read.namespace, Read.name) \in ReplicaSets(p)
  <2>1. CASE Read = Get(q.cluster, "pod", q.namespace, q.name, "fail") /\ call.found = {}
    <3>1. Read.op = "get" /\ Read.kind = "pod"
      BY <2>1 DEF Get
    <3>. QED
      BY <2>1, <3>1
  <2>. QED
    BY <1>1, <2>1, PodRead DEF Workloads
<1>5. /\ The(Got) \in Got /\ The(Got) \in Items /\ Fresh(The(Got))
      /\ \A j \in Got : j = The(Got) /\ j.ref.kind = Read.kind
  BY <1>1, <1>4, TheGot, GotFresh, OneGot
<1>6. /\ more \in Seq(Requests)
      /\ Range(call'.todo) = Range(more) \cup Range(Tail(call.todo))
  <2>1. more \in Seq(Requests)
    BY <1>5, PodReadsTyped, FirstOwnerIs, EmptySeq
  <2>. QED
    BY <1>1, <1>2, <2>1, KeptTodo
<1>7. ASSUME NEW i \in Stays, Belongs(i)', ~Optional(i)'
      PROVE  Lasts(i)
  <2>1. i \in Items /\ i.ref \in References /\ i.ref \in DOMAIN store /\ store[i.ref] = i.data
    BY StayIs
  <2>2. i.ref.kind \notin {"podmetrics", "nodemetrics", "pods/log", "k3kcluster"}
    BY <1>7, ToolsOptionalNext DEF OptionalAre
  <2>3. CASE /\ InCluster(i, {"pod", "pods/log", "podmetrics"}, q.cluster)
             /\ i.ref.namespace = q.namespace /\ i.ref.name = q.name
    <3>1. i.ref.kind = "pod" /\ i.ref.kind \notin Workloads
      BY <2>2, <2>3 DEF InCluster, Workloads
    <3>2. Belongs(i)
      BY <1>1, <2>3, ToolsBelong DEF BelongsAre
    <3>3. ~Optional(i) /\ ~Led(i)
      BY <1>1, <2>2, <3>1 DEF Optional, Led
    <3>4. \/ i \in call.found \/ i \in Got \/ \E o \in Range(call'.todo) : Gets(o, i)
      BY <1>1, <1>6, <3>2, <3>3, StillToBe
    <3>5. CASE i \in Got
      BY <1>3, <1>5, <3>1, <3>5 DEF Lasts
    <3>. QED
      BY <1>3, <3>4, <3>5 DEF Lasts
  <2>4. CASE /\ i.ref.kind \in Workloads
             /\ \E p \in AnswerOf("pod")' : \E s \in ReplicaSets(p) : HasOwner(s, i.ref)'
    <3>. PICK p \in AnswerOf("pod")' : \E s \in ReplicaSets(p) : HasOwner(s, i.ref)'
      BY <2>4
    <3>1. PICK s \in ReplicaSets(p) : HasOwner(s, i.ref)'
      OBVIOUS
    <3>2. p \in call'.found /\ p.ref.kind = "pod"
      BY <3>1 DEF AnswerOf
    <3>3. p \in Items
      BY <1>3, <1>5, <3>2 DEF TypeOK
    <3>4. \A t \in ReplicaSets(p) : t = s
      BY <3>1, <3>3, OneFirst, ObjectTyped DEF ReplicaSets
    <3>5. s \notin touched
      BY <1>1, <1>3, <1>7, <2>4, <3>1, <3>4, ToolsOptionalNext DEF OptionalAre
    <3>6. s \in DOMAIN store /\ i.ref \in FirstOf(s, store[s].owners, Workloads)
      BY <3>1, <3>5 DEF HasOwner
    <3>7. s \in References /\ s.kind = "replicaset"
      BY <3>1, <3>6 DEF TypeOK, ReplicaSets, FirstOf, Ref
    <3>8. CASE Read.kind = "pod"
      <4>1. p = The(Got)
        BY <1>3, <1>4, <1>5, <3>2, <3>8
      <4>2. more = PodReads(p)
        BY <3>8, <4>1
      <4>3. PICK g \in Range(FirstOwner(p, {"replicaset"})) : g.kind = s.kind
        BY <3>1, <3>3, <3>7, FirstAsked DEF ReplicaSets
      <4>4. g \in Range(PodReads(p))
        BY <3>3, <4>3, PodReadsAre
      <4>5. Pending("replicaset")'
        BY <1>6, <3>7, <4>2, <4>3, <4>4 DEF Pending
      <4>6. Led(i)'
        BY <1>1, <1>3, <2>4, <4>5 DEF Led
      <4>. QED
        BY <4>6 DEF Lasts
    <3>9. CASE Read.kind # "pod"
      <4>1. AnswerOf("pod")' = AnswerOf("pod")
        BY <1>3, <1>5, <3>9 DEF AnswerOf
      <4>2. HasOwner(s, i.ref)
        BY <3>6 DEF HasOwner
      <4>3. Belongs(i)
        BY <1>1, <2>4, <3>1, <4>1, <4>2, ToolsBelong DEF BelongsAre
      <4>4. CASE Read.kind = "replicaset"
        <5>1. PICK o \in AnswerOf("pod") :
                Ref(Read.cluster, Read.kind, Read.namespace, Read.name) \in ReplicaSets(o)
          BY <1>4, <4>4
        <5>2. o = p
          BY <1>1, <3>1, <4>1, <5>1 DEF Single, AnswerOf
        <5>3. s = Ref(Read.cluster, Read.kind, Read.namespace, Read.name)
          BY <3>4, <5>1, <5>2
        <5>4. The(Got).ref = s
          <6>1. /\ The(Got).ref \in References /\ The(Got).ref.cluster = Read.cluster
                /\ The(Got).ref.kind = Read.kind /\ The(Got).ref.namespace = Read.namespace
                /\ The(Got).ref.name = Read.name
            BY <1>1, <1>4, <1>5, GotFresh
          <6>. QED
            BY <5>3, <6>1, RefIs
        <5>5. The(Got).data = store[s]
          <6>1. [s EXCEPT !.kind = Served(@)] = s
            BY <3>7 DEF Served, References
          <6>. QED
            BY <1>5, <3>5, <5>4, <6>1 DEF Fresh
        <5>6. i.ref \in FirstOf(The(Got).ref, The(Got).data.owners, Workloads)
          BY <3>6, <5>4, <5>5
        <5>7. PICK g \in Range(FirstOwner(The(Got), Workloads)) :
                /\ g.op = "get" /\ g.cluster = i.ref.cluster /\ g.kind = i.ref.kind
                /\ g.namespace = i.ref.namespace /\ g.name = i.ref.name
          BY <1>5, <2>1, <5>6, FirstAsked
        <5>8. Gets(g, i) /\ g \in Range(call'.todo)
          BY <1>6, <4>4, <5>7 DEF Gets
        <5>. QED
          BY <5>8 DEF Lasts
      <4>5. CASE Read.kind # "replicaset"
        <5>1. Kept(call.found \cup Got, <<>>)
          BY <1>2, <1>3, <3>9, <4>5
        <5>2. ~Optional(i)
          BY <1>1, <1>3, <1>7, <4>1 DEF Optional
        <5>3. ASSUME Led(i) PROVE Led(i)'
          <6>1. PICK r \in Range(call.todo) : r.kind = "replicaset"
            BY <1>1, <5>3 DEF Led, Pending
          <6>2. r \in Range(Tail(call.todo))
            BY <1>1, <4>5, <6>1, TodoIs
          <6>. QED
            BY <1>1, <1>3, <1>6, <2>4, <6>1, <6>2 DEF Led, Pending
        <5>. QED
          BY <1>1, <4>3, <5>1, <5>2, <5>3, GoesOn
      <4>. QED
        BY <4>4, <4>5
    <3>. QED
      BY <3>8, <3>9
  <2>. QED
    BY <1>1, <1>3, <1>7, <2>3, <2>4, ToolsBelongNext DEF BelongsAre
<1>. QED
  BY <1>7, LastingOn


LEMMA DeploymentLasts ==
  ASSUME TypeOK, Asked, Fits, Lasting, UNCHANGED <<store, touched>>, GetDeploymentDetails
  PROVE  Lasting'
<1> DEFINE q == call.query
           pods(d) == List(Read.cluster, "pod", Read.namespace, d.data.label, "fail")
<1>1. call.pc = "reading" /\ q.tool = "getDeploymentDetails" /\ ~Absent
  BY DEF GetDeploymentDetails, Reads, Found
<1>2. call'.query = q /\ call'.found = call.found \cup Got
  BY KeptFound DEF GetDeploymentDetails, Found
<1>3. \A j \in Got : j.ref.kind = Read.kind
  BY <1>1, GotFresh
<1>4. ASSUME NEW i \in Stays, Belongs(i)', ~Optional(i)'
      PROVE  Lasts(i)
  <2>1. ~Optional(i)
    BY <1>1, <1>2, <1>4, OptionalKinds
  <2>2. PICK d \in AnswerOf("deployment")' : DeploymentPart(i, d, q)
    BY <1>1, <1>2, <1>4, ToolsBelongNext DEF BelongsAre
  <2>3. d \in call.found \cup Got /\ d.ref.kind = "deployment"
    BY <1>2, <2>2 DEF AnswerOf
  <2>4. CASE Read.kind # "deployment"
    <3>1. d \in AnswerOf("deployment")
      BY <1>3, <2>3, <2>4 DEF AnswerOf
    <3>2. Belongs(i)
      BY <1>1, <2>2, <3>1, ToolsBelong DEF BelongsAre
    <3>3. ~Led(i)
      BY <1>1 DEF Led
    <3>4. Kept(call.found \cup Got, <<>>)
      BY <2>4 DEF GetDeploymentDetails, Found
    <3>. QED
      BY <1>1, <2>1, <3>2, <3>3, <3>4, GoesOn
  <2>5. CASE Read.kind = "deployment"
    <3>1. /\ call.found = {} /\ Read.op = "get" /\ Read.cluster = q.cluster
          /\ Read.namespace = q.namespace
      <4>1. CASE \E o : Read = List(q.cluster, "pod", q.namespace, o, "fail")
        BY <2>5, <4>1 DEF List, Get
      <4>2. CASE /\ Read = Get(q.cluster, "deployment", q.namespace, q.name, "fail")
                 /\ call.found = {}
        BY <4>2 DEF Get
      <4>. QED
        BY <1>1, <4>1, <4>2, DeploymentRead
    <3>2. d \in Got /\ The(Got) \in Got
      BY <1>1, <2>3, <3>1, TheGot
    <3>3. d = The(Got) /\ d \in Items /\ Fresh(d)
      BY <1>1, <3>1, <3>2, OneGot, GotFresh
    <3>4. Kept(call.found \cup Got, <<pods(d)>>)
      BY <2>5, <3>3 DEF GetDeploymentDetails, Found
    <3>5. pods(d) \in Range(call'.todo)
      <4>1. pods(d) \in Requests
        BY <1>1, <3>3, ReadTyped, ObjectTyped, WordsAreStrings, ListTyped DEF Missing
      <4>2. PICK l : l = pods(d)
        OBVIOUS
      <4>3. <<l>> \in Seq(Requests)
        BY <4>1, <4>2
      <4>4. Range(<<l>>) = {l}
        BY FewAre
      <4>5. Kept(call.found \cup Got, <<l>>)
        BY <3>4, <4>2
      <4>6. Range(<<l>>) \subseteq Range(call'.todo)
        BY <1>1, <4>3, <4>5, KeptTodo
      <4>. QED
        BY <4>2, <4>4, <4>6
    <3>6. CASE i.ref = d.ref
      BY <1>2, <2>3, <3>2, <3>3, <3>6, StaysFresh DEF Lasts
    <3>7. CASE /\ InCluster(i, {"pod"}, q.cluster) /\ q.namespace \in {"", i.ref.namespace}
               /\ d.data.label \in {"", i.data.label}
      <4>1. PICK l : l = pods(d)
        OBVIOUS
      <4>2. /\ l.op = "list" /\ l.cluster = q.cluster /\ l.kind = "pod"
            /\ l.namespace = q.namespace /\ l.label = d.data.label
        BY <3>1, <4>1 DEF List, Get
      <4>3. Gets(l, i)
        BY <3>7, <4>2 DEF Gets, InCluster
      <4>. QED
        BY <3>5, <4>1, <4>3 DEF Lasts
    <3>. QED
      BY <2>2, <3>6, <3>7 DEF DeploymentPart
  <2>. QED
    BY <2>4, <2>5
<1>. QED
  BY <1>4, LastingOn

LEMMA EverywhereLasts ==
  ASSUME TypeOK, Asked, Fits, Lasting, UNCHANGED <<store, touched>>,
         GetClusterImages \/ GetK3kClusters
  PROVE  Lasting'
<1> DEFINE q == call.query
<1>1. call.pc = "reading" /\ q.tool \in {"getClusterImages", "getK3kClusters"} /\ ~Absent
  BY DEF GetClusterImages, GetK3kClusters, Reads, Found
<1>2. /\ call'.query = q
      /\ call'.found = IF Read.kind = "managementcluster" THEN {} ELSE call.found \cup Got
  BY KeptFound DEF GetClusterImages, GetK3kClusters, Found
<1>3. ASSUME NEW i \in Stays, Belongs(i)', ~Optional(i)'
      PROVE  Lasts(i)
  <2>1. i.ref.kind # "k3kcluster"
    BY <1>3, ToolsOptionalNext DEF OptionalAre
  <2>2. q.tool = "getClusterImages" /\ GetClusterImages
    BY <1>1, <1>2, <1>3, <2>1, ToolsBelongNext
    DEF BelongsAre, GetClusterImages, GetK3kClusters, Reads
  <2>3. i.ref.kind = "pod" /\ q.cluster \in {"", i.ref.cluster}
    BY <1>2, <1>3, <2>2, ToolsBelongNext DEF BelongsAre
  <2>4. CASE Read.kind = "managementcluster"
    <3>1. q.cluster = "" /\ Read = List("local", "managementcluster", "", "", "fail")
      <4>1. \/ /\ q.cluster = "" /\ Read = List("local", "managementcluster", "", "", "fail")
            \/ Read.kind = "pod"
        BY <1>1, <2>2, EverywhereRead
      <4>. QED
        BY <2>4, <4>1
    <3>2. PICK m : m = Ref("local", "managementcluster", "", i.ref.cluster)
      OBVIOUS
    <3>3. m \in DOMAIN store \ touched
      <4>1. Steady(i.ref.cluster)'
        BY <1>2, <1>3, <2>2, <3>1, ToolsOptionalNext DEF OptionalAre
      <4>. QED
        BY <3>2, <4>1 DEF Steady
    <3>4. PICK o : o = [ref |-> m, data |-> store[m]]
      OBVIOUS
    <3>5. o \in Got
      <4>1. /\ Read.op = "list" /\ Read.cluster = "local" /\ Read.kind = "managementcluster"
            /\ Read.namespace = "" /\ Read.label = ""
        BY <3>1 DEF List, Get
      <4>2. Gets(Read, o) /\ m.kind # "pods/log"
        BY <3>2, <3>4, <4>1 DEF Gets, Ref
      <4>. QED
        BY <1>1, <3>3, <3>4, <4>2, GotIs
    <3>6. Kept({}, OfEach(Got, "pod", "fail"))
      BY <2>2, <2>4 DEF GetClusterImages, Found
    <3>7. /\ OfEach(Got, "pod", "fail") \in Seq(Requests)
          /\ List(o.ref.name, "pod", "", "", "fail") \in Range(OfEach(Got, "pod", "fail"))
      <4>1. Got \in SUBSET Items /\ IsFiniteSet(Got)
        BY <1>1, GotIs
      <4>2. "pod" \in Strings /\ "fail" \in Missing
        BY WordsAreStrings DEF Missing
      <4>3. /\ OfEach(Got, "pod", "fail") \in Seq(Requests)
            /\ Range(OfEach(Got, "pod", "fail")) =
                 {List(j.ref.name, "pod", "", "", "fail") : j \in Got}
        BY <4>1, <4>2, OfEachAre
      <4>. QED
        BY <3>5, <4>3
    <3>8. PICK l : l = List(i.ref.cluster, "pod", "", "", "fail")
      OBVIOUS
    <3>9. l \in Range(call'.todo)
      <4>1. o.ref.name = i.ref.cluster
        BY <3>2, <3>4 DEF Ref
      <4>. QED
        BY <1>1, <3>6, <3>7, <3>8, <4>1, KeptTodo
    <3>10. Gets(l, i)
      <4>1. /\ l.op = "list" /\ l.cluster = i.ref.cluster /\ l.kind = "pod"
            /\ l.namespace = "" /\ l.label = ""
        BY <3>8 DEF List, Get
      <4>. QED
        BY <2>3, <4>1 DEF Gets
    <3>. QED
      BY <3>9, <3>10 DEF Lasts
  <2>5. CASE Read.kind # "managementcluster"
    <3>1. Kept(call.found \cup Got, <<>>)
      BY <2>2, <2>5 DEF GetClusterImages, Found
    <3>2. Belongs(i)
      BY <2>2, <2>3, ToolsBelong DEF BelongsAre
    <3>3. ~Optional(i)
      BY <1>2, <1>3, <2>2 DEF Optional, Steady
    <3>4. ASSUME Led(i) PROVE Led(i)'
      <4>1. PICK r \in Range(call.todo) : r.kind = "managementcluster"
        BY <2>2, <3>4 DEF Led, Pending
      <4>2. r \in Range(Tail(call.todo))
        BY <1>1, <2>5, <4>1, TodoIs
      <4>3. r \in Range(call'.todo)
        BY <1>1, <3>1, <4>2, KeptTodo, EmptySeq
      <4>. QED
        BY <1>2, <2>2, <4>1, <4>3 DEF Led, Pending
    <3>. QED
      BY <1>1, <3>1, <3>2, <3>3, <3>4, GoesOn
  <2>. QED
    BY <2>4, <2>5
<1>. QED
  BY <1>3, LastingOn


LEMMA PartsLast ==
  ASSUME TypeOK, Asked, Fits, Lasting, UNCHANGED <<store, touched>>, GetProject
  PROVE  Lasting'
<1> DEFINE q == call.query
<1>1. call.pc = "reading" /\ q.tool = "getProject"
  BY DEF GetProject, Reads
<1>2. call'.query = q
  BY KeptFound DEF GetProject, Found
<1>3. \A j \in Got : j.ref.kind = Read.kind
  BY <1>1, GotFresh
<1>4. ASSUME NEW i \in Stays, Belongs(i)', ~Optional(i)'
      PROVE  Lasts(i)
  <2>1. ~Optional(i)
    BY <1>1, <1>2, <1>4, OptionalKinds
  <2>2. PICK p \in AnswerOf("project")' : ProjectPart(i, p, q.cluster)
    BY <1>1, <1>2, <1>4, ToolsBelongNext DEF BelongsAre
  <2>3. p \in call'.found /\ p.ref.kind = "project"
    BY <2>2 DEF AnswerOf
  <2>4. CASE Read.kind # "project"
    <3>1. Kept(call.found \cup Got, <<>>)
      BY <2>4 DEF GetProject, Found
    <3>2. p \in AnswerOf("project")
      BY <1>3, <2>3, <2>4, <3>1, KeptFound DEF AnswerOf
    <3>3. Belongs(i)
      BY <1>1, <2>2, <3>2, ToolsBelong DEF BelongsAre
    <3>4. ~Led(i)
      BY <1>1 DEF Led
    <3>. QED
      BY <1>1, <2>1, <3>1, <3>3, <3>4, GoesOn
  <2>5. CASE Read.kind = "project"
    <3>1. PICK o \in Got :
            Found({o}, <<List(q.cluster, "namespace", "", o.ref.name, "fail"),
                         List("local", "projectroletemplatebinding", o.ref.name, "", "fail")>>)
      BY <2>5 DEF GetProject
    <3>2. call'.found = {o}
      BY <3>1, KeptFound DEF Found
    <3>3. o = p /\ p \in Items /\ Fresh(p)
      BY <1>1, <2>3, <3>1, <3>2, GotFresh
    <3>4. PICK l : l = List(q.cluster, "namespace", "", p.ref.name, "fail")
      OBVIOUS
    <3>5. PICK b : b = List("local", "projectroletemplatebinding", p.ref.name, "", "fail")
      OBVIOUS
    <3>6. {l, b} \subseteq Range(call'.todo)
      <4>1. q.cluster \in Strings /\ p.ref.name \in Strings
        BY <1>1, <3>3, ObjectTyped DEF TypeOK, Queries
      <4>2. "fail" \in Missing
        BY DEF Missing
      <4>3. l \in Requests /\ b \in Requests
        BY <3>4, <3>5, <4>1, <4>2, WordsAreStrings, ListTyped
      <4>4. <<l, b>> \in Seq(Requests)
        BY <4>3
      <4>5. Range(<<l, b>>) = {l, b}
        BY FewAre
      <4>6. Kept({o}, <<l, b>>)
        BY <3>1, <3>3, <3>4, <3>5 DEF Found
      <4>7. Range(<<l, b>>) \subseteq Range(call'.todo)
        BY <1>1, <4>4, <4>6, KeptTodo
      <4>. QED
        BY <4>5, <4>7
    <3>7. CASE i.ref = p.ref
      BY <2>3, <3>3, <3>7, StaysFresh DEF Lasts
    <3>8. CASE InCluster(i, {"namespace"}, q.cluster) /\ i.data.label = p.ref.name
      <4>1. /\ l.op = "list" /\ l.cluster = q.cluster /\ l.kind = "namespace"
            /\ l.namespace = "" /\ l.label = p.ref.name
        BY <3>4 DEF List, Get
      <4>2. Gets(l, i)
        BY <3>8, <4>1 DEF Gets, InCluster
      <4>. QED
        BY <3>6, <4>2 DEF Lasts
    <3>9. CASE InCluster(i, {"projectroletemplatebinding"}, "local") /\ i.ref.namespace = p.ref.name
      <4>1. /\ b.op = "list" /\ b.cluster = "local" /\ b.kind = "projectroletemplatebinding"
            /\ b.namespace = p.ref.name /\ b.label = ""
        BY <3>5 DEF List, Get
      <4>2. Gets(b, i)
        BY <3>9, <4>1 DEF Gets, InCluster
      <4>. QED
        BY <3>6, <4>2 DEF Lasts
    <3>. QED
      BY <2>2, <3>7, <3>8, <3>9 DEF ProjectPart
  <2>. QED
    BY <2>4, <2>5
<1>. QED
  BY <1>4, LastingOn

\* What one request asks for is in its answer.
LEMMA OnceLast ==
  ASSUME TypeOK, Asked, UNCHANGED <<store, touched>>,
         ListProjects \/ GetUser \/ ListClusterRoleTemplateBindings \/ ReadOnce
  PROVE  Lasting'
<1> DEFINE q == call.query
<1>1. call.pc = "reading"
  BY DEF ListProjects, GetUser, ListClusterRoleTemplateBindings, ReadOnce, Reads
<1>2. ASSUME NEW i \in Stays, Belongs(i)', ~Optional(i)'
      PROVE  Lasts(i)
  <2>1. CASE ListProjects
    <3>1. call'.query = q /\ call'.found = Got /\ q.tool = "listProjects"
      BY <2>1, KeptFound DEF ListProjects, Found, Reads
    <3>2. Read = List("local", "project", q.cluster, "", "fail")
      BY <1>1, <3>1, ReadOf
    <3>3. /\ Read.op = "list" /\ Read.cluster = "local" /\ Read.kind = "project"
          /\ Read.namespace = q.cluster /\ Read.label = ""
      BY <3>2 DEF List, Get
    <3>4. InCluster(i, {"project"}, "local") /\ q.cluster \in {"", i.ref.namespace}
      BY <1>2, <3>1, ToolsBelongNext DEF BelongsAre
    <3>5. Gets(Read, i)
      BY <3>3, <3>4 DEF Gets, InCluster
    <3>. QED
      BY <1>1, <1>2, <3>1, <3>5, StayGotThen DEF Lasts
  <2>2. CASE GetUser
    <3>1. q.tool = "getUser"
      BY <2>2 DEF GetUser, Reads
    <3>2. Read = List("local", "user", "", "", "fail")
      BY <1>1, <3>1, ReadOf
    <3>3. /\ Read.op = "list" /\ Read.cluster = "local" /\ Read.kind = "user"
          /\ Read.namespace = "" /\ Read.label = ""
      BY <3>2 DEF List, Get
    <3>4. CASE \E j \in Got : Found({j}, <<>>)
      <4>1. call'.query = q /\ call'.found # {}
        <5>1. PICK j \in Got : Kept({j}, <<>>)
          BY <3>4 DEF Found
        <5>2. call'.query = q /\ call'.found = {j}
          BY <5>1, KeptFound
        <5>. QED
          BY <5>2
      <4>. QED
        BY <1>2, <3>1, <4>1, ToolsOptionalNext DEF OptionalAre
    <3>5. CASE {j \in Got : q.name \in {j.data.spec.user, j.ref.name}} = {} /\ Found({}, <<>>)
      <4>1. call'.query = q
        BY <3>5, KeptFound DEF Found
      <4>2. InCluster(i, {"user"}, "local") /\ q.name \in {i.ref.name, i.data.spec.user}
        BY <1>2, <3>1, <4>1, ToolsBelongNext DEF BelongsAre
      <4>3. Gets(Read, i)
        BY <3>3, <4>2 DEF Gets, InCluster
      <4>4. i \in Got
        BY <1>1, <1>2, <4>3, StayGotThen
      <4>. QED
        BY <3>5, <4>2, <4>4
    <3>. QED
      BY <2>2, <3>4, <3>5 DEF GetUser
  <2>3. CASE ListClusterRoleTemplateBindings
    <3>1. /\ call'.query = q /\ call'.found = OfUser(Got)
          /\ q.tool = "listClusterRoleTemplateBindings"
      BY <2>3, KeptFound DEF ListClusterRoleTemplateBindings, Found, Reads
    <3>2. Read = List("local", "clusterroletemplatebinding", q.cluster, "", "fail")
      BY <1>1, <3>1, ReadOf
    <3>3. /\ Read.op = "list" /\ Read.cluster = "local"
          /\ Read.kind = "clusterroletemplatebinding" /\ Read.namespace = q.cluster
          /\ Read.label = ""
      BY <3>2 DEF List, Get
    <3>4. /\ InCluster(i, {"clusterroletemplatebinding"}, "local")
          /\ q.cluster \in {"", i.ref.namespace} /\ q.user \in {"", i.data.spec.user}
      BY <1>2, <3>1, ToolsBelongNext DEF BelongsAre
    <3>5. Gets(Read, i)
      BY <3>3, <3>4 DEF Gets, InCluster
    <3>6. i \in Got
      BY <1>1, <1>2, <3>5, StayGotThen
    <3>. QED
      BY <3>1, <3>4, <3>6 DEF Lasts, OfUser
  <2>4. CASE ReadOnce
    <3>1. call'.query = q /\ call'.found = Got /\ q.tool \in OneReadTools
      BY <2>4, KeptFound DEF ReadOnce, Found
    <3>2. Read = OneRead(q)
      BY <1>1, <3>1, ReadOf
    <3>3. Gets(OneRead(call'.query), i)
      BY <1>2, <3>1, ToolsBelongNext DEF BelongsAre
    <3>4. Gets(Read, i)
      BY <3>1, <3>2, <3>3
    <3>. QED
      BY <1>1, <1>2, <3>1, <3>4, StayGotThen DEF Lasts
  <2>. QED
    BY <2>1, <2>2, <2>3, <2>4
<1>. QED
  BY <1>2, LastingOn


LEMMA BindingsLast ==
  ASSUME TypeOK, Asked, Fits, UNCHANGED <<store, touched>>, ListProjectRoleTemplateBindings
  PROVE  Lasting'
<1> DEFINE q == call.query
<1>1. call.pc = "reading" /\ q.tool = "listProjectRoleTemplateBindings"
  BY DEF ListProjectRoleTemplateBindings, Reads
<1>2. /\ call'.query = q
      /\ Read.kind # "project" =>
           call'.found = {i \in OfUser(Got) : i.data.spec.cluster = q.cluster}
  BY KeptFound DEF ListProjectRoleTemplateBindings, Found
<1>3. NamedProjects' = NamedProjects
  BY <1>2 DEF NamedProjects
<1>4. ASSUME NEW i \in Stays, Belongs(i)', ~Optional(i)'
      PROVE  Lasts(i)
  <2>1. /\ InCluster(i, {"projectroletemplatebinding"}, "local")
        /\ i.data.spec.cluster = q.cluster /\ q.user \in {"", i.data.spec.user}
        /\ q.name # "" =>
             \E p \in NamedProjects' : p \in touched' \/ BackedBy(p, i.ref.namespace)'
    BY <1>1, <1>2, <1>4, ToolsBelongNext DEF BelongsAre
  <2>2. q.name # "" => NamedProjects \cap touched = {} /\ \A p, o \in NamedProjects : p = o
    BY <1>1, <1>2, <1>3, <1>4, ToolsOptionalNext DEF OptionalAre
  <2>3. ASSUME q.name # "", NEW p \in NamedProjects
        PROVE  p \notin touched /\ BackedBy(p, i.ref.namespace)
    BY <1>3, <2>1, <2>2, <2>3 DEF BackedBy
  <2>4. CASE Read.kind = "project"
    <3>1. q.name # ""
      <4>1. CASE \E namespace :
                   Read = List("local", "projectroletemplatebinding", namespace, "", "fail")
        BY <2>4, <4>1 DEF List, Get
      <4>. QED
        BY <1>1, <4>1, BindingRead
    <3>2. PICK o \in Got : ProjectFits(o) /\ Kept({}, BindingReads(Backing(o)))
      BY <2>4 DEF ListProjectRoleTemplateBindings, Found
    <3>3. /\ o \in Items /\ o.ref \in NamedProjects /\ store[o.ref] = o.data
      BY <1>1, <2>4, <3>2, ProjectFound
    <3>4. Backing(o) = i.ref.namespace
      BY <2>3, <3>1, <3>3 DEF BackedBy, Backing
    <3>5. PICK l : l = List("local", "projectroletemplatebinding", i.ref.namespace, "", "fail")
      OBVIOUS
    <3>6. l \in Range(call'.todo)
      <4>1. BindingReads(i.ref.namespace) \in Seq(Requests)
        <5>1. i.ref.namespace \in Strings
          BY StayIs, ObjectTyped
        <5>. QED
          BY <5>1, BindingReadsTyped
      <4>2. l \in Range(BindingReads(i.ref.namespace))
        BY <3>5, BindingReadsAre
      <4>. QED
        BY <1>1, <3>2, <3>4, <4>1, <4>2, KeptTodo
    <3>7. /\ l.op = "list" /\ l.cluster = "local" /\ l.kind = "projectroletemplatebinding"
          /\ l.namespace = i.ref.namespace /\ l.label = ""
      BY <3>5 DEF List, Get
    <3>8. Gets(l, i)
      BY <2>1, <3>7 DEF Gets, InCluster
    <3>. QED
      BY <3>6, <3>8 DEF Lasts
  <2>5. CASE Read.kind # "project"
    <3>1. PICK namespace :
            /\ Read = List("local", "projectroletemplatebinding", namespace, "", "fail")
            /\ namespace \in {"", i.ref.namespace}
      <4>1. CASE /\ Read = List("local", "projectroletemplatebinding", Read.namespace, "", "fail")
                 /\ q.name # ""
                 /\ \E p \in NamedProjects : p \in touched \/ BackedBy(p, Read.namespace)
        <5>1. PICK p \in NamedProjects : BackedBy(p, Read.namespace)
          BY <2>2, <4>1
        <5>2. Read.namespace = i.ref.namespace
          BY <2>3, <4>1, <5>1 DEF BackedBy
        <5>. QED
          BY <4>1, <5>2
      <4>. QED
        BY <1>1, <2>5, <4>1, BindingRead
    <3>2. /\ Read.op = "list" /\ Read.cluster = "local"
          /\ Read.kind = "projectroletemplatebinding" /\ Read.namespace = namespace
          /\ Read.label = ""
      BY <3>1 DEF List, Get
    <3>3. Gets(Read, i)
      BY <2>1, <3>1, <3>2 DEF Gets, InCluster
    <3>4. i \in Got
      BY <1>1, <1>4, <3>3, StayGotThen
    <3>. QED
      BY <1>2, <2>1, <2>5, <3>4 DEF Lasts, OfUser
  <2>. QED
    BY <2>4, <2>5
<1>. QED
  BY <1>4, LastingOn

\* The usage and the pages find no objects, and a failed call answers with none.
LEMMA NothingLasts ==
  ASSUME call'.query.tool \in {"getResourceUsage", "listKubernetesResources"}
         \/ call'.pc \notin {"reading", "done"}
  PROVE  Lasting'
<1>1. CASE call'.query.tool \in {"getResourceUsage", "listKubernetesResources"}
  <2>1. \A i : ~Belongs(i)'
    BY <1>1, ToolsBelongNext DEF BelongsAre
  <2>. QED
    BY <2>1, LastingIsNext
<1>. QED
  BY <1>1, LastingIsNext


\* What an object is found from is no part that may be missing.
LEMMA LeadsStay ==
  ASSUME TypeOK, Asked, call.pc = "reading", Read.missing \in {"skip", "any"},
         NEW i, Led(i), call'.query = call.query,
         Range(Tail(call.todo)) \subseteq Range(call'.todo)
  PROVE  Led(i)'
<1> DEFINE tool == call.query.tool
<1>1. PICK kind :
        /\ \/ tool = "getClusterMachine" /\ i.ref.kind = "machinedeployment" /\ kind = "machineset"
           \/ tool = "inspectPod" /\ i.ref.kind \in Workloads /\ kind = "replicaset"
           \/ tool = "getClusterImages" /\ kind = "managementcluster"
           \/ tool = "listProjectRoleTemplateBindings" /\ kind = "project"
        /\ \E r \in Range(call.todo) : r.kind = kind
  BY DEF Led, Pending
<1>2. Read.kind # kind
  <2>1. CASE tool = "getClusterMachine"
    BY <2>1, MachineRead
  <2>2. CASE tool = "inspectPod" /\ kind = "replicaset"
    <3>1. CASE Read = Get(call.query.cluster, "pod", call.query.namespace, call.query.name, "fail")
      BY <3>1 DEF Get
    <3>. QED
      BY <2>2, <3>1, PodRead
  <2>3. CASE tool = "getClusterImages" /\ kind = "managementcluster"
    <3>1. \/ Read = List("local", "managementcluster", "", "", "fail")
          \/ Read.kind = "pod"
      BY <2>3, EverywhereRead
    <3>2. CASE Read = List("local", "managementcluster", "", "", "fail")
      BY <3>2 DEF List, Get
    <3>. QED
      BY <2>3, <3>1, <3>2
  <2>4. CASE tool = "listProjectRoleTemplateBindings" /\ kind = "project"
    <3>1. ASSUME Read.kind = "project" PROVE Read.missing \in {"search", "fail"}
      BY <2>4, <3>1, ProjectRead
    <3>. QED
      BY <2>4, <3>1
  <2>. QED
    BY <1>1, <2>1, <2>2, <2>3, <2>4
<1>3. PICK r \in Range(call'.todo) : r.kind = kind
  BY <1>1, <1>2, TodoIs
<1>. QED
  BY <1>1, <1>3 DEF Led, Pending

LEMMA AbsentLasts ==
  ASSUME TypeOK, Asked, Fits, Single, Lasting, UNCHANGED <<store, touched>>, NotFound \/ Refused
  PROVE  Lasting'
<1>1. call.pc = "reading"
  BY DEF NotFound, Refused
<1>2. CASE call' = Failed
  BY <1>2, FailedTyped, NothingLasts
<1>3. CASE /\ Read.missing \in {"skip", "any"} /\ Kept(call.found, <<>>)
           /\ \/ Got = {}
              \/ Read.missing = "any" /\ call.query.tool # "getResourceUsage"
  <2>1. /\ call'.found = call.found /\ call'.query = call.query
        /\ Range(Tail(call.todo)) \subseteq Range(call'.todo)
    BY <1>1, <1>3, KeptFound, KeptTodo, EmptySeq
  <2>2. ASSUME NEW i \in Stays, Belongs(i)', ~Optional(i)'
        PROVE  Lasts(i)
    <3>1. Belongs(i) /\ ~Optional(i)
      BY <2>1, <2>2, BelongsSame, OptionalSame
    <3>2. i \notin Got
      <4>1. CASE Read.kind \in {"podmetrics", "nodemetrics", "pods/log", "k3kcluster"}
        <5>1. i.ref.kind # Read.kind
          BY <3>1, <4>1, ToolsOptional DEF OptionalAre
        <5>. QED
          BY <1>1, <5>1, GotFresh
      <4>. QED
        BY <1>1, <1>3, <4>1, MissingMeans
    <3>3. \/ i \in call.found \/ Led(i) \/ \E o \in Range(call'.todo) : Gets(o, i)
      BY <1>1, <2>1, <3>1, <3>2, StillToBe
    <3>4. Led(i) => Led(i)'
      BY <1>1, <1>3, <2>1, LeadsStay
    <3>. QED
      BY <2>1, <3>3, <3>4 DEF Lasts
  <2>. QED
    BY <2>2, LastingOn
<1>4. CASE /\ Absent /\ Read.missing = "end"
           /\ call' = [call EXCEPT !.found = Without(Read.kind), !.todo = <<>>, !.pc = "done"]
  <2>1. call.query.tool = "getClusterMachine"
    BY <1>1, <1>4, MissingMeans
  <2>2. call'.found = Without(Read.kind) /\ call'.query = call.query
    <3>1. CallTyped(call)
      BY CallHasType
    <3>. QED
      BY <1>4, <3>1 DEF CallTyped
  <2>3. Got = {}
    BY <1>4 DEF Absent
  <2>. QED
    BY <1>1, <2>1, <2>2, <2>3, MachineLasts
<1>5. CASE Read.missing = "search" /\ Kept(call.found, AllProjects(call.query))
  <2>1. /\ call.query.tool \in
             {"getProject", "listProjectRoleTemplateBindings", "getResourceUsage"}
        /\ Read.kind = "project"
    BY <1>1, <1>5, MissingMeans
  <2>2. call'.found = {} /\ call'.query = call.query
    BY <1>1, <1>5, <2>1, ProjectRead, KeptFound
  <2>3. CASE call.query.tool = "getResourceUsage"
    BY <2>2, <2>3, NothingLasts
  <2>4. CASE call.query.tool = "getProject"
    <3>1. AnswerOf("project")' = {}
      BY <2>2 DEF AnswerOf
    <3>2. \A i : ~Belongs(i)'
      BY <2>2, <2>4, <3>1, ToolsBelongNext DEF BelongsAre
    <3>. QED
      BY <3>2, LastingIsNext
  <2>5. CASE call.query.tool = "listProjectRoleTemplateBindings"
    <3>1. PICK l : l = List("local", "project", call.query.cluster, "", "fail")
      OBVIOUS
    <3>2. l.kind = "project"
      BY <3>1 DEF List, Get
    <3>3. l \in Range(call'.todo)
      <4>1. l \in Requests
        BY <3>1, WordsAreStrings, ListTyped DEF TypeOK, Queries, Missing
      <4>2. <<l>> \in Seq(Requests)
        BY <4>1
      <4>3. Range(<<l>>) = {l}
        BY FewAre
      <4>4. Kept(call.found, <<l>>)
        BY <1>5, <3>1 DEF AllProjects
      <4>5. Range(<<l>>) \subseteq Range(call'.todo)
        BY <1>1, <4>2, <4>4, KeptTodo
      <4>. QED
        BY <4>3, <4>5
    <3>4. \A i : Led(i)'
      BY <2>2, <2>5, <3>2, <3>3 DEF Led, Pending
    <3>. QED
      BY <3>4, LastingOn DEF Lasts
  <2>. QED
    BY <2>1, <2>3, <2>4, <2>5
<1>. QED
  BY <1>2, <1>3, <1>4, <1>5 DEF NotFound, Refused, Absent

LEMMA StepLasts ==
  ASSUME TypeOK, Ordered, Asked, PanicsOnlyOnOverflow, Fits, Single, Lasting, Step
  PROVE  Lasting'
<1>1. UNCHANGED <<store, touched>>
  BY DEF Step
<1>2. call'.query = call.query
  BY ToolsStepTyped
<1>3. CASE AnalyzeCluster
  BY <1>1, <1>3, ClustersLast
<1>4. CASE AnalyzeClusterMachines \/ GetNodes
  BY <1>1, <1>4, ListsLast
<1>5. CASE GetClusterMachine
  BY <1>1, <1>5, MachineFound, MachineLasts
<1>6. CASE InspectPod
  BY <1>1, <1>6, PodLasts
<1>7. CASE GetDeploymentDetails
  BY <1>1, <1>7, DeploymentLasts
<1>8. CASE GetClusterImages \/ GetK3kClusters
  BY <1>1, <1>8, EverywhereLasts
<1>9. CASE GetProject
  BY <1>1, <1>9, PartsLast
<1>10. CASE ListProjects \/ GetUser \/ ListClusterRoleTemplateBindings \/ ReadOnce
  BY <1>1, <1>10, OnceLast
<1>11. CASE ListProjectRoleTemplateBindings
  BY <1>1, <1>11, BindingsLast
<1>12. CASE \/ UsageProjects \/ UsageNamespace \/ UsageNamespaces \/ UsagePods \/ UsageMetrics
            \/ ListKubernetesResources \/ NextPage
  <2>1. call.query.tool \in {"getResourceUsage", "listKubernetesResources"}
    BY <1>12 DEF UsageProjects, UsageNamespace, UsageNamespaces, UsagePods, UsageMetrics,
                 ListKubernetesResources, NextPage, Reads, Ordered
  <2>. QED
    BY <1>2, <2>1, NothingLasts
<1>13. CASE NoProject
  BY <1>13, FailedTyped, NothingLasts DEF NoProject
<1>14. CASE NotFound \/ Refused
  BY <1>1, <1>14, AbsentLasts
<1>. QED
  BY <1>3, <1>4, <1>5, <1>6, <1>7, <1>8, <1>9, <1>10, <1>11, <1>12, <1>13, <1>14 DEF Step


\* At the start everything is asked for that the rest is found from.
LEMMA BeginLasts ==
  ASSUME TypeOK, Begin
  PROVE  Lasting'
<1> DEFINE q == call.query
<1>1. /\ call'.query = q /\ call'.found = {} /\ call'.todo = FirstReads(q)
  BY BeginTyped
<1>2. \A kind : AnswerOf(kind)' = {}
  BY <1>1 DEF AnswerOf
<1>3. ASSUME NEW r, FirstReads(q) = <<r>>
      PROVE  r \in Range(call'.todo)
  <2>1. Range(<<r>>) = {r}
    BY FewAre
  <2>. QED
    BY <1>1, <1>3, <2>1
<1>4. ASSUME NEW i \in Stays', Belongs(i)', ~Optional(i)'
      PROVE  Led(i)' \/ \E r \in Range(call'.todo) : Gets(r, i)
  <2>1. i.ref.kind \notin {"podmetrics", "nodemetrics", "pods/log", "k3kcluster"}
    BY <1>4, ToolsOptionalNext DEF OptionalAre
  <2>2. CASE q.tool \in {"analyzeCluster", "getDeploymentDetails", "getProject", "getK3kClusters",
                         "getResourceUsage", "listKubernetesResources"}
    BY <1>1, <1>2, <1>4, <2>1, <2>2, ToolsBelongNext DEF BelongsAre
  <2>3. CASE q.tool = "analyzeClusterMachines"
    <3>1. MachineOf(i, q.cluster, MachineNamespace(q))
      BY <1>1, <1>4, <2>3, ToolsBelongNext DEF BelongsAre
    <3>2. PICK k \in DOMAIN CAPIKinds : i.ref.kind = CAPIKinds[k]
      BY <3>1 DEF MachineOf, InCluster, Range
    <3>3. PICK l : l = List("local", CAPIKinds[k], MachineNamespace(q), q.cluster, "skip")
      OBVIOUS
    <3>4. l \in Range(call'.todo)
      <4>1. call'.todo = Machines(q.cluster, MachineNamespace(q))
        BY <1>1, <2>3, FirstReadsAre
      <4>. QED
        BY <3>3, <4>1 DEF Machines, Range
    <3>5. /\ l.op = "list" /\ l.cluster = "local" /\ l.kind = CAPIKinds[k]
          /\ l.namespace = MachineNamespace(q) /\ l.label = q.cluster
      BY <3>3 DEF List, Get
    <3>6. Gets(l, i)
      BY <3>1, <3>2, <3>5 DEF Gets, MachineOf, InCluster
    <3>. QED
      BY <3>4, <3>6
  <2>4. CASE q.tool = "getClusterMachine"
    <3>1. i.ref = Ref("local", "machine", "fleet-default", q.name)
      BY <1>1, <1>2, <1>4, <2>4, ToolsBelongNext DEF BelongsAre
    <3>2. PICK g : g = Get("local", "machine", "fleet-default", q.name, "end")
      OBVIOUS
    <3>3. g \in Range(call'.todo)
      BY <1>3, <2>4, <3>2, FirstReadsAre
    <3>4. /\ g.op = "get" /\ g.cluster = "local" /\ g.kind = "machine"
          /\ g.namespace = "fleet-default" /\ g.name = q.name
      BY <3>2 DEF Get
    <3>5. Gets(g, i)
      BY <3>1, <3>4 DEF Gets, Ref
    <3>. QED
      BY <3>3, <3>5
  <2>5. CASE q.tool = "inspectPod"
    <3>1. /\ i.ref.kind = "pod" /\ i.ref.cluster = q.cluster
          /\ i.ref.namespace = q.namespace /\ i.ref.name = q.name
      BY <1>1, <1>2, <1>4, <2>1, <2>5, ToolsBelongNext DEF BelongsAre, InCluster
    <3>2. PICK g : g = Get(q.cluster, "pod", q.namespace, q.name, "fail")
      OBVIOUS
    <3>3. g \in Range(call'.todo)
      BY <1>3, <2>5, <3>2, FirstReadsAre
    <3>4. /\ g.op = "get" /\ g.cluster = q.cluster /\ g.kind = "pod"
          /\ g.namespace = q.namespace /\ g.name = q.name
      BY <3>2 DEF Get
    <3>5. Gets(g, i)
      BY <3>1, <3>4 DEF Gets
    <3>. QED
      BY <3>3, <3>5
  <2>6. CASE q.tool = "getNodes"
    <3>1. i.ref.kind = "node" /\ i.ref.cluster = q.cluster
      BY <1>1, <1>4, <2>1, <2>6, ToolsBelongNext DEF BelongsAre, InCluster
    <3>2. PICK l : l = List(q.cluster, "node", "", "", "fail")
      OBVIOUS
    <3>3. PICK m : m = List(q.cluster, "nodemetrics", "", "", "any")
      OBVIOUS
    <3>4. l \in Range(call'.todo)
      <4>1. call'.todo = <<l, m>>
        BY <1>1, <2>6, <3>2, <3>3, FirstReadsAre
      <4>2. Range(<<l, m>>) = {l, m}
        BY FewAre
      <4>. QED
        BY <4>1, <4>2
    <3>5. /\ l.op = "list" /\ l.cluster = q.cluster /\ l.kind = "node"
          /\ l.namespace = "" /\ l.label = ""
      BY <3>2 DEF List, Get
    <3>6. Gets(l, i)
      BY <3>1, <3>5 DEF Gets
    <3>. QED
      BY <3>4, <3>6
  <2>7. CASE q.tool = "getClusterImages"
    <3>1. i.ref.kind = "pod" /\ q.cluster \in {"", i.ref.cluster}
      BY <1>1, <1>4, <2>7, ToolsBelongNext DEF BelongsAre
    <3>2. CASE q.cluster = ""
      <4>1. PICK l : l = List("local", "managementcluster", "", "", "fail")
        OBVIOUS
      <4>2. FirstReads(q) = <<l>>
        BY <2>7, <3>2, <4>1, FirstReadsAre
      <4>3. l \in Range(call'.todo) /\ l.kind = "managementcluster"
        BY <1>3, <4>1, <4>2 DEF List, Get
      <4>. QED
        BY <1>1, <2>7, <4>3 DEF Led, Pending
    <3>3. CASE q.cluster # ""
      <4>1. PICK l : l = List(q.cluster, "pod", "", "", "fail")
        OBVIOUS
      <4>2. FirstReads(q) = <<l>>
        BY <2>7, <3>3, <4>1, FirstReadsAre
      <4>3. /\ l.op = "list" /\ l.cluster = q.cluster /\ l.kind = "pod"
            /\ l.namespace = "" /\ l.label = ""
        BY <4>1 DEF List, Get
      <4>4. Gets(l, i)
        BY <3>1, <3>3, <4>3 DEF Gets
      <4>. QED
        BY <1>3, <4>2, <4>4
    <3>. QED
      BY <3>2, <3>3
  <2>8. CASE q.tool = "listProjects"
    <3>1. InCluster(i, {"project"}, "local") /\ q.cluster \in {"", i.ref.namespace}
      BY <1>1, <1>4, <2>8, ToolsBelongNext DEF BelongsAre
    <3>2. PICK l : l = List("local", "project", q.cluster, "", "fail")
      OBVIOUS
    <3>3. FirstReads(q) = <<l>>
      BY <2>8, <3>2, FirstReadsAre DEF AllProjects
    <3>4. /\ l.op = "list" /\ l.cluster = "local" /\ l.kind = "project"
          /\ l.namespace = q.cluster /\ l.label = ""
      BY <3>2 DEF List, Get
    <3>5. Gets(l, i)
      BY <3>1, <3>4 DEF Gets, InCluster
    <3>. QED
      BY <1>3, <3>3, <3>5
  <2>9. CASE q.tool = "getUser"
    <3>1. InCluster(i, {"user"}, "local")
      BY <1>1, <1>4, <2>9, ToolsBelongNext DEF BelongsAre
    <3>2. PICK l : l = List("local", "user", "", "", "fail")
      OBVIOUS
    <3>3. FirstReads(q) = <<l>>
      BY <2>9, <3>2, FirstReadsAre
    <3>4. /\ l.op = "list" /\ l.cluster = "local" /\ l.kind = "user"
          /\ l.namespace = "" /\ l.label = ""
      BY <3>2 DEF List, Get
    <3>5. Gets(l, i)
      BY <3>1, <3>4 DEF Gets, InCluster
    <3>. QED
      BY <1>3, <3>3, <3>5
  <2>10. CASE q.tool = "listClusterRoleTemplateBindings"
    <3>1. /\ InCluster(i, {"clusterroletemplatebinding"}, "local")
          /\ q.cluster \in {"", i.ref.namespace}
      BY <1>1, <1>4, <2>10, ToolsBelongNext DEF BelongsAre
    <3>2. PICK l : l = List("local", "clusterroletemplatebinding", q.cluster, "", "fail")
      OBVIOUS
    <3>3. FirstReads(q) = <<l>>
      BY <2>10, <3>2, FirstReadsAre
    <3>4. /\ l.op = "list" /\ l.cluster = "local" /\ l.kind = "clusterroletemplatebinding"
          /\ l.namespace = q.cluster /\ l.label = ""
      BY <3>2 DEF List, Get
    <3>5. Gets(l, i)
      BY <3>1, <3>4 DEF Gets, InCluster
    <3>. QED
      BY <1>3, <3>3, <3>5
  <2>11. CASE q.tool = "listProjectRoleTemplateBindings"
    <3>1. InCluster(i, {"projectroletemplatebinding"}, "local")
      BY <1>1, <1>4, <2>11, ToolsBelongNext DEF BelongsAre
    <3>2. CASE q.name # ""
      <4>1. PICK g : g = Get("local", "project", q.cluster, q.name, "search")
        OBVIOUS
      <4>2. FirstReads(q) = <<g>>
        BY <2>11, <3>2, <4>1, FirstReadsAre DEF ProjectNamed
      <4>3. g \in Range(call'.todo) /\ g.kind = "project"
        BY <1>3, <4>1, <4>2 DEF Get
      <4>. QED
        BY <1>1, <2>11, <4>3 DEF Led, Pending
    <3>3. CASE q.name = ""
      <4>1. PICK l : l = List("local", "projectroletemplatebinding", "", "", "fail")
        OBVIOUS
      <4>2. FirstReads(q) = <<l>>
        BY <2>11, <3>3, <4>1, FirstReadsAre DEF BindingReads
      <4>3. /\ l.op = "list" /\ l.cluster = "local" /\ l.kind = "projectroletemplatebinding"
            /\ l.namespace = "" /\ l.label = ""
        BY <4>1 DEF List, Get
      <4>4. Gets(l, i)
        BY <3>1, <4>3 DEF Gets, InCluster
      <4>. QED
        BY <1>3, <4>2, <4>4
    <3>. QED
      BY <3>2, <3>3
  <2>12. CASE q.tool \in OneReadTools
    <3>1. Gets(OneRead(call'.query), i)
      BY <1>1, <1>4, <2>12, ToolsBelongNext DEF BelongsAre
    <3>2. FirstReads(q) = <<OneRead(q)>>
      BY <2>12, FirstReadsAre
    <3>. QED
      BY <1>1, <1>3, <3>1, <3>2
  <2>. QED
    BY <2>2, <2>3, <2>4, <2>5, <2>6, <2>7, <2>8, <2>9, <2>10, <2>11, <2>12
       DEF TypeOK, Queries, Tools
<1>5. \A i : ToBe(i)' <=>
        i \in call'.found \/ Led(i)' \/ \E r \in Range(call'.todo) : Gets(r, i)
  BY DEF ToBe, Gets
<1>. QED
  BY <1>4, <1>5, LastingIsNext

\* What stays from here on stayed before, and belonged there before.
LEMMA OthersLast ==
  ASSUME TypeOK, Lasting, OthersWrite
  PROVE  Lasting'
<1> DEFINE q == call.query
<1>1. PICK d : /\ touched' = touched \cup {d}
               /\ \A r : r # d => /\ r \in DOMAIN store' <=> r \in DOMAIN store
                                  /\ r \in DOMAIN store => store'[r] = store[r]
  BY OthersChange
<1>2. call' = call
  BY OthersChange
<1>3. \A r : r \notin touched' =>
        /\ r \notin touched /\ (r \in DOMAIN store' <=> r \in DOMAIN store)
        /\ r \in DOMAIN store => store'[r] = store[r]
  BY <1>1
<1>4. Stays' \subseteq Stays
  BY <1>3 DEF Stays
<1>5. \A kind : AnswerOf(kind)' = AnswerOf(kind)
  BY <1>2 DEF AnswerOf
<1>6. \A cluster : Steady(cluster)' => Steady(cluster)
  BY <1>3 DEF Steady
<1>7. \A i : ToBe(i)' <=> ToBe(i)
  BY <1>2 DEF ToBe, Led, Pending, Gets
<1>8. NamedProjects \subseteq NamedProjects'
  BY OthersKeepNames
<1>9. ASSUME NEW i \in Stays', Belongs(i)', ~Optional(i)'
      PROVE  Belongs(i) /\ ~Optional(i)
  <2>1. CASE q.tool = "inspectPod"
    <3>1. ~Optional(i)
      <4>1. i.ref.kind \notin {"podmetrics", "nodemetrics", "pods/log", "k3kcluster"}
        BY <1>9, ToolsOptionalNext DEF OptionalAre
      <4>2. ASSUME NEW p \in AnswerOf("pod"), ReplicaSets(p) \subseteq touched
            PROVE  i.ref.kind \notin Workloads
        <5>1. p \in AnswerOf("pod")' /\ ReplicaSets(p) \subseteq touched'
          BY <1>1, <1>5, <4>2
        <5>. QED
          BY <1>2, <1>9, <2>1, <5>1, ToolsOptionalNext DEF OptionalAre
      <4>. QED
        BY <2>1, <4>1, <4>2 DEF Optional
    <3>2. CASE /\ InCluster(i, {"pod", "pods/log", "podmetrics"}, q.cluster)
               /\ i.ref.namespace = q.namespace /\ i.ref.name = q.name
      BY <2>1, <3>1, <3>2, ToolsBelong DEF BelongsAre
    <3>3. CASE /\ i.ref.kind \in Workloads
               /\ \E p \in AnswerOf("pod")' : \E s \in ReplicaSets(p) : HasOwner(s, i.ref)'
      <4>. PICK p \in AnswerOf("pod")' : \E s \in ReplicaSets(p) : HasOwner(s, i.ref)'
        BY <3>3
      <4>1. PICK s \in ReplicaSets(p) : HasOwner(s, i.ref)'
        OBVIOUS
      <4>2. p \in AnswerOf("pod") /\ p \in Items
        BY <1>5 DEF AnswerOf, TypeOK
      <4>3. \A t \in ReplicaSets(p) : t = s
        BY <4>1, <4>2, OneFirst, ObjectTyped DEF ReplicaSets
      <4>4. s \notin touched'
        BY <1>2, <1>9, <2>1, <3>3, <4>3, ToolsOptionalNext DEF OptionalAre
      <4>5. s \in DOMAIN store' /\ i.ref \in FirstOf(s, store'[s].owners, Workloads)
        BY <4>1, <4>4 DEF HasOwner
      <4>6. s \in DOMAIN store /\ i.ref \in FirstOf(s, store[s].owners, Workloads)
        BY <1>3, <4>4, <4>5
      <4>7. HasOwner(s, i.ref)
        BY <4>6 DEF HasOwner
      <4>8. Belongs(i)
        BY <2>1, <3>3, <4>1, <4>2, <4>7, ToolsBelong DEF BelongsAre
      <4>. QED
        BY <3>1, <4>8
    <3>. QED
      BY <1>2, <1>9, <2>1, <3>2, <3>3, ToolsBelongNext DEF BelongsAre
  <2>2. CASE q.tool = "listProjectRoleTemplateBindings"
    <3>1. /\ InCluster(i, {"projectroletemplatebinding"}, "local")
          /\ i.data.spec.cluster = q.cluster /\ q.user \in {"", i.data.spec.user}
          /\ q.name # "" =>
               \E p \in NamedProjects' : p \in touched' \/ BackedBy(p, i.ref.namespace)'
      BY <1>2, <1>9, <2>2, ToolsBelongNext DEF BelongsAre
    <3>2. q.name # "" =>
            NamedProjects' \cap touched' = {} /\ \A p, o \in NamedProjects' : p = o
      BY <1>2, <1>9, <2>2, ToolsOptionalNext DEF OptionalAre
    <3>3. ASSUME q.name # ""
          PROVE  \E p \in NamedProjects : p \in touched \/ BackedBy(p, i.ref.namespace)
      <4>1. PICK p \in NamedProjects' : p \notin touched' /\ BackedBy(p, i.ref.namespace)'
        BY <3>1, <3>2, <3>3
      <4>2. p \in DOMAIN store' /\ p.cluster = "local" /\ p.kind = "project"
            /\ q.cluster \in {"", p.namespace}
            /\ q.name \in {p.name, store'[p].spec.displayName}
        BY <1>2, <4>1 DEF NamedProjects
      <4>3. p \in DOMAIN store /\ store'[p] = store[p]
        BY <1>3, <4>1, <4>2
      <4>4. p \in NamedProjects
        BY <4>2, <4>3 DEF NamedProjects
      <4>5. BackedBy(p, i.ref.namespace)
        BY <4>1, <4>3 DEF BackedBy
      <4>. QED
        BY <4>4, <4>5
    <3>4. Belongs(i)
      BY <2>2, <3>1, <3>3, ToolsBelong DEF BelongsAre
    <3>5. q.name # "" => NamedProjects \cap touched = {} /\ \A p, o \in NamedProjects : p = o
      BY <1>1, <1>8, <3>2
    <3>6. i.ref.kind \notin {"podmetrics", "nodemetrics", "pods/log", "k3kcluster"}
      BY <3>1 DEF InCluster
    <3>7. ~Optional(i)
      BY <2>2, <3>5, <3>6 DEF Optional
    <3>. QED
      BY <3>4, <3>7
  <2>3. CASE q.tool \notin {"inspectPod", "listProjectRoleTemplateBindings"}
    <3>1. ~Optional(i)
      BY <1>2, <1>6, <1>9, <2>3 DEF Optional
    <3>2. CASE q.tool \in {"analyzeCluster", "getClusterMachine",
                           "getDeploymentDetails", "getProject"}
      BY <1>2, <1>5, <1>9, <3>1, <3>2, ToolsBelong, ToolsBelongNext DEF BelongsAre
    <3>3. CASE q.tool \in OneReadTools
      BY <1>2, <1>9, <3>1, <3>3, ToolsBelong, ToolsBelongNext DEF BelongsAre
    <3>4. CASE q.tool \in
                {"analyzeClusterMachines", "getNodes", "getClusterImages", "getK3kClusters",
                 "listProjects", "getUser", "listClusterRoleTemplateBindings"}
      BY <1>2, <1>9, <3>1, <3>4, ToolsBelong, ToolsBelongNext DEF BelongsAre
    <3>5. CASE q.tool \in {"getResourceUsage", "listKubernetesResources"}
      BY <1>2, <1>9, <3>5, ToolsBelongNext DEF BelongsAre
    <3>. QED
      BY <2>3, <3>2, <3>3, <3>4, <3>5 DEF TypeOK, Queries, Tools
  <2>. QED
    BY <2>1, <2>2, <2>3
<1>. QED
  BY <1>2, <1>4, <1>7, <1>9, LastingIs, LastingIsNext


LEMMA InitLasting ==
  ASSUME Init
  PROVE  Lasting
BY InitTyped DEF Lasting

LEMMA NextLasting ==
  ASSUME Typed, Fitted, Lasting, [Next]_vars
  PROVE  Lasting'
<1>1. TypeOK /\ Ordered /\ Asked /\ PanicsOnlyOnOverflow /\ Fits /\ Single
  BY DEF Typed, Fitted
<1>2. CASE UNCHANGED vars
  <2>1. \A i : (Belongs(i)' <=> Belongs(i)) /\ (Optional(i)' <=> Optional(i))
    BY <1>2, BelongsSame, OptionalSame DEF vars
  <2>2. \A i : ToBe(i)' <=> ToBe(i)
    BY <1>2 DEF vars, ToBe, Led, Pending, Gets
  <2>3. Stays' = Stays /\ call'.pc = call.pc
    BY <1>2 DEF vars, Stays
  <2>. QED
    BY <2>1, <2>2, <2>3, LastingIs, LastingIsNext
<1>. QED
  BY <1>1, <1>2, BeginLasts, StepLasts, OthersLast DEF Next

\* An answer leaves out nothing that was there, unchanged, from the call's start
\* to its end, unless it is one of the parts that may be missing.
THEOREM AnswersLast == Spec => []LastingAnswered
<1>1. Init => Typed /\ Fitted /\ Lasting
  BY InitTypedAll, InitFitted, InitLasting
<1>2. Typed /\ Fitted /\ Lasting /\ [Next]_vars => Typed' /\ Fitted' /\ Lasting'
  BY StepTypedAll, NextFitted, NextLasting
<1>3. Typed /\ Lasting => LastingAnswered
  <2>1. SUFFICES ASSUME TypeOK, Lasting, call.pc = "done"
                 PROVE  LastingAnswered
    BY DEF Typed, LastingAnswered
  <2>2. Range(call.todo) = {}
    <3>1. call.todo = <<>>
      BY <2>1 DEF TypeOK
    <3>2. Range(<<>>) = {}
      BY FewAre
    <3>. QED
      BY <3>1, <3>2
  <2>. QED
    BY <2>1, <2>2 DEF Lasting, LastingAnswered, Led, Pending
<1>. QED
  BY <1>1, <1>2, <1>3, PTL DEF Spec

-----------------------------------------------------------------------------
(* What is counted for the resource usage.                                   *)

\* What a pod's containers need is their sum, or more if an init container
\* needs more.
LEMMA NeedIs ==
  ASSUME NEW spec, spec.apps \in Seq(Nat), spec.inits \in Seq(Nat)
  PROVE  Effective(spec) = Need(spec) /\ Need(spec) \in Nat
<1> DEFINE S == {SumOf(spec.apps)} \cup Range(spec.inits)
           sum == SumOf(spec.apps)
           e == Effective(spec)
<1>1. sum \in Nat /\ Largest(spec.inits) \in Nat
  BY SequenceSums
<1>2. /\ \A n \in Range(spec.inits) : n \in Nat /\ n <= Largest(spec.inits)
      /\ Largest(spec.inits) = 0 \/ Largest(spec.inits) \in Range(spec.inits)
  <2> DEFINE f == spec.inits
             D == 1..Len(f)
  <2>1. f \in [D -> Nat] /\ Len(f) \in Nat
    OBVIOUS
  <2>2. IsFiniteSet(D)
    BY <2>1, FS_Interval
  <2> HIDE DEF D, f
  <2>3. /\ \A x \in D : f[x] <= Largest(f)
        /\ Largest(f) = 0 \/ \E x \in D : Largest(f) = f[x]
    BY <2>1, <2>2, LargestIs
  <2>4. /\ \A n \in Range(f) : n \in Nat /\ n <= Largest(f)
        /\ Largest(f) = 0 \/ Largest(f) \in Range(f)
    BY <2>1, <2>3 DEF Range
  <2>. QED
    BY <2>4 DEF f
<1>3. e = IF sum >= Largest(spec.inits) THEN sum ELSE Largest(spec.inits)
  BY DEF Effective, QuantityMax
<1> HIDE DEF e, sum
<1>4. e \in S /\ e \in Nat /\ \A n \in S : n \in Nat /\ e >= n
  <2>1. e \in Nat /\ e >= sum /\ e >= Largest(spec.inits)
    BY <1>1, <1>3
  <2>2. \A n \in Range(spec.inits) : n \in Nat /\ e >= n
    BY <1>1, <1>2, <2>1
  <2>3. e = sum \/ (e = Largest(spec.inits) /\ Largest(spec.inits) # 0)
    BY <1>1, <1>3
  <2>. QED
    BY <1>1, <1>2, <2>1, <2>2, <2>3 DEF sum
<1> HIDE DEF S
<1>5. \A n \in S : (\A k \in S : n >= k) => n = e
  BY <1>4
<1>6. Max(S) = e
  BY <1>4, <1>5 DEF Max
<1>. QED
  BY <1>4, <1>6 DEF Need, S, sum, e

\* The fields of the requests.
LEMMA UsageRequests ==
  ASSUME NEW n
  PROVE  /\ NamespacesRead(n).op = "list" /\ NamespacesRead(n).cluster = call.query.cluster
         /\ NamespacesRead(n).kind = "namespace" /\ NamespacesRead(n).namespace = ""
         /\ NamespacesRead(n).label = n
         /\ UsageRead(n).op = "list" /\ UsageRead(n).cluster = call.query.cluster
         /\ UsageRead(n).kind = "pod" /\ UsageRead(n).namespace = n
         /\ UsageRead(n).label = ""
         /\ MetricsRead(n).op = "list" /\ MetricsRead(n).cluster = call.query.cluster
         /\ MetricsRead(n).kind = "podmetrics" /\ MetricsRead(n).namespace = n
         /\ MetricsRead(n).label = ""
BY DEF NamespacesRead, UsageRead, MetricsRead, List, Get

\* The objects with these references, as they are.
ItemsOf(refs) == {[ref |-> r, data |-> store[r]] : r \in refs}

MetricsIn(namespace) ==
  {r \in DOMAIN store :
     r.cluster = call.query.cluster /\ r.kind = "podmetrics" /\ r.namespace = namespace}

\* What a list of the pods, or the metrics, of a namespace answers.
LEMMA GotOfNamespace ==
  ASSUME TypeOK, NEW n, n # ""
  PROVE  /\ Read = UsageRead(n) => Got = ItemsOf(PodsIn(n))
         /\ Read = MetricsRead(n) => Got = ItemsOf(MetricsIn(n))
<1>1. \A r \in DOMAIN store : r = [r EXCEPT !.kind = r.kind]
  BY DEF TypeOK, References
<1>2. ASSUME Read = UsageRead(n)
      PROVE  Got = ItemsOf(PodsIn(n))
  <2>1. /\ Read.op = "list" /\ Read.cluster = call.query.cluster /\ Read.kind = "pod"
        /\ Read.namespace = n /\ Read.label = ""
    <3>1. Read = List(call.query.cluster, "pod", n, "", "fail")
      BY <1>2 DEF UsageRead
    <3>. QED
      BY <3>1 DEF List, Get
  <2>2. Matching = PodsIn(n)
    BY <2>1 DEF Matching, PodsIn, Served
  <2>3. \A r \in PodsIn(n) : [r EXCEPT !.kind = Read.kind] = r
    BY <1>1, <2>1 DEF PodsIn
  <2>. QED
    BY <2>2, <2>3 DEF Got, ItemsOf
<1>3. ASSUME Read = MetricsRead(n)
      PROVE  Got = ItemsOf(MetricsIn(n))
  <2>1. /\ Read.op = "list" /\ Read.cluster = call.query.cluster /\ Read.kind = "podmetrics"
        /\ Read.namespace = n /\ Read.label = ""
    <3>1. Read = List(call.query.cluster, "podmetrics", n, "", "any")
      BY <1>3 DEF MetricsRead
    <3>. QED
      BY <3>1 DEF List, Get
  <2>2. Matching = MetricsIn(n)
    BY <2>1 DEF Matching, MetricsIn, Served
  <2>3. \A r \in MetricsIn(n) : [r EXCEPT !.kind = Read.kind] = r
    BY <1>1, <2>1 DEF MetricsIn
  <2>. QED
    BY <2>2, <2>3 DEF Got, ItemsOf
<1>. QED
  BY <1>2, <1>3

\* Sums over objects are sums over their references.
LEMMA SumOfItems ==
  ASSUME NEW refs, IsFiniteSet(refs), NEW f \in [refs -> Nat],
         NEW h \in [ItemsOf(refs) -> Nat],
         \A i \in ItemsOf(refs) : h[i] = f[i.ref]
  PROVE  Cardinality(ItemsOf(refs)) = Cardinality(refs) /\ SumOf(h) = SumOf(f)
<1> DEFINE T == ItemsOf(refs)
           b == [r \in refs |-> [ref |-> r, data |-> store[r]]]
<1>1. b \in [refs -> T]
  BY DEF ItemsOf
<1>2. \A y \in T : \E x \in refs : b[x] = y
  BY DEF ItemsOf
<1>3. \A x, y \in refs : b[x] = b[y] => x = y
  OBVIOUS
<1>4. \A x \in refs : h[b[x]] = f[x]
  BY <1>1
<1> HIDE DEF b, T
<1>5. h \in [T -> Nat]
  BY DEF T
<1>6. Cardinality(T) = Cardinality(refs) /\ SumOf(h) = SumOf(f)
  BY <1>1, <1>2, <1>3, <1>4, <1>5, SumOfImage
<1>. QED
  BY <1>6 DEF T

\* What is sampled of a namespace without changes is what it needs and uses.
LEMMA SampleIsFit ==
  ASSUME TypeOK, NEW s, NEW metrics \in {{}, ItemsOf(MetricsIn(s.namespace))},
         s.sample = Sample(ItemsOf(PodsIn(s.namespace)), metrics)
  PROVE  SampleFits(s)
<1> DEFINE n == s.namespace
           pods == ItemsOf(PodsIn(n))
           running == {i \in pods : i.data.spec.running}
           refs == RunningIn(n)
           used == {m \in metrics : \E i \in running : i.ref.name = m.ref.name}
           need == [i \in running |-> Effective(i.data.spec)]
           use == [m \in used |-> SumOf(m.data.spec.usage)]
           needs == [r \in refs |-> Need(store[r].spec)]
           uses == [r \in MetricsOf(refs) |-> SumOf(store[r].spec.usage)]
<1>1. s.sample =
        [pods |-> Cardinality(running), requests |-> SumOf(need), usage |-> SumOf(use)]
  BY DEF Sample
<1>2. refs \subseteq DOMAIN store /\ IsFiniteSet(refs)
  <2>1. refs \subseteq DOMAIN store /\ IsFiniteSet(DOMAIN store)
    BY DEF RunningIn, PodsIn, TypeOK
  <2>. QED
    BY <2>1, FS_Subset
<1>3. MetricsOf(refs) \subseteq DOMAIN store /\ IsFiniteSet(MetricsOf(refs))
  <2>1. MetricsOf(refs) \subseteq DOMAIN store /\ IsFiniteSet(DOMAIN store)
    BY DEF MetricsOf, TypeOK
  <2>. QED
    BY <2>1, FS_Subset
<1>4. running = ItemsOf(refs)
  BY DEF ItemsOf, RunningIn
<1>5. \A r \in DOMAIN store :
        /\ Need(store[r].spec) \in Nat /\ Effective(store[r].spec) = Need(store[r].spec)
        /\ SumOf(store[r].spec.usage) \in Nat
  <2>1. ASSUME NEW r \in DOMAIN store
        PROVE  /\ Need(store[r].spec) \in Nat /\ Effective(store[r].spec) = Need(store[r].spec)
               /\ SumOf(store[r].spec.usage) \in Nat
    <3>1. /\ store[r].spec.apps \in Seq(Nat) /\ store[r].spec.inits \in Seq(Nat)
          /\ store[r].spec.usage \in Seq(Nat)
      BY DEF TypeOK, Objects
    <3>. QED
      BY <3>1, NeedIs, SequenceSums
  <2>. QED
    BY <2>1
<1>6. Cardinality(running) = Cardinality(refs) /\ SumOf(need) = SumOf(needs)
  <2>1. needs \in [refs -> Nat]
    BY <1>2, <1>5
  <2>2. \A i \in running : i.ref \in refs /\ i.data = store[i.ref]
    BY <1>4 DEF ItemsOf
  <2>3. need \in [running -> Nat] /\ \A i \in running : need[i] = needs[i.ref]
    BY <1>2, <1>5, <2>2
  <2> HIDE DEF need, needs, running, refs
  <2>. QED
    BY <1>2, <1>4, <2>1, <2>3, SumOfItems
<1>7. metrics = {} => SumOf(use) = 0
  <2>1. SUFFICES ASSUME metrics = {} PROVE SumOf(use) = 0
    OBVIOUS
  <2>2. use \in [{} -> Nat] /\ IsFiniteSet({})
    BY <2>1, FS_EmptySet
  <2> HIDE DEF use
  <2>3. PICK g \in [SUBSET {} -> Nat] : SumsOf(use, g) /\ SumOf(use) = g[{}]
    BY <2>2, SumIsFold
  <2>4. g[{}] = 0
    BY <2>2, <2>3 DEF SumsOf
  <2>. QED
    BY <2>3, <2>4
<1>8. metrics = ItemsOf(MetricsIn(n)) => used = ItemsOf(MetricsOf(refs))
  <2>1. SUFFICES ASSUME metrics = ItemsOf(MetricsIn(n)) PROVE used = ItemsOf(MetricsOf(refs))
    OBVIOUS
  <2>2. ASSUME NEW r \in MetricsIn(n)
        PROVE  (\E i \in running : i.ref.name = r.name) <=> r \in MetricsOf(refs)
    <3>1. /\ r \in References /\ r \in DOMAIN store /\ r.cluster = call.query.cluster
          /\ r.kind = "podmetrics" /\ r.namespace = n
      BY DEF MetricsIn, TypeOK
    <3>2. [r EXCEPT !.kind = "pod"] = Ref(r.cluster, "pod", n, r.name)
      <4>1. r = [cluster |-> r.cluster, kind |-> r.kind, namespace |-> n, name |-> r.name]
        BY <3>1 DEF References
      <4>. QED
        BY <4>1 DEF Ref
    <3>3. ASSUME NEW i \in running, i.ref.name = r.name
          PROVE  r \in MetricsOf(refs)
      <4>1. /\ i.ref \in refs /\ i.ref \in References /\ i.ref.kind = "pod"
            /\ i.ref.namespace = n /\ i.ref.cluster = call.query.cluster
        BY <1>2, <1>4 DEF ItemsOf, RunningIn, PodsIn, TypeOK
      <4>2. i.ref = Ref(r.cluster, "pod", n, r.name)
        BY <3>1, <3>3, <4>1 DEF References, Ref
      <4>. QED
        BY <3>1, <3>2, <4>1, <4>2 DEF MetricsOf
    <3>4. ASSUME r \in MetricsOf(refs)
          PROVE  \E i \in running : i.ref.name = r.name
      <4>1. Ref(r.cluster, "pod", n, r.name) \in refs
        BY <3>2, <3>4 DEF MetricsOf
      <4> DEFINE p == Ref(r.cluster, "pod", n, r.name)
      <4>2. [ref |-> p, data |-> store[p]] \in running /\ p.name = r.name
        BY <1>4, <4>1 DEF ItemsOf, Ref
      <4> HIDE DEF running
      <4>. QED
        BY <4>2
    <3>. QED
      BY <3>3, <3>4
  <2>3. MetricsOf(refs) \subseteq MetricsIn(n)
    <3>1. ASSUME NEW r \in MetricsOf(refs)
          PROVE  r \in MetricsIn(n)
      <4>1. r \in DOMAIN store /\ r \in References /\ r.kind = "podmetrics"
        BY <1>3 DEF MetricsOf, TypeOK
      <4>2. [r EXCEPT !.kind = "pod"] \in refs
        BY DEF MetricsOf
      <4>3. /\ [r EXCEPT !.kind = "pod"].cluster = r.cluster
            /\ [r EXCEPT !.kind = "pod"].namespace = r.namespace
        BY <4>1 DEF References
      <4>. QED
        BY <4>1, <4>2, <4>3 DEF RunningIn, PodsIn, MetricsIn
    <3>. QED
      BY <3>1
  <2> HIDE DEF running, refs
  <2>. QED
    BY <2>1, <2>2, <2>3 DEF ItemsOf
<1>9. metrics = ItemsOf(MetricsIn(n)) => SumOf(use) = SumOf(uses)
  <2>1. SUFFICES ASSUME used = ItemsOf(MetricsOf(refs)) PROVE SumOf(use) = SumOf(uses)
    BY <1>8
  <2>2. uses \in [MetricsOf(refs) -> Nat]
    BY <1>3, <1>5
  <2>3. \A m \in used : m.ref \in MetricsOf(refs) /\ m.data = store[m.ref]
    BY <2>1 DEF ItemsOf
  <2>4. use \in [used -> Nat] /\ \A m \in used : use[m] = uses[m.ref]
    BY <1>3, <1>5, <2>3
  <2> HIDE DEF use, uses, used, refs
  <2>. QED
    BY <1>3, <2>1, <2>2, <2>4, SumOfItems
<1> HIDE DEF need, needs, use, uses, running, used, refs
<1>10. /\ s.sample.pods = Cardinality(refs) /\ s.sample.requests = SumOf(needs)
       /\ s.sample.usage \in {0, SumOf(uses)}
  BY <1>1, <1>6, <1>7, <1>9
<1>. QED
  BY <1>10 DEF SampleFits, needs, uses, refs

\* The order of the requests.
LEMMA TurnsOn ==
  ASSUME NEW S, NEW s \in Seq(S), NEW t \in Seq(S), InTurn(s), InTurn(t),
         \A a \in Range(s), b \in Range(t) : After(a, b)
  PROVE  InTurn(s \o t)
<1> DEFINE u == s \o t
<1>1. /\ Len(s) \in Nat /\ Len(t) \in Nat /\ DOMAIN u = 1..(Len(s) + Len(t))
      /\ DOMAIN s = 1..Len(s) /\ DOMAIN t = 1..Len(t)
      /\ \A k \in 1..Len(s) : u[k] = s[k]
      /\ \A k \in 1..Len(t) : u[Len(s) + k] = t[k]
  OBVIOUS
<1> HIDE DEF u
<1>2. \A k \in DOMAIN u : k > Len(s) => k - Len(s) \in DOMAIN t /\ u[k] = t[k - Len(s)]
  <2>1. \A k \in DOMAIN u : k > Len(s) => k - Len(s) \in DOMAIN t /\ Len(s) + (k - Len(s)) = k
    BY <1>1
  <2>. QED
    BY <1>1, <2>1
<1>3. ASSUME NEW j \in DOMAIN u, NEW k \in DOMAIN u, j < k
      PROVE  After(u[j], u[k])
  <2>1. j \in Nat /\ k \in Nat
    BY <1>1
  <2>2. CASE k <= Len(s)
    <3>1. j \in DOMAIN s /\ k \in DOMAIN s /\ u[j] = s[j] /\ u[k] = s[k]
      BY <1>1, <1>3, <2>1, <2>2
    <3>. QED
      BY <1>3, <3>1 DEF InTurn
  <2>3. CASE j <= Len(s) /\ k > Len(s)
    <3>1. j \in DOMAIN s /\ u[j] = s[j] /\ k - Len(s) \in DOMAIN t /\ u[k] = t[k - Len(s)]
      BY <1>1, <1>2, <2>1, <2>3
    <3>2. u[j] \in Range(s) /\ u[k] \in Range(t)
      BY <3>1 DEF Range
    <3>. QED
      BY <3>2
  <2>4. CASE j > Len(s)
    <3>1. /\ k - Len(s) \in DOMAIN t /\ u[k] = t[k - Len(s)]
          /\ j - Len(s) \in DOMAIN t /\ u[j] = t[j - Len(s)]
          /\ j - Len(s) < k - Len(s)
      BY <1>1, <1>2, <1>3, <2>1, <2>4
    <3>. QED
      BY <3>1 DEF InTurn
  <2>. QED
    BY <1>1, <2>1, <2>2, <2>3, <2>4
<1>. QED
  BY <1>3 DEF InTurn, u

LEMMA TurnsTail ==
  ASSUME NEW S, NEW t \in Seq(S), t # <<>>, InTurn(t)
  PROVE  /\ InTurn(Tail(t)) /\ \A b \in Range(Tail(t)) : After(Head(t), b)
         /\ Range(t) = {Head(t)} \cup Range(Tail(t))
<1> DEFINE u == Tail(t)
<1>1. /\ Len(t) \in Nat \ {0} /\ u \in Seq(S) /\ Len(u) = Len(t) - 1
      /\ DOMAIN u = 1..(Len(t) - 1) /\ DOMAIN t = 1..Len(t)
      /\ \A k \in 1..(Len(t) - 1) : u[k] = t[k + 1]
      /\ Head(t) = t[1]
  BY HeadTailProperties
<1> HIDE DEF u
<1>2. \A k \in DOMAIN u : k + 1 \in DOMAIN t /\ k \in Nat /\ u[k] = t[k + 1]
  BY <1>1
<1>3. \A j, k \in DOMAIN u : j < k => After(u[j], u[k])
  BY <1>2 DEF InTurn
<1>4. ASSUME NEW b \in Range(u) PROVE After(Head(t), b)
  <2>1. PICK k \in DOMAIN u : b = u[k]
    BY DEF Range
  <2>2. 1 \in DOMAIN t /\ k + 1 \in DOMAIN t /\ 1 < k + 1 /\ b = t[k + 1]
    BY <1>1, <1>2, <2>1
  <2>. QED
    BY <1>1, <2>2 DEF InTurn
<1>5. Range(t) = {Head(t)} \cup Range(u)
  <2>1. \A k \in DOMAIN t : k = 1 \/ (k - 1 \in DOMAIN u /\ u[k - 1] = t[k])
    BY <1>1
  <2>2. 1 \in DOMAIN t
    BY <1>1
  <2>3. ASSUME NEW k \in DOMAIN t PROVE t[k] \in {Head(t)} \cup Range(u)
    <3>1. k = 1 \/ \E j \in DOMAIN u : u[j] = t[k]
      BY <2>1
    <3>. QED
      BY <1>1, <3>1 DEF Range
  <2>4. \A k \in DOMAIN u : u[k] \in Range(t)
    BY <1>2 DEF Range
  <2>5. Head(t) \in Range(t)
    BY <1>1, <2>2 DEF Range
  <2>. QED
    BY <2>3, <2>4, <2>5 DEF Range
<1>. QED
  BY <1>3, <1>4, <1>5 DEF u, InTurn

\* Requests for each of some objects' names.
LEMMA NamesInTurn ==
  ASSUME NEW X \in SUBSET Items, IsFiniteSet(X)
  PROVE  LET names == SetToSeq({i.ref.name : i \in X}) IN
         /\ Range(names) = {i.ref.name : i \in X}
         /\ \A j, k \in DOMAIN names : j < k => names[j] # names[k]
<1> DEFINE N == {i.ref.name : i \in X}
           names == SetToSeq(N)
<1>1. IsFiniteSet(N)
  BY NamesAreFinite
<1> HIDE DEF N
<1>2. /\ Cardinality(N) \in Nat /\ names \in [1..Cardinality(N) -> N]
      /\ IsInjective(names) /\ \A x \in N : \E k \in DOMAIN names : names[k] = x
  BY <1>1, Enumerated
<1>3. Range(names) = N
  BY <1>2 DEF Range
<1>4. \A j, k \in DOMAIN names : j < k => names[j] # names[k]
  BY <1>2 DEF IsInjective
<1>. QED
  BY <1>3, <1>4 DEF N

LEMMA NamespacesInTurn ==
  ASSUME NEW X \in SUBSET Items, IsFiniteSet(X)
  PROVE  /\ InTurn(NamespacesOf(X))
         /\ Range(NamespacesOf(X)) = {NamespacesRead(i.ref.name) : i \in X}
<1> DEFINE names == SetToSeq({i.ref.name : i \in X})
<1>1. /\ Range(names) = {i.ref.name : i \in X}
      /\ \A j, k \in DOMAIN names : j < k => names[j] # names[k]
  BY NamesInTurn
<1>2. NamespacesOf(X) = [k \in DOMAIN names |-> NamespacesRead(names[k])]
  BY DEF NamespacesOf
<1> HIDE DEF names
<1>3. \A n : /\ NamespacesRead(n).kind = "namespace" /\ NamespacesRead(n).namespace = ""
            /\ NamespacesRead(n).label = n
  BY UsageRequests
<1>4. ASSUME NEW m, NEW n, m # n PROVE After(NamespacesRead(m), NamespacesRead(n))
  <2>1. /\ NamespacesRead(n).kind = "namespace" /\ NamespacesRead(m).label = m
        /\ NamespacesRead(n).label = n
    BY <1>3
  <2>. QED
    BY <1>4, <2>1 DEF After
<1>5. \A j, k \in DOMAIN names : j < k => After(NamespacesRead(names[j]), NamespacesRead(names[k]))
  BY <1>1, <1>4
<1>. QED
  BY <1>1, <1>2, <1>5 DEF InTurn, Range

LEMMA PodsInTurn ==
  ASSUME NEW X \in SUBSET Items, IsFiniteSet(X)
  PROVE  /\ InTurn(UsageReads(X))
         /\ Range(UsageReads(X)) = {UsageRead(i.ref.name) : i \in X}
<1> DEFINE names == SetToSeq({i.ref.name : i \in X})
<1>1. /\ Range(names) = {i.ref.name : i \in X}
      /\ \A j, k \in DOMAIN names : j < k => names[j] # names[k]
  BY NamesInTurn
<1>2. UsageReads(X) = [k \in DOMAIN names |-> UsageRead(names[k])]
  BY DEF UsageReads
<1> HIDE DEF names
<1>3. \A n : UsageRead(n).kind = "pod" /\ UsageRead(n).namespace = n
  BY UsageRequests
<1>4. \A m, n : m # n => After(UsageRead(m), UsageRead(n))
  BY <1>3 DEF After
<1>5. \A j, k \in DOMAIN names : j < k => After(UsageRead(names[j]), UsageRead(names[k]))
  BY <1>1, <1>4
<1>. QED
  BY <1>1, <1>2, <1>5 DEF InTurn, Range

LEMMA FewInTurn ==
  ASSUME NEW a
  PROVE  InTurn(<<>>) /\ InTurn(<<a>>)
<1>1. DOMAIN <<>> = {} /\ DOMAIN <<a>> = {1}
  OBVIOUS
<1>. QED
  BY <1>1 DEF InTurn

\* The first requests of the resource usage.
LEMMA UncalledRead ==
  ASSUME TypeOK, Uncalled, call.query.tool = "getResourceUsage", call.pc = "reading"
  PROVE  /\ call.todo = <<Read>> /\ Tail(call.todo) = <<>>
         /\ call.query.namespace # "" =>
              Read = Get(call.query.cluster, "namespace", "", call.query.namespace, "fail")
         /\ call.query.namespace = "" =>
              \/ Read = List("local", "project", call.query.cluster, "", "fail")
              \/ /\ call.query.name # ""
                 /\ Read = Get("local", "project", call.query.cluster, call.query.name, "search")
         /\ Read.kind = IF call.query.namespace # "" THEN "namespace" ELSE "project"
         /\ Read.kind = "namespace" => Read.op = "get"
<1> DEFINE q == call.query
<1>1. \/ q.namespace # "" /\ call.todo = <<Get(q.cluster, "namespace", "", q.namespace, "fail")>>
      \/ q.namespace = "" /\ q.name # "" /\ call.todo = ProjectNamed(q)
      \/ q.namespace = "" /\ call.todo = AllProjects(q)
  BY FirstReadsAre DEF Uncalled
<1>2. \/ /\ q.namespace # ""
         /\ call.todo = <<Get(q.cluster, "namespace", "", q.namespace, "fail")>>
      \/ /\ q.namespace = "" /\ q.name # ""
         /\ call.todo = <<Get("local", "project", q.cluster, q.name, "search")>>
      \/ q.namespace = "" /\ call.todo = <<List("local", "project", q.cluster, "", "fail")>>
  BY <1>1 DEF ProjectNamed, AllProjects
<1>3. ASSUME NEW r, call.todo = <<r>>
      PROVE  Read = r /\ Tail(call.todo) = <<>> /\ call.todo = <<Read>>
  BY <1>3, FewAre DEF Read
<1>4. /\ Get(q.cluster, "namespace", "", q.namespace, "fail").kind = "namespace"
      /\ Get(q.cluster, "namespace", "", q.namespace, "fail").op = "get"
      /\ Get("local", "project", q.cluster, q.name, "search").kind = "project"
  BY DEF Get
<1>5. List("local", "project", q.cluster, "", "fail").kind = "project"
  BY DEF List, Get
<1>6. CASE q.namespace # "" /\ Read = Get(q.cluster, "namespace", "", q.namespace, "fail")
  BY <1>2, <1>3, <1>4, <1>6
<1>7. CASE /\ q.namespace = "" /\ q.name # ""
           /\ Read = Get("local", "project", q.cluster, q.name, "search")
  BY <1>2, <1>3, <1>4, <1>7
<1>8. CASE q.namespace = "" /\ Read = List("local", "project", q.cluster, "", "fail")
  BY <1>2, <1>3, <1>5, <1>8
<1>. QED
  BY <1>2, <1>3, <1>6, <1>7, <1>8


\* What a request of Counting asks.
LEMMA AsksKinds ==
  ASSUME NEW r, UsageAsks(r)
  PROVE  /\ r.op = "list" /\ r.cluster = call.query.cluster
         /\ \/ /\ r.kind = "namespace" /\ r.namespace = "" /\ r = NamespacesRead(r.label)
               /\ call.query.namespace = ""
               /\ r.label \notin {"", call.project} \cup DOMAIN call.totals
                                 \cup {s.project : s \in call.spaces}
            \/ /\ r.kind = "pod" /\ r = UsageRead(r.namespace) /\ r.label = ""
               /\ r.namespace \notin {""} \cup {s.namespace : s \in SpacesOf(call.project)}
            \/ /\ r.kind = "podmetrics" /\ r = MetricsRead(r.namespace) /\ r.label = ""
               /\ r.namespace \notin {""} \cup {s.namespace : s \in SpacesOf(call.project)}
<1>1. CASE /\ r = NamespacesRead(r.label) /\ call.query.namespace = ""
           /\ r.label \notin {"", call.project} \cup DOMAIN call.totals
                             \cup {s.project : s \in call.spaces}
  <2>1. PICK n : n = r.label
    OBVIOUS
  <2>2. /\ NamespacesRead(n).op = "list" /\ NamespacesRead(n).cluster = call.query.cluster
        /\ NamespacesRead(n).kind = "namespace" /\ NamespacesRead(n).namespace = ""
    BY UsageRequests
  <2>. QED
    BY <1>1, <2>1, <2>2
<1>2. CASE /\ r \in {UsageRead(r.namespace), MetricsRead(r.namespace)}
           /\ r.namespace \notin {""} \cup {s.namespace : s \in SpacesOf(call.project)}
  <2>1. PICK n : n = r.namespace
    OBVIOUS
  <2>2. /\ UsageRead(n).op = "list" /\ UsageRead(n).cluster = call.query.cluster
        /\ UsageRead(n).kind = "pod" /\ UsageRead(n).label = ""
        /\ MetricsRead(n).op = "list" /\ MetricsRead(n).cluster = call.query.cluster
        /\ MetricsRead(n).kind = "podmetrics" /\ MetricsRead(n).label = ""
    BY UsageRequests
  <2>. QED
    BY <1>2, <2>1, <2>2
<1>. QED
  BY <1>1, <1>2 DEF UsageAsks

\* A call whose query is the same asks the same.
LEMMA UsageSame ==
  ASSUME call'.query = call.query
  PROVE  \A n : /\ NamespacesRead(n)' = NamespacesRead(n) /\ UsageRead(n)' = UsageRead(n)
               /\ MetricsRead(n)' = MetricsRead(n)
<1>1. call'.query.cluster = call.query.cluster
  OBVIOUS
<1>. QED
  BY <1>1 DEF NamespacesRead, UsageRead, MetricsRead

\* What has been sampled depends on the pods of the namespace and their metrics.
PodsSame(n) ==
  \A r \in References :
    r.kind \in {"pod", "podmetrics"} /\ r.namespace = n =>
      /\ r \in DOMAIN store' <=> r \in DOMAIN store
      /\ r \in DOMAIN store => store'[r] = store[r]

LEMMA SamplesSame ==
  ASSUME TypeOK, TypeOK', call'.query = call.query, NEW n, PodsSame(n)
  PROVE  /\ {[ref |-> p, data |-> store'[p]] : p \in PodsIn(n)'} = ItemsOf(PodsIn(n))
         /\ \A s : s.namespace = n /\ SampleFits(s) => SampleFits(s)'
<1>1. DOMAIN store \subseteq References /\ DOMAIN store' \subseteq References
  BY DEF TypeOK
<1>2. /\ \A r : r \in PodsIn(n) => r \in DOMAIN store /\ r.kind = "pod" /\ r.namespace = n
      /\ \A r : r \in PodsIn(n)' => r \in DOMAIN store' /\ r.kind = "pod" /\ r.namespace = n
  BY DEF PodsIn
<1>3. PodsIn(n)' = PodsIn(n)
  <2>1. \A r : r \in PodsIn(n)' <=> r \in PodsIn(n)
    BY <1>1 DEF PodsIn, PodsSame
  <2>. QED
    BY <2>1
<1>4. \A r \in PodsIn(n) : store'[r] = store[r]
  BY <1>1, <1>2 DEF PodsSame
<1>5. {[ref |-> p, data |-> store'[p]] : p \in PodsIn(n)'} = ItemsOf(PodsIn(n))
  BY <1>3, <1>4 DEF ItemsOf
<1>6. RunningIn(n)' = RunningIn(n) /\ RunningIn(n) \subseteq PodsIn(n)
  BY <1>3, <1>4 DEF RunningIn
<1> DEFINE running == RunningIn(n)
           pods == MetricsOf(running)
<1>7. \A r \in References : r.kind = "podmetrics" /\ [r EXCEPT !.kind = "pod"] \in running =>
                              r.namespace = n
  <2>1. ASSUME NEW r \in References, [r EXCEPT !.kind = "pod"] \in running PROVE r.namespace = n
    <3>1. [r EXCEPT !.kind = "pod"].namespace = r.namespace
      BY DEF References
    <3>. QED
      BY <1>2, <1>6, <2>1, <3>1
  <2>. QED
    BY <2>1
<1> HIDE DEF running
<1>8. /\ {r \in DOMAIN store' : r.kind = "podmetrics" /\ [r EXCEPT !.kind = "pod"] \in running} = pods
      /\ \A r \in pods : store'[r] = store[r]
  <2>1. /\ \A r \in DOMAIN store : r.kind = "podmetrics" /\ [r EXCEPT !.kind = "pod"] \in running =>
               r \in DOMAIN store' /\ store'[r] = store[r]
        /\ \A r \in DOMAIN store' : r.kind = "podmetrics" /\ [r EXCEPT !.kind = "pod"] \in running =>
               r \in DOMAIN store
    BY <1>1, <1>7 DEF PodsSame
  <2>. QED
    BY <2>1 DEF MetricsOf
<1> HIDE DEF pods
<1>9. \A r \in running : store'[r] = store[r]
  BY <1>4, <1>6 DEF running
<1>10. /\ [r \in running |-> Need(store'[r].spec)] = [r \in running |-> Need(store[r].spec)]
       /\ [r \in pods |-> SumOf(store'[r].spec.usage)] =
            [r \in pods |-> SumOf(store[r].spec.usage)]
  BY <1>8, <1>9
<1>11. ASSUME NEW s, s.namespace = n, SampleFits(s) PROVE SampleFits(s)'
  <2>1. /\ s.sample.pods = Cardinality(running)
        /\ s.sample.requests = SumOf([r \in running |-> Need(store[r].spec)])
        /\ s.sample.usage \in {0, SumOf([r \in pods |-> SumOf(store[r].spec.usage)])}
    BY <1>11 DEF SampleFits, running, pods
  <2>2. PICK now : now = RunningIn(n)'
    OBVIOUS
  <2>3. PICK measured :
          measured = {r \in DOMAIN store' : r.kind = "podmetrics" /\ [r EXCEPT !.kind = "pod"] \in now}
    OBVIOUS
  <2>4. SampleFits(s)' <=>
          /\ s.sample.pods = Cardinality(now)
          /\ s.sample.requests = SumOf([r \in now |-> Need(store'[r].spec)])
          /\ s.sample.usage \in {0, SumOf([r \in measured |-> SumOf(store'[r].spec.usage)])}
    BY <1>11, <2>2, <2>3 DEF SampleFits, MetricsOf
  <2>5. now = running /\ measured = pods
    BY <1>6, <1>8, <2>2, <2>3 DEF running
  <2>. QED
    BY <1>10, <2>1, <2>4, <2>5
<1>. QED
  BY <1>5, <1>11


LEMMA UsageProjectsCount ==
  ASSUME TypeOK, Counted, TypeOK', UNCHANGED <<store, touched>>, UsageProjects
  PROVE  Counting'
<1> DEFINE q == call.query
<1>1. /\ call.pc = "reading" /\ q.tool = "getResourceUsage" /\ Read.kind = "project"
      /\ Read \in Range(call.todo)
  BY TodoIs DEF UsageProjects, Reads
<1>2. Uncalled
  BY <1>1, AsksKinds DEF Counted, Counting
<1>3. /\ Tail(call.todo) = <<>> /\ q.namespace = ""
      /\ q.name = "" => Read = List("local", "project", q.cluster, "", "fail")
  BY <1>1, <1>2, UncalledRead
<1>4. PICK X \in SUBSET Got : Found({}, NamespacesOf(X)) /\ (q.name = "" => X = Got)
  BY DEF UsageProjects
<1>5. X \in SUBSET Items /\ IsFiniteSet(X)
  BY <1>1, GotIs, FS_Subset
<1>6. NamespacesOf(X) \in Seq(Requests)
  BY <1>5, NamespacesOfAre
<1>7. /\ call'.query = q /\ call'.todo = NamespacesOf(X)
      /\ call'.project = "" /\ call'.spaces = {} /\ DOMAIN call'.totals = {}
  <2>1. Kept({}, NamespacesOf(X)) /\ {} \in SUBSET Items
    BY <1>4 DEF Found
  <2>2. /\ call'.query = q /\ call'.todo = NamespacesOf(X) \o Tail(call.todo)
        /\ call'.project = call.project /\ call'.spaces = call.spaces
        /\ call'.totals = call.totals
    BY <1>1, <1>6, <2>1, KeptIs
  <2>3. NamespacesOf(X) \o <<>> = NamespacesOf(X)
    BY <1>6, ConcatEmptySeq
  <2>. QED
    BY <1>2, <1>3, <2>2, <2>3 DEF Uncalled
<1>8. InTurn(call'.todo) /\ Range(call'.todo) = {NamespacesRead(i.ref.name) : i \in X}
  BY <1>5, <1>7, NamespacesInTurn
<1>9. \A i \in X : i.ref.name # ""
  BY <1>5 DEF Items, References
<1>10. \A r \in Range(call'.todo) : /\ r.kind = "namespace" /\ r.namespace = "" /\ r.label # ""
                                    /\ r = NamespacesRead(r.label)
  <2>1. ASSUME NEW i \in X
        PROVE  LET r == NamespacesRead(i.ref.name) IN
               /\ r.kind = "namespace" /\ r.namespace = "" /\ r.label # ""
               /\ r = NamespacesRead(r.label)
    <3>1. PICK n : n = i.ref.name
      OBVIOUS
    <3>2. /\ NamespacesRead(n).kind = "namespace" /\ NamespacesRead(n).namespace = ""
          /\ NamespacesRead(n).label = n
      BY UsageRequests
    <3>. QED
      BY <1>9, <3>1, <3>2
  <2>. QED
    BY <1>8, <2>1
<1>11. \A n : NamespacesRead(n)' = NamespacesRead(n)
  BY <1>7, UsageSame
<1>12. \A r \in Range(call'.todo) : UsageAsks(r)'
  BY <1>3, <1>7, <1>10, <1>11 DEF UsageAsks
<1>13. Totalled' /\ Sampled'
  BY <1>3, <1>7, <1>10 DEF Totalled, Sampled
<1>14. Housed'
  <2>1. Uncounted' = {}
    BY <1>10 DEF Uncounted
  <2>. QED
    BY <1>7, <2>1 DEF Housed
<1>15. Enlisted'
  <2>1. SUFFICES ASSUME q.name = "", q.namespace = "", NEW r \in DOMAIN store,
                        r.cluster = "local", r.kind = "project", r.namespace = q.cluster
                 PROVE  NamespacesRead(r.name) \in Range(call'.todo)
    BY <1>7, <1>11 DEF Enlisted
  <2> DEFINE i == [ref |-> r, data |-> store[r]]
  <2>2. /\ Read.op = "list" /\ Read.cluster = "local" /\ Read.kind = "project"
        /\ Read.namespace = q.cluster /\ Read.label = ""
    <3>1. Read = List("local", "project", q.cluster, "", "fail")
      BY <1>3, <2>1
    <3>. QED
      BY <3>1 DEF List, Get
  <2>3. Gets(Read, i)
    BY <2>1, <2>2 DEF Gets
  <2>4. i \in X
    BY <1>1, <1>4, <2>1, <2>3, GotIs
  <2>. QED
    BY <1>8, <2>4
<1>. QED
  BY <1>8, <1>12, <1>13, <1>14, <1>15 DEF Counting

LEMMA UsageNamespaceCounts ==
  ASSUME TypeOK, Counted, TypeOK', UNCHANGED <<store, touched>>, UsageNamespace
  PROVE  Counting'
<1> DEFINE q == call.query
<1>0. PICK r : r = UsageRead(q.namespace)
  OBVIOUS
<1>1. /\ call.pc = "reading" /\ q.tool = "getResourceUsage" /\ Read.kind = "namespace"
      /\ Read.op = "get" /\ Read \in Range(call.todo)
  BY TodoIs DEF UsageNamespace, Reads
<1>2. Uncalled
  BY <1>1, AsksKinds DEF Counted, Counting
<1>3. Tail(call.todo) = <<>> /\ q.namespace # ""
  BY <1>1, <1>2, UncalledRead
<1>4. r \in Requests /\ <<r>> \in Seq(Requests)
  <2>1. q.namespace \in Strings
    BY DEF TypeOK, Queries
  <2>. QED
    BY <1>0, <2>1, UsageReadTyped, FewAreSequence
<1>5. /\ r.kind = "pod" /\ r.namespace = q.namespace
  BY <1>0, UsageRequests
<1>6. /\ call'.query = q /\ call'.todo = <<r>>
      /\ call'.project = "" /\ call'.spaces = {} /\ DOMAIN call'.totals = {}
  <2>1. Kept({}, <<r>>) /\ {} \in SUBSET Items
    BY <1>0 DEF UsageNamespace, Found
  <2>2. /\ call'.query = q /\ call'.todo = <<r>> \o Tail(call.todo)
        /\ call'.project = call.project /\ call'.spaces = call.spaces
        /\ call'.totals = call.totals
    BY <1>1, <1>4, <2>1, KeptIs
  <2>3. <<r>> \o <<>> = <<r>>
    BY <1>4, ConcatEmptySeq
  <2>. QED
    BY <1>2, <1>3, <2>2, <2>3 DEF Uncalled
<1>7. InTurn(call'.todo) /\ Range(call'.todo) = {r}
  BY <1>6, FewInTurn, FewAre
<1>8. UsageAsks(r)'
  <2>1. UsageRead(r.namespace)' = r
    BY <1>0, <1>5, <1>6, UsageSame
  <2>2. SpacesOf(call.project)' = {}
    BY <1>6 DEF SpacesOf
  <2>. QED
    BY <1>3, <1>5, <2>1, <2>2 DEF UsageAsks
<1>9. Totalled' /\ Sampled' /\ Housed' /\ Enlisted'
  BY <1>3, <1>5, <1>6, <1>7 DEF Totalled, Sampled, Housed, Enlisted
<1>. QED
  BY <1>7, <1>8, <1>9 DEF Counting


LEMMA SamplesKept ==
  ASSUME TypeOK, TypeOK', UNCHANGED <<store, touched>>, call'.query = call.query
  PROVE  /\ \A n : PodsTouched(n)' <=> PodsTouched(n)
         /\ \A s : SampleFits(s) => SampleFits(s)'
         /\ \A n : {[ref |-> p, data |-> store'[p]] : p \in PodsIn(n)'} = ItemsOf(PodsIn(n))
<1>1. \A n : PodsTouched(n)' <=> PodsTouched(n)
  BY DEF PodsTouched
<1>2. \A n : PodsSame(n)
  BY DEF PodsSame
<1>. QED
  BY <1>1, <1>2, SamplesSame

\* The sum of no samples.
LEMMA TotalOfNone == Total({}) = ZeroSample
<1>1. ASSUME NEW f \in [{} -> Nat] PROVE SumOf(f) = 0
  <2>1. IsFiniteSet({})
    BY FS_EmptySet
  <2>2. PICK g \in [SUBSET {} -> Nat] : SumsOf(f, g) /\ SumOf(f) = g[{}]
    BY <2>1, SumIsFold
  <2>3. g[{}] = 0
    BY <2>2 DEF SumsOf
  <2>. QED
    BY <2>2, <2>3
<1>2. /\ [s \in {} |-> s.sample.pods] \in [{} -> Nat]
      /\ [s \in {} |-> s.sample.requests] \in [{} -> Nat]
      /\ [s \in {} |-> s.sample.usage] \in [{} -> Nat]
  OBVIOUS
<1>. QED
  BY <1>1, <1>2 DEF Total, ZeroSample

\* A call that is counting, at its next request.
LEMMA CountingRead ==
  ASSUME TypeOK, Counting, call.pc = "reading"
  PROVE  /\ UsageAsks(Read) /\ Tail(call.todo) \in Seq(Requests)
         /\ Range(call.todo) = {Read} \cup Range(Tail(call.todo))
         /\ \A r \in Range(Tail(call.todo)) : UsageAsks(r) /\ After(Read, r)
         /\ InTurn(Tail(call.todo))
<1>1. /\ call.todo \in Seq(Requests) /\ call.todo # <<>>
      /\ Tail(call.todo) \in Seq(Requests)
  BY ReadTyped
<1>2. /\ Range(call.todo) = {Read} \cup Range(Tail(call.todo))
      /\ \A r \in Range(Tail(call.todo)) : After(Read, r)
      /\ InTurn(Tail(call.todo))
  BY <1>1, TurnsTail DEF Counting, Read
<1>. QED
  BY <1>1, <1>2 DEF Counting

LEMMA UsageNamespacesCount ==
  ASSUME TypeOK, Counted, TypeOK', UNCHANGED <<store, touched>>, UsageNamespaces
  PROVE  Counting'
<1> DEFINE q == call.query
<1>1. /\ call.pc = "reading" /\ q.tool = "getResourceUsage" /\ Read.kind = "namespace"
      /\ Read.op = "list"
  BY DEF UsageNamespaces, Reads
<1>2. Counting
  BY <1>1, UncalledRead DEF Counted
<1>3. /\ UsageAsks(Read) /\ Tail(call.todo) \in Seq(Requests)
      /\ Range(call.todo) = {Read} \cup Range(Tail(call.todo))
      /\ \A r \in Range(Tail(call.todo)) : UsageAsks(r) /\ After(Read, r)
      /\ InTurn(Tail(call.todo))
  BY <1>1, <1>2, CountingRead
<1>4. PICK p : p = Read.label
  OBVIOUS
<1>5. /\ Read = NamespacesRead(p) /\ q.namespace = "" /\ Read.namespace = ""
      /\ Read.cluster = q.cluster
      /\ p \notin {"", call.project} \cup DOMAIN call.totals \cup {s.project : s \in call.spaces}
  BY <1>1, <1>3, <1>4, AsksKinds
<1>6. PICK more : more = UsageReads(Got)
  OBVIOUS
<1>7. Got \in SUBSET Items /\ IsFiniteSet(Got)
  BY <1>1, GotIs
<1>8. /\ more \in Seq(Requests) /\ InTurn(more)
      /\ Range(more) = {UsageRead(i.ref.name) : i \in Got}
  BY <1>6, <1>7, PodsInTurn, UsageReadsAre
<1>9. /\ call'.query = q /\ call'.todo = more \o Tail(call.todo)
      /\ call'.project = p /\ call'.spaces = call.spaces
      /\ call'.totals = [o \in DOMAIN call.totals \cup {p} |->
                            IF o = p THEN ZeroSample ELSE call.totals[o]]
  BY <1>4, <1>6, UsageNamespacesTyped DEF CallGoesOn
<1>10. Range(call'.todo) = Range(more) \cup Range(Tail(call.todo))
  <2>1. more \in Seq(Requests) /\ Tail(call.todo) \in Seq(Requests)
    BY <1>3, <1>8
  <2>2. Range(more \o Tail(call.todo)) = Range(more) \cup Range(Tail(call.todo))
    BY <2>1, RangeConcatenation
  <2>. QED
    BY <1>9, <2>2
<1>11. \A r \in Range(Tail(call.todo)) :
         /\ r.kind = "namespace" /\ r.namespace = "" /\ r = NamespacesRead(r.label)
         /\ r.label # p
         /\ r.label \notin {"", call.project} \cup DOMAIN call.totals
                           \cup {s.project : s \in call.spaces}
  <2>1. ASSUME NEW r \in Range(Tail(call.todo))
        PROVE  /\ r.kind = "namespace" /\ r.namespace = "" /\ r = NamespacesRead(r.label)
               /\ r.label # p
               /\ r.label \notin {"", call.project} \cup DOMAIN call.totals
                                 \cup {s.project : s \in call.spaces}
    <3>1. UsageAsks(r) /\ r.kind = "namespace" /\ (r.namespace = "" => r.label # p)
      BY <1>1, <1>3, <1>4, <1>5 DEF After
    <3>. QED
      BY <3>1, AsksKinds
  <2>. QED
    BY <2>1
<1>12. \A r \in Range(more) :
         /\ r.kind = "pod" /\ r = UsageRead(r.namespace) /\ r.namespace # "" /\ r.label = ""
         /\ \E i \in Got : r.namespace = i.ref.name
  <2>1. ASSUME NEW i \in Got
        PROVE  LET r == UsageRead(i.ref.name) IN
               /\ r.kind = "pod" /\ r = UsageRead(r.namespace) /\ r.namespace # ""
               /\ r.label = "" /\ r.namespace = i.ref.name
    <3>1. PICK n : n = i.ref.name
      OBVIOUS
    <3>2. UsageRead(n).kind = "pod" /\ UsageRead(n).namespace = n /\ UsageRead(n).label = ""
      BY UsageRequests
    <3>3. n # ""
      BY <1>7, <3>1 DEF Items, References
    <3>. QED
      BY <3>1, <3>2, <3>3
  <2>. QED
    BY <1>8, <2>1
<1>13. \A n : NamespacesRead(n)' = NamespacesRead(n) /\ UsageRead(n)' = UsageRead(n)
  BY <1>9, UsageSame
<1>14. \A o : SpacesOf(o)' = SpacesOf(o)
  BY <1>9 DEF SpacesOf
<1>15. SpacesOf(p) = {}
  BY <1>5 DEF SpacesOf
<1>16. ASSUME NEW r \in Range(call'.todo) PROVE UsageAsks(r)'
  <2>1. CASE r \in Range(more)
    <3>1. (SpacesOf(call.project))' = {}
      BY <1>9, <1>14, <1>15 DEF SpacesOf
    <3>. QED
      BY <1>12, <1>13, <2>1, <3>1 DEF UsageAsks
  <2>2. CASE r \in Range(Tail(call.todo))
    <3>1. DOMAIN call'.totals = DOMAIN call.totals \cup {p}
      BY <1>9
    <3>2. r.label \notin {"", call'.project} \cup DOMAIN call'.totals
                        \cup {s.project : s \in call'.spaces}
      BY <1>9, <1>11, <2>2, <3>1
    <3>. QED
      BY <1>5, <1>9, <1>11, <1>13, <2>2, <3>2 DEF UsageAsks
  <2>. QED
    BY <1>10, <2>1, <2>2
<1>17. InTurn(call'.todo)
  <2>1. \A a \in Range(more), b \in Range(Tail(call.todo)) : After(a, b)
    BY <1>11, <1>12 DEF After
  <2>2. /\ more \in Seq(Requests) /\ Tail(call.todo) \in Seq(Requests)
        /\ InTurn(more) /\ InTurn(Tail(call.todo))
    BY <1>3, <1>8
  <2>3. InTurn(more \o Tail(call.todo))
    BY <2>1, <2>2, TurnsOn
  <2>. QED
    BY <1>9, <2>3
<1>18. Totalled'
  <2>1. ASSUME NEW o \in DOMAIN call'.totals PROVE call'.totals[o] = Total(SpacesOf(o))
    <3>1. CASE o = p
      BY <1>9, <1>15, <3>1, TotalOfNone
    <3>2. CASE o # p
      BY <1>2, <1>9, <3>2 DEF Counting, Totalled
    <3>. QED
      BY <3>1, <3>2
  <2>. QED
    BY <1>5, <1>9, <1>14, <2>1 DEF Totalled
<1>19. Uncounted = {} /\ \A n : n \in Uncounted' <=> \E i \in Got : n = i.ref.name
  <2>1. \A n : n \in Uncounted' <=> n # "" /\ \E r \in Range(call'.todo) : n = r.namespace
    BY DEF Uncounted
  <2>2. \A i \in Got : i.ref.name # "" /\ UsageRead(i.ref.name) \in Range(more)
    BY <1>7, <1>8 DEF Items, References
  <2>3. \A n : UsageRead(n).namespace = n
    BY UsageRequests
  <2>4. \A i \in Got : \E r \in Range(call'.todo) : i.ref.name = r.namespace
    <3>1. ASSUME NEW i \in Got PROVE \E r \in Range(call'.todo) : i.ref.name = r.namespace
      <4>1. UsageRead(i.ref.name).namespace = i.ref.name
        BY <2>3
      <4>2. UsageRead(i.ref.name) \in Range(call'.todo)
        BY <1>10, <2>2
      <4>. QED
        BY <4>1, <4>2
    <3>. QED
      BY <3>1
  <2>5. Uncounted = {}
    BY <1>3, <1>5, <1>11 DEF Uncounted
  <2>. QED
    <3>1. ASSUME NEW n, n \in Uncounted' PROVE \E i \in Got : n = i.ref.name
      <4>1. PICK r \in Range(call'.todo) : n # "" /\ n = r.namespace
        BY <2>1, <3>1
      <4>2. r \in Range(more)
        BY <1>10, <1>11, <4>1
      <4>. QED
        BY <1>12, <4>1, <4>2
    <3>2. ASSUME NEW i \in Got PROVE i.ref.name \in Uncounted'
      BY <2>1, <2>2, <2>4
    <3>. QED
      BY <2>5, <3>1, <3>2
<1>20. Housed'
  <2>1. SUFFICES ASSUME NEW r \in DOMAIN store \ touched,
                        r.cluster = q.cluster, r.kind = "namespace"
                 PROVE  /\ r.name \in Uncounted' => p = store[r].label
                        /\ store[r].label \in DOMAIN call'.totals =>
                             r.name \in Uncounted' \cup {s.namespace : s \in SpacesOf(store[r].label)}
    <3>1. \A s, t \in call'.spaces : s.project = t.project /\ s.namespace = t.namespace => s = t
      BY <1>2, <1>9 DEF Counting, Housed
    <3>2. /\ call'.query = q /\ call'.project = p /\ call'.spaces = call.spaces
          /\ store' = store /\ touched' = touched
      BY <1>9
    <3>3. ASSUME NEW r \in DOMAIN store' \ touched',
                 r.cluster = call'.query.cluster, r.kind = "namespace"
          PROVE  /\ r.name \in Uncounted' => call'.project = store'[r].label
                 /\ \A s \in call'.spaces : s.namespace = r.name => s.project = store'[r].label
                 /\ store'[r].label \in DOMAIN call'.totals =>
                      r.name \in Uncounted' \cup
                        {s.namespace : s \in {t \in call'.spaces : t.project = store'[r].label}}
      <4>1. r \in DOMAIN store \ touched /\ r.cluster = q.cluster
        BY <3>2, <3>3
      <4>2. \A s \in call.spaces : s.namespace = r.name => s.project = store[r].label
        BY <1>2, <1>5, <3>3, <4>1 DEF Counting, Housed
      <4>3. /\ r.name \in Uncounted' => p = store[r].label
            /\ store[r].label \in DOMAIN call'.totals =>
                 r.name \in Uncounted' \cup {s.namespace : s \in SpacesOf(store[r].label)}
        BY <2>1, <3>3, <4>1
      <4>. QED
        BY <3>2, <4>2, <4>3 DEF SpacesOf
    <3>. QED
      BY <3>1, <3>3 DEF Housed, SpacesOf
  <2>2. r \in References /\ r.namespace = ""
    <3>1. r \in References
      BY DEF TypeOK
    <3>. QED
      BY <2>1, <3>1 DEF References
  <2>3. r.name \in Uncounted' => p = store[r].label
    <3>1. SUFFICES ASSUME NEW i \in Got, r.name = i.ref.name PROVE p = store[r].label
      BY <1>19
    <3>2. /\ Gets(Read, i) /\ store[[i.ref EXCEPT !.kind = Served(@)]] = i.data
          /\ i.ref \in References
      BY <1>1, <1>7, GotIs DEF Items
    <3>3. i.ref.kind = "namespace" /\ i.ref.cluster = q.cluster /\ i.data.label = p
      BY <1>1, <1>4, <1>5, <3>2 DEF Gets
    <3>4. i.ref = r
      BY <2>1, <2>2, <3>1, <3>2, <3>3, SameReference DEF References
    <3>5. [i.ref EXCEPT !.kind = Served(@)] = r
      BY <2>1, <2>2, <3>4 DEF Served, References
    <3>. QED
      BY <3>2, <3>3, <3>5
  <2>4. ASSUME store[r].label = p PROVE r.name \in Uncounted'
    <3> DEFINE i == [ref |-> r, data |-> store[r]]
    <3>1. Gets(Read, i)
      BY <1>1, <1>4, <1>5, <2>1, <2>4 DEF Gets
    <3>2. i \in Got
      BY <1>1, <2>1, <3>1, GotIs
    <3>. QED
      BY <1>19, <3>2
  <2>5. ASSUME store[r].label \in DOMAIN call.totals
        PROVE  r.name \in {s.namespace : s \in SpacesOf(store[r].label)}
    BY <1>2, <1>5, <1>19, <2>1, <2>5 DEF Counting, Housed
  <2>. QED
    BY <1>9, <2>3, <2>4, <2>5
<1>21. Enlisted'
  <2>1. SUFFICES ASSUME NEW n, n \in DOMAIN call.totals \/ NamespacesRead(n) \in Range(call.todo)
                 PROVE  n \in DOMAIN call'.totals \/ NamespacesRead(n) \in Range(call'.todo)
    BY <1>2, <1>9, <1>13 DEF Counting, Enlisted
  <2>2. NamespacesRead(n).label = n
    BY UsageRequests
  <2>. QED
    BY <1>3, <1>4, <1>9, <1>10, <2>1, <2>2
<1>22. Sampled'
  <2>1. \A r \in Range(call'.todo) : r.kind # "podmetrics"
    BY <1>10, <1>11, <1>12
  <2>. QED
    BY <1>2, <1>9, <2>1, SamplesKept DEF Counting, Sampled
<1>. QED
  BY <1>16, <1>17, <1>18, <1>20, <1>21, <1>22 DEF Counting


\* The pods, or their metrics, are asked for when the call is counting.
LEMMA PodsWhileCounting ==
  ASSUME TypeOK, Counted, call.pc = "reading", call.query.tool = "getResourceUsage",
         Read.kind \in {"pod", "podmetrics"}
  PROVE  Counting
<1>1. CASE Uncalled
  BY <1>1, UncalledRead
<1>. QED
  BY <1>1 DEF Counted

LEMMA UsagePodsCount ==
  ASSUME TypeOK, Counted, TypeOK', UNCHANGED <<store, touched>>, UsagePods
  PROVE  Counting'
<1> DEFINE q == call.query
           rest == Tail(call.todo)
<1>1. /\ call.pc = "reading" /\ q.tool = "getResourceUsage" /\ Read.kind = "pod"
  BY DEF UsagePods, Reads
<1>2. Counting
  BY <1>1, PodsWhileCounting
<1>3. /\ UsageAsks(Read) /\ rest \in Seq(Requests)
      /\ Range(call.todo) = {Read} \cup Range(rest)
      /\ \A r \in Range(rest) : UsageAsks(r) /\ After(Read, r)
      /\ InTurn(rest)
  BY <1>1, <1>2, CountingRead
<1>4. PICK n : n = Read.namespace
  OBVIOUS
<1>5. /\ Read = UsageRead(n) /\ Read.label = ""
      /\ n \notin {""} \cup {s.namespace : s \in SpacesOf(call.project)}
  BY <1>1, <1>3, <1>4, AsksKinds
<1>6. PICK m : m = MetricsRead(n)
  OBVIOUS
<1>7. m.kind = "podmetrics" /\ m.namespace = n /\ m.label = "" /\ m = MetricsRead(m.namespace)
  BY <1>6, UsageRequests
<1>8. /\ call'.query = q /\ call'.todo = <<m>> \o rest /\ call'.pods = Got
      /\ call'.project = call.project /\ call'.spaces = call.spaces
      /\ call'.totals = call.totals
  BY <1>4, <1>6, UsagePodsTyped DEF CallGoesOn
<1>9. m \in Requests /\ <<m>> \in Seq(Requests)
  <2>1. n \in Strings /\ q.cluster \in Strings
    BY <1>1, <1>4, ReadTyped DEF TypeOK, Queries
  <2>2. m \in Requests
    BY <1>6, <2>1, WordsAreStrings, ListTyped DEF MetricsRead, Missing
  <2>. QED
    BY <2>2, FewAreSequence
<1> HIDE DEF rest
<1>10. Range(call'.todo) = {m} \cup Range(rest)
  <2>1. Range(<<m>> \o rest) = Range(<<m>>) \cup Range(rest)
    <3>1. <<m>> \in Seq(Requests) /\ rest \in Seq(Requests)
      BY <1>3, <1>9
    <3>. QED
      BY <3>1, RangeConcatenation
  <2>2. Range(<<m>>) = {m}
    BY FewAre
  <2>. QED
    BY <1>8, <2>1, <2>2
<1>11. \A o : NamespacesRead(o)' = NamespacesRead(o) /\ UsageRead(o)' = UsageRead(o)
              /\ MetricsRead(o)' = MetricsRead(o)
  BY <1>8, UsageSame
<1>12. (SpacesOf(call.project))' = SpacesOf(call.project)
  BY <1>8 DEF SpacesOf
<1>13. ASSUME NEW r \in Range(call'.todo) PROVE UsageAsks(r)'
  <2>1. CASE r = m
    BY <1>5, <1>7, <1>11, <1>12, <2>1 DEF UsageAsks
  <2>2. CASE r \in Range(rest)
    <3>1. UsageAsks(r)
      BY <1>3, <2>2
    <3>. QED
      BY <1>8, <1>11, <1>12, <3>1 DEF UsageAsks
  <2>. QED
    BY <1>10, <2>1, <2>2
<1>14. InTurn(call'.todo)
  <2>1. \A r \in Range(rest) : After(m, r)
    BY <1>3, <1>4, <1>5, <1>7 DEF After
  <2>2. Range(<<m>>) = {m} /\ InTurn(<<m>>)
    BY FewAre, FewInTurn
  <2>3. \A a \in Range(<<m>>), b \in Range(rest) : After(a, b)
    BY <2>1, <2>2
  <2>4. <<m>> \in Seq(Requests) /\ rest \in Seq(Requests) /\ InTurn(rest)
    BY <1>3, <1>9
  <2>5. InTurn(<<m>> \o rest)
    BY <2>2, <2>3, <2>4, TurnsOn
  <2>. QED
    BY <1>8, <2>5
<1>15. Totalled'
  BY <1>2, <1>8 DEF Counting, Totalled, SpacesOf
<1>16. Uncounted' = Uncounted
  BY <1>3, <1>4, <1>7, <1>10 DEF Uncounted
<1>17. Housed'
  BY <1>2, <1>8, <1>16 DEF Counting, Housed, SpacesOf
<1>18. Enlisted'
  <2>1. \A o : NamespacesRead(o) # Read
    <3>1. \A o : NamespacesRead(o).kind = "namespace"
      BY UsageRequests
    <3>. QED
      BY <1>1, <3>1
  <2>2. \A o : NamespacesRead(o) \in Range(call.todo) => NamespacesRead(o) \in Range(call'.todo)
    BY <1>3, <1>10, <2>1
  <2>. QED
    BY <1>2, <1>8, <1>11, <2>2 DEF Counting, Enlisted
<1>19. Sampled'
  <2>1. \A r \in Range(rest) : r.kind # "podmetrics"
    BY <1>3 DEF After
  <2>2. Got = ItemsOf(PodsIn(n))
    BY <1>5, GotOfNamespace
  <2>3. /\ \A o : PodsTouched(o)' <=> PodsTouched(o)
        /\ \A s : SampleFits(s) => SampleFits(s)'
        /\ {[ref |-> p, data |-> store'[p]] : p \in PodsIn(n)'} = ItemsOf(PodsIn(n))
    BY <1>8, SamplesKept
  <2>4. \A r \in Range(call'.todo) : r.kind = "podmetrics" => r.namespace = n
    BY <1>7, <1>10, <2>1
  <2>5. call'.pods = {[ref |-> p, data |-> store'[p]] : p \in PodsIn(n)'}
    BY <1>8, <2>2, <2>3
  <2>. QED
    BY <1>2, <1>8, <2>3, <2>4, <2>5 DEF Counting, Sampled
<1>. QED
  BY <1>13, <1>14, <1>15, <1>17, <1>18, <1>19 DEF Counting


\* A sum of samples with one more of them.
LEMMA TotalOneMore ==
  ASSUME NEW S \in SUBSET Spaces, IsFiniteSet(S), NEW s \in Spaces, s \notin S
  PROVE  Total(S \cup {s}) = Plus(Total(S), s.sample)
<1> DEFINE T == S \cup {s}
<1>1. \A x \in T : x.sample.pods \in Nat /\ x.sample.requests \in Nat /\ x.sample.usage \in Nat
  BY DEF Spaces, Samples
<1>2. /\ [x \in T |-> x.sample.pods] \in [T -> Nat]
      /\ [x \in T |-> x.sample.requests] \in [T -> Nat]
      /\ [x \in T |-> x.sample.usage] \in [T -> Nat]
  BY <1>1
<1>3. ASSUME NEW f \in [T -> Nat]
      PROVE  SumOf(f) = SumOf([x \in S |-> f[x]]) + f[s]
  BY <1>3, SumOneMore
<1>4. SumOf([x \in T |-> x.sample.pods]) = SumOf([x \in S |-> x.sample.pods]) + s.sample.pods
  <2> DEFINE f == [x \in T |-> x.sample.pods]
  <2>1. f[s] = s.sample.pods /\ [x \in S |-> f[x]] = [x \in S |-> x.sample.pods]
    OBVIOUS
  <2>2. SumOf(f) = SumOf([x \in S |-> f[x]]) + f[s]
    BY <1>2, <1>3
  <2>. QED
    BY <2>1, <2>2
<1>5. SumOf([x \in T |-> x.sample.requests]) =
        SumOf([x \in S |-> x.sample.requests]) + s.sample.requests
  <2> DEFINE f == [x \in T |-> x.sample.requests]
  <2>1. f[s] = s.sample.requests /\ [x \in S |-> f[x]] = [x \in S |-> x.sample.requests]
    OBVIOUS
  <2>2. SumOf(f) = SumOf([x \in S |-> f[x]]) + f[s]
    BY <1>2, <1>3
  <2>. QED
    BY <2>1, <2>2
<1>6. SumOf([x \in T |-> x.sample.usage]) = SumOf([x \in S |-> x.sample.usage]) + s.sample.usage
  <2> DEFINE f == [x \in T |-> x.sample.usage]
  <2>1. f[s] = s.sample.usage /\ [x \in S |-> f[x]] = [x \in S |-> x.sample.usage]
    OBVIOUS
  <2>2. SumOf(f) = SumOf([x \in S |-> f[x]]) + f[s]
    BY <1>2, <1>3
  <2>. QED
    BY <2>1, <2>2
<1>. QED
  BY <1>4, <1>5, <1>6 DEF Total, Plus

LEMMA UsageMetricsCount ==
  ASSUME TypeOK, Counted, TypeOK', UNCHANGED <<store, touched>>, UsageMetrics
  PROVE  Counting'
<1> DEFINE q == call.query
           rest == Tail(call.todo)
<1>1. /\ call.pc = "reading" /\ q.tool = "getResourceUsage" /\ Read.kind = "podmetrics"
  BY DEF UsageMetrics, Reads
<1>2. Counting
  BY <1>1, PodsWhileCounting
<1>3. /\ UsageAsks(Read) /\ rest \in Seq(Requests)
      /\ Range(call.todo) = {Read} \cup Range(rest)
      /\ \A r \in Range(rest) : UsageAsks(r) /\ After(Read, r)
      /\ InTurn(rest)
  BY <1>1, <1>2, CountingRead
<1>4. PICK n : n = Read.namespace
  OBVIOUS
<1>5. /\ Read = MetricsRead(n) /\ Read.label = "" /\ n # ""
      /\ n \notin {s.namespace : s \in SpacesOf(call.project)}
  BY <1>1, <1>3, <1>4, AsksKinds
<1>6. PICK metrics \in {{}} \cup (IF Answers THEN {Got} ELSE {}) :
         /\ Sample(call.pods, metrics) \in Samples
         /\ call'.spaces = call.spaces \cup
              {[project |-> call.project, namespace |-> n, sample |-> Sample(call.pods, metrics)]}
         /\ call'.totals = [p \in DOMAIN call.totals |->
                              IF p = call.project THEN Plus(call.totals[p], Sample(call.pods, metrics))
                              ELSE call.totals[p]]
  BY <1>4, UsageMetricsTyped
<1>7. PICK new :
         new = [project |-> call.project, namespace |-> n, sample |-> Sample(call.pods, metrics)]
  OBVIOUS
<1>8. /\ new = [project |-> call.project, namespace |-> n, sample |-> Sample(call.pods, metrics)]
      /\ new.sample \in Samples
      /\ call'.spaces = call.spaces \cup {new}
      /\ call'.totals = [p \in DOMAIN call.totals |->
                           IF p = call.project THEN Plus(call.totals[p], new.sample)
                           ELSE call.totals[p]]
  BY <1>6, <1>7
<1>9. call'.query = q /\ call'.todo = rest /\ call'.project = call.project
  BY UsageMetricsTyped DEF CallGoesOn
<1> HIDE DEF rest
<1>10. /\ new.project = call.project /\ new.namespace = n /\ new.sample = Sample(call.pods, metrics)
      /\ new \in Spaces /\ new \notin call.spaces
  <2>1. call.project \in Strings /\ n \in Strings
    BY <1>1, <1>4, ReadTyped DEF TypeOK
  <2>2. new.project = call.project /\ new.namespace = n /\ new.sample = Sample(call.pods, metrics)
    BY <1>8
  <2>. QED
    BY <1>5, <1>8, <2>1, <2>2 DEF Spaces, SpacesOf
<1>11. \A o : NamespacesRead(o)' = NamespacesRead(o) /\ UsageRead(o)' = UsageRead(o)
             /\ MetricsRead(o)' = MetricsRead(o)
  BY <1>9, UsageSame
<1>12. DOMAIN call'.totals = DOMAIN call.totals
  BY <1>8
<1>13. ASSUME NEW r \in Range(call'.todo) PROVE UsageAsks(r)'
  <2>1. UsageAsks(r) /\ After(Read, r)
    BY <1>3, <1>9
  <2>2. CASE /\ r = NamespacesRead(r.label) /\ q.namespace = ""
             /\ r.label \notin {"", call.project} \cup DOMAIN call.totals
                               \cup {s.project : s \in call.spaces}
    <3>1. r.label \notin {"", call'.project} \cup DOMAIN call'.totals
                        \cup {s.project : s \in call'.spaces}
      BY <1>8, <1>9, <1>10, <1>12, <2>2
    <3>. QED
      BY <1>9, <1>11, <2>2, <3>1 DEF UsageAsks
  <2>3. CASE /\ r \in {UsageRead(r.namespace), MetricsRead(r.namespace)} /\ r.label = ""
             /\ r.namespace \notin {""} \cup {s.namespace : s \in SpacesOf(call.project)}
    <3>1. r.namespace # n
      BY <1>4, <1>5, <2>1, <2>3 DEF After
    <3>2. (SpacesOf(call.project))' = {s \in call.spaces \cup {new} : s.project = call.project}
      BY <1>8, <1>9 DEF SpacesOf
    <3>3. r.namespace \notin {""} \cup {s.namespace : s \in SpacesOf(call.project)'}
      BY <1>10, <2>3, <3>1, <3>2 DEF SpacesOf
    <3>. QED
      BY <1>11, <2>3, <3>3 DEF UsageAsks
  <2>. QED
    BY <2>1, <2>2, <2>3, AsksKinds
<1>14. InTurn(call'.todo)
  BY <1>3, <1>9
<1>15. Totalled'
  <2>1. ASSUME NEW p \in DOMAIN call'.totals
        PROVE  call'.totals[p] = Total({s \in call'.spaces : s.project = p})
    <3>1. call.totals[p] = Total(SpacesOf(p))
      BY <1>2, <1>12 DEF Counting, Totalled
    <3>2. CASE p = call.project
      <4>1. {s \in call'.spaces : s.project = p} = SpacesOf(p) \cup {new}
        BY <1>8, <1>10, <3>2 DEF SpacesOf
      <4>2. SpacesOf(p) \in SUBSET Spaces /\ IsFiniteSet(SpacesOf(p)) /\ new \notin SpacesOf(p)
        <5>1. SpacesOf(p) \in SUBSET call.spaces
          BY DEF SpacesOf
        <5>. QED
          BY <1>10, <5>1, FS_Subset DEF TypeOK
      <4>3. Total(SpacesOf(p) \cup {new}) = Plus(Total(SpacesOf(p)), new.sample)
        BY <1>10, <4>2, TotalOneMore
      <4>. QED
        BY <1>8, <1>12, <3>1, <3>2, <4>1, <4>3
    <3>3. CASE p # call.project
      <4>1. {s \in call'.spaces : s.project = p} = SpacesOf(p)
        BY <1>8, <1>10, <3>3 DEF SpacesOf
      <4>. QED
        BY <1>8, <1>12, <3>1, <3>3, <4>1
    <3>. QED
      BY <3>2, <3>3
  <2>2. q.namespace # "" => DOMAIN call'.totals = {}
    BY <1>2, <1>12 DEF Counting, Totalled
  <2>. QED
    BY <1>9, <2>1, <2>2 DEF Totalled, SpacesOf
<1>16. Uncounted = Uncounted' \cup {n}
  BY <1>3, <1>4, <1>5, <1>9 DEF Uncounted
<1>17. Housed'
  <2>1. \A s, t \in call'.spaces : s.project = t.project /\ s.namespace = t.namespace => s = t
    <3>1. \A s \in call.spaces : ~(s.project = new.project /\ s.namespace = new.namespace)
      BY <1>5, <1>10 DEF SpacesOf
    <3>2. \A s, t \in call.spaces : s.project = t.project /\ s.namespace = t.namespace => s = t
      BY <1>2 DEF Counting, Housed
    <3>. QED
      BY <1>8, <3>1, <3>2
  <2>2. SUFFICES ASSUME q.namespace = "", NEW r \in DOMAIN store \ touched,
                        r.cluster = q.cluster, r.kind = "namespace"
                 PROVE  /\ r.name \in Uncounted' => call.project = store[r].label
                        /\ \A s \in call'.spaces : s.namespace = r.name => s.project = store[r].label
                        /\ store[r].label \in DOMAIN call'.totals =>
                             r.name \in Uncounted' \cup
                               {s.namespace : s \in {t \in call'.spaces : t.project = store[r].label}}
    BY <1>9, <2>1 DEF Housed, SpacesOf
  <2>3. /\ r.name \in Uncounted => call.project = store[r].label
        /\ \A s \in call.spaces : s.namespace = r.name => s.project = store[r].label
        /\ store[r].label \in DOMAIN call.totals =>
             r.name \in Uncounted \cup
               {s.namespace : s \in {t \in call.spaces : t.project = store[r].label}}
    BY <1>2, <2>2 DEF Counting, Housed, SpacesOf
  <2>4. \A s \in call'.spaces : s.namespace = r.name => s.project = store[r].label
    BY <1>8, <1>10, <1>16, <2>3
  <2>5. ASSUME store[r].label \in DOMAIN call.totals
        PROVE  r.name \in Uncounted' \cup
                 {s.namespace : s \in {t \in call'.spaces : t.project = store[r].label}}
    <3>1. CASE r.name = n
      BY <1>8, <1>10, <1>16, <2>3, <3>1
    <3>2. CASE r.name # n
      BY <1>8, <1>16, <2>3, <2>5, <3>2
    <3>. QED
      BY <3>1, <3>2
  <2>. QED
    BY <1>12, <1>16, <2>3, <2>4, <2>5
<1>18. Enlisted'
  <2>1. \A o : NamespacesRead(o) # Read
    <3>1. \A o : NamespacesRead(o).kind = "namespace"
      BY UsageRequests
    <3>. QED
      BY <1>1, <3>1
  <2>2. \A o : NamespacesRead(o) \in Range(call.todo) => NamespacesRead(o) \in Range(call'.todo)
    BY <1>3, <1>9, <2>1
  <2>. QED
    BY <1>2, <1>9, <1>11, <1>12, <2>2 DEF Counting, Enlisted
<1>19. Sampled'
  <2>1. \A r \in Range(call'.todo) : r.kind # "podmetrics"
    BY <1>3, <1>9 DEF After
  <2>2. /\ \A o : PodsTouched(o)' <=> PodsTouched(o)
        /\ \A s : SampleFits(s) => SampleFits(s)'
    BY <1>9, SamplesKept
  <2>3. \A s \in call.spaces : ~PodsTouched(s.namespace) => SampleFits(s)
    BY <1>2 DEF Counting, Sampled
  <2>4. ~PodsTouched(n) => SampleFits(new)
    <3>1. SUFFICES ASSUME ~PodsTouched(n) PROVE SampleFits(new)
      OBVIOUS
    <3>2. call.pods = ItemsOf(PodsIn(n))
      BY <1>1, <1>2, <1>3, <1>4, <3>1 DEF Counting, Sampled, ItemsOf
    <3>3. Got = ItemsOf(MetricsIn(n))
      BY <1>5, GotOfNamespace
    <3>4. metrics \in {{}, ItemsOf(MetricsIn(n))}
      BY <3>3
    <3>. QED
      BY <1>10, <3>2, <3>4, SampleIsFit
  <2>5. \A s \in call'.spaces : ~PodsTouched(s.namespace)' => SampleFits(s)'
    <3>1. ASSUME NEW s \in call'.spaces, ~PodsTouched(s.namespace) PROVE SampleFits(s)'
      <4>1. SampleFits(s)
        BY <1>8, <1>10, <2>3, <2>4, <3>1
      <4>. QED
        BY <2>2, <4>1
    <3>. QED
      BY <2>2, <3>1
  <2>. QED
    BY <2>1, <2>5 DEF Sampled
<1>. QED
  BY <1>13, <1>14, <1>15, <1>17, <1>18, <1>19 DEF Counting


\* Changes by others are of what is not counted on.
LEMMA CountingStays ==
  ASSUME TypeOK, TypeOK', Counting, call' = call, touched \subseteq touched',
         \A r \in References \ touched' :
           /\ r \in DOMAIN store' <=> r \in DOMAIN store
           /\ r \in DOMAIN store => store'[r] = store[r]
  PROVE  Counting'
<1>1. DOMAIN store \subseteq References /\ DOMAIN store' \subseteq References
  BY DEF TypeOK
<1>2. \A r \in DOMAIN store' \ touched' : r \in DOMAIN store \ touched /\ store'[r] = store[r]
  BY <1>1
<1>3. \A o : NamespacesRead(o)' = NamespacesRead(o) /\ UsageRead(o)' = UsageRead(o)
             /\ MetricsRead(o)' = MetricsRead(o)
  BY UsageSame
<1>4. \A r : UsageAsks(r) => UsageAsks(r)'
  BY <1>3 DEF UsageAsks, SpacesOf
<1>5. Totalled' /\ InTurn(call'.todo) /\ \A r \in Range(call'.todo) : UsageAsks(r)'
  BY <1>4 DEF Counting, Totalled, SpacesOf
<1>6. Uncounted' = Uncounted
  BY DEF Uncounted
<1>7. Housed'
  <2>1. \A s, t \in call.spaces : s.project = t.project /\ s.namespace = t.namespace => s = t
    BY DEF Counting, Housed
  <2>2. ASSUME call.query.namespace = "", NEW r \in DOMAIN store' \ touched',
               r.cluster = call.query.cluster, r.kind = "namespace"
        PROVE  /\ r.name \in Uncounted => call.project = store'[r].label
               /\ \A s \in call.spaces : s.namespace = r.name => s.project = store'[r].label
               /\ store'[r].label \in DOMAIN call.totals =>
                    r.name \in Uncounted \cup
                      {s.namespace : s \in {t \in call.spaces : t.project = store'[r].label}}
    <3>1. r \in DOMAIN store \ touched /\ store'[r] = store[r]
      BY <1>2
    <3>2. /\ r.name \in Uncounted => call.project = store[r].label
          /\ \A s \in call.spaces : s.namespace = r.name => s.project = store[r].label
          /\ store[r].label \in DOMAIN call.totals =>
               r.name \in Uncounted \cup {s.namespace : s \in SpacesOf(store[r].label)}
      BY <2>2, <3>1 DEF Counting, Housed
    <3>. QED
      BY <3>1, <3>2 DEF SpacesOf
  <2>. QED
    BY <1>6, <2>1, <2>2 DEF Housed, SpacesOf
<1>8. Enlisted'
  BY <1>2, <1>3 DEF Counting, Enlisted
<1>9. Sampled'
  <2>1. ASSUME NEW n, ~PodsTouched(n)'
        PROVE  /\ ~PodsTouched(n) /\ \A s : s.namespace = n /\ SampleFits(s) => SampleFits(s)'
               /\ {[ref |-> p, data |-> store'[p]] : p \in PodsIn(n)'} = ItemsOf(PodsIn(n))
    <3>1. ~PodsTouched(n)
      BY <2>1 DEF PodsTouched
    <3>2. PodsSame(n)
      BY <2>1 DEF PodsTouched, PodsSame
    <3>. QED
      BY <3>1, <3>2, SamplesSame
  <2>2. \A s \in call.spaces : ~PodsTouched(s.namespace) => SampleFits(s)
    BY DEF Counting, Sampled
  <2>3. \A s \in call.spaces : ~PodsTouched(s.namespace)' => SampleFits(s)'
    BY <2>1, <2>2
  <2>4. \A r \in Range(call.todo) : r.kind = "podmetrics" /\ ~PodsTouched(r.namespace) =>
                                   call.pods = ItemsOf(PodsIn(r.namespace))
    BY DEF Counting, Sampled, ItemsOf
  <2>5. \A r \in Range(call.todo) :
          r.kind = "podmetrics" /\ ~PodsTouched(r.namespace)' =>
            call.pods = {[ref |-> p, data |-> store'[p]] : p \in PodsIn(r.namespace)'}
    BY <2>1, <2>4
  <2>. QED
    BY <2>3, <2>5 DEF Sampled
<1>. QED
  BY <1>5, <1>7, <1>8, <1>9 DEF Counting

LEMMA CountedStays ==
  ASSUME TypeOK, TypeOK', Counted, OthersWrite \/ UNCHANGED vars
  PROVE  Counted'
<1>1. /\ call' = call /\ touched \subseteq touched'
      /\ \A r \in References \ touched' :
           /\ r \in DOMAIN store' <=> r \in DOMAIN store
           /\ r \in DOMAIN store => store'[r] = store[r]
  <2>1. CASE OthersWrite
    BY <2>1, OthersChange
  <2>2. CASE UNCHANGED vars
    BY <2>2 DEF vars
  <2>. QED
    BY <2>1, <2>2
<1>2. Counting => Counting'
  BY <1>1, CountingStays
<1>3. Uncalled => Uncalled'
  BY <1>1 DEF Uncalled
<1>. QED
  BY <1>1, <1>2, <1>3 DEF Counted

\* A project that is not found by its ID is looked for among all.
LEMMA RefusalsCount ==
  ASSUME TypeOK, Asked, Counted, NotFound \/ Refused \/ NoProject,
         call.query.tool = "getResourceUsage"
  PROVE  Counted'
<1>1. call.pc = "reading" /\ call.found \in SUBSET Items
  BY DEF NotFound, Refused, NoProject, TypeOK
<1>2. CASE call' = Failed
  BY <1>2, FailedTyped DEF Counted
<1>3. CASE Absent /\ call' # Failed /\ NotFound
  <2>1. Read.op = "get"
    BY <1>3 DEF Absent
  <2>2. Uncalled
    <3>1. Counting => FALSE
      BY <1>1, <2>1, CountingRead, AsksKinds
    <3>. QED
      BY <1>1, <3>1 DEF Counted
  <2>3. /\ Tail(call.todo) = <<>> /\ Read.missing \in {"fail", "search"}
        /\ Read.missing = "search" => call.query.namespace = ""
    <3>1. /\ Get(call.query.cluster, "namespace", "", call.query.namespace, "fail").missing = "fail"
          /\ Get("local", "project", call.query.cluster, call.query.name, "search").missing = "search"
          /\ List("local", "project", call.query.cluster, "", "fail").missing = "fail"
      BY DEF List, Get
    <3>. QED
      BY <1>1, <2>2, <3>1, UncalledRead
  <2>4. Read.missing = "search" /\ Kept(call.found, AllProjects(call.query))
    BY <1>3, <2>3 DEF NotFound
  <2>5. AllProjects(call.query) \in Seq(Requests)
    <3>1. List("local", "project", call.query.cluster, "", "fail") \in Requests
      BY ListTyped, WordsAreStrings DEF TypeOK, Queries, Missing
    <3>. QED
      BY <3>1, FewAreSequence DEF AllProjects
  <2>6. /\ call'.query = call.query /\ call'.todo = AllProjects(call.query)
        /\ call'.project = call.project /\ call'.spaces = call.spaces
        /\ call'.totals = call.totals
    BY <1>1, <2>3, <2>4, <2>5, KeptIs, ConcatEmptySeq
  <2>7. Uncalled'
    BY <2>2, <2>3, <2>4, <2>6 DEF Uncalled
  <2>. QED
    BY <2>7 DEF Counted
<1>4. CASE Refused /\ call' # Failed
  BY <1>4 DEF Refused
<1>. QED
  BY <1>2, <1>3, <1>4 DEF NotFound, NoProject

LEMMA StepCounts ==
  ASSUME TypeOK, Ordered, Asked, PanicsOnlyOnOverflow, Counted, TypeOK', Step
  PROVE  Counted'
<1>1. UNCHANGED <<store, touched>> /\ call'.query = call.query
  BY ToolsStepTyped DEF Step
<1>2. CASE call.query.tool # "getResourceUsage"
  BY <1>1, <1>2 DEF Counted
<1>3. CASE call.query.tool = "getResourceUsage"
  <2>1. CASE UsageProjects
    BY <1>1, <2>1, UsageProjectsCount DEF Counted
  <2>2. CASE UsageNamespace
    BY <1>1, <2>2, UsageNamespaceCounts DEF Counted
  <2>3. CASE UsageNamespaces
    BY <1>1, <2>3, UsageNamespacesCount DEF Counted
  <2>4. CASE UsagePods
    BY <1>1, <2>4, UsagePodsCount DEF Counted
  <2>5. CASE UsageMetrics
    BY <1>1, <2>5, UsageMetricsCount DEF Counted
  <2>6. CASE NotFound \/ Refused \/ NoProject
    BY <1>3, <2>6, RefusalsCount
  <2>7. CASE \/ AnalyzeCluster \/ AnalyzeClusterMachines \/ GetClusterMachine
             \/ InspectPod \/ GetDeploymentDetails \/ GetNodes
             \/ GetClusterImages \/ GetK3kClusters \/ GetProject \/ ListProjects
             \/ GetUser \/ ListClusterRoleTemplateBindings \/ ListProjectRoleTemplateBindings
             \/ ReadOnce \/ ListKubernetesResources \/ NextPage
    BY <1>3, <2>7 DEF AnalyzeCluster, AnalyzeClusterMachines, GetClusterMachine, InspectPod,
         GetDeploymentDetails, GetNodes, GetClusterImages, GetK3kClusters, GetProject,
         ListProjects, GetUser, ListClusterRoleTemplateBindings,
         ListProjectRoleTemplateBindings, ReadOnce, ListKubernetesResources, NextPage,
         Reads, OneReadTools, Ordered
  <2>. QED
    BY <2>1, <2>2, <2>3, <2>4, <2>5, <2>6, <2>7 DEF Step
<1>. QED
  BY <1>2, <1>3

LEMMA InitCounted ==
  ASSUME Init
  PROVE  Counted
BY InitTyped DEF Counted

LEMMA NextCounted ==
  ASSUME Typed, Counted, [Next]_vars
  PROVE  Counted'
<1>1. TypeOK /\ Ordered /\ Asked /\ PanicsOnlyOnOverflow /\ TypeOK'
  BY StepTypedAll DEF Typed
<1>2. CASE Begin
  <2>1. /\ call'.query = call.query /\ call'.todo = FirstReads(call.query)
        /\ call'.project = "" /\ call'.spaces = {} /\ DOMAIN call'.totals = {}
    <3>1. call' = Called(call.query, FirstReads(call.query), "reading") /\ DOMAIN <<>> = {}
      BY <1>2 DEF Begin
    <3>. QED
      BY <3>1 DEF Called
  <2>2. Uncalled'
    BY <2>1 DEF Uncalled
  <2>. QED
    BY <2>2 DEF Counted
<1>3. CASE Step
  BY <1>1, <1>3, StepCounts
<1>4. CASE OthersWrite \/ UNCHANGED vars
  BY <1>1, <1>4, CountedStays
<1>. QED
  BY <1>2, <1>3, <1>4 DEF Next

\* A project's totals are the sum of its namespaces' samples; a namespace that
\* nobody moved is counted once, under its project, among the others that are
\* moved, created and deleted during the count; every project that stays is
\* counted when all are asked for; and a namespace whose pods nobody touched is
\* sampled as it is.
THEOREM UsageCounted == Spec => []UsageExact
<1>1. Init => Typed /\ Counted
  BY InitTypedAll, InitCounted
<1>2. Typed /\ Counted /\ [Next]_vars => Typed' /\ Counted'
  BY StepTypedAll, NextCounted
<1>3. Typed /\ Counted => UsageExact
  <2>1. SUFFICES ASSUME TypeOK, Counted, Done("getResourceUsage")
                 PROVE  UsageExact
    BY DEF Typed, UsageExact
  <2>2. call.pc = "done" /\ call.query.tool = "getResourceUsage" /\ call.todo = <<>>
    BY <2>1 DEF Done, TypeOK
  <2>3. Counting
    <3>1. call.query \in Queries
      BY <2>1 DEF TypeOK
    <3>2. FirstReads(call.query) # <<>> /\ AllProjects(call.query) # <<>>
      BY <3>1, FirstReadsTyped DEF AllProjects
    <3>. QED
      BY <2>1, <2>2, <3>2 DEF Counted, Uncalled
  <2>4. Range(call.todo) = {} /\ Uncounted = {}
    <3>1. Range(call.todo) = {}
      BY <2>2, FewAre
    <3>. QED
      BY <3>1 DEF Uncounted
  <2>5. ASSUME NEW r \in DOMAIN store \ touched, r.cluster = call.query.cluster,
               r.kind = "namespace", store[r].label \in DOMAIN call.totals
        PROVE  /\ Cardinality({s \in call.spaces : s.namespace = r.name}) = 1
               /\ \E s \in SpacesOf(store[r].label) : s.namespace = r.name
    <3>1. call.query.namespace = ""
      BY <2>3, <2>5 DEF Counting, Totalled
    <3>2. /\ \A s \in call.spaces : s.namespace = r.name => s.project = store[r].label
          /\ r.name \in {s.namespace : s \in SpacesOf(store[r].label)}
      BY <2>3, <2>4, <2>5, <3>1 DEF Counting, Housed
    <3>3. PICK s \in SpacesOf(store[r].label) : s.namespace = r.name
      BY <3>2
    <3>4. {t \in call.spaces : t.namespace = r.name} = {s}
      <4>1. s \in call.spaces /\ s.project = store[r].label
        BY DEF SpacesOf
      <4>2. \A t \in call.spaces : t.namespace = r.name => t = s
        BY <2>3, <3>2, <3>3, <4>1 DEF Counting, Housed
      <4>. QED
        BY <3>3, <4>1, <4>2
    <3>. QED
      BY <3>3, <3>4, FS_Singleton
  <2>6. ASSUME NEW r \in DOMAIN store \ touched, r.cluster = "local", r.kind = "project",
               r.namespace = call.query.cluster, call.query.name = "",
               call.query.namespace = ""
        PROVE  r.name \in DOMAIN call.totals
    BY <2>3, <2>4, <2>6 DEF Counting, Enlisted
  <2>7. /\ \A p \in DOMAIN call.totals : call.totals[p] = Total(SpacesOf(p))
        /\ \A s \in call.spaces : ~PodsTouched(s.namespace) => SampleFits(s)
    BY <2>3 DEF Counting, Totalled, Sampled
  <2>. QED
    BY <2>5, <2>6, <2>7 DEF UsageExact
<1>. QED
  BY <1>1, <1>2, <1>3, PTL DEF Spec

-----------------------------------------------------------------------------
\* The whole inductive invariant.
THEOREM QueriesInvariant == Spec => []IInv
<1>1. Init => Typed /\ Fitted /\ Lasting /\ Walked /\ Counted
  BY InitTypedAll, InitFitted, InitLasting, InitWalked, InitCounted
<1>2. Typed /\ Fitted /\ Lasting /\ Walked /\ Counted /\ [Next]_vars
        => Typed' /\ Fitted' /\ Lasting' /\ Walked' /\ Counted'
  BY StepTypedAll, NextFitted, NextLasting, NextWalked, NextCounted
<1>3. Typed /\ Fitted /\ Lasting /\ Walked /\ Counted => IInv
  BY DEF Typed, Fitted, IInv
<1>. QED
  BY <1>1, <1>2, <1>3, PTL DEF Spec

=============================================================================
