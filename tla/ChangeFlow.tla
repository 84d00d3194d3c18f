----------------------------- MODULE ChangeFlow -----------------------------
(***************************************************************************)
(* planChange and executeChange (pkg/toolsets/merged, dispatch, core,      *)
(* core/projects, provisioning): nine operations of the dispatch table,    *)
(* each planned with one set of handlers and executed with another.  The   *)
(* tenth, scaleClusterNodePool, is ScaleNodePool.                          *)
(*                                                                         *)
(* Plan and execute build the same operation from the caller's parameters  *)
(* and from what they read.  The token binds it, the plan shows it in its  *)
(* own way, and what is sent is addressed once more after the dialog: most *)
(* changes to whatever cluster bears the given name by then.  Between      *)
(* plan, token, dialog and write other clients edit and delete objects,    *)
(* rename clusters and projects, install API groups; releases appear;      *)
(* tokens expire; the process restarts; answers get lost.  The gate is the *)
(* TokenLedger that ConfirmGate implements, followed by the dialog.        *)
(***************************************************************************)
EXTENDS Integers, TLC

CONSTANTS
  Calls,      \* executeChange calls
  Nonces,     \* tokens
  Requests,   \* parameters: operation, cluster, namespace, kind, version, name,
              \* container, project and body; "" and <<>> where not given
  Modes,      \* flags: readOnly, autoWrite, enableExec
  Scenarios,  \* the requests agents may make in one behaviour, its objects, and
              \* what its clusters serve, names lead to, a release means
  Versions,   \* API versions that may serve a kind
  ClusterIDs, \* clusters
  ProjectIDs, \* projects
  Releases,   \* what a short Kubernetes version may stand for
  None,       \* no token, version, project, release, object or plan
  MaxDrift,   \* bound: steps of other clients
  MaxClock    \* bound: ticks; a token lives to the end of its tick

ASSUME FlowAssumption ==
  /\ None \notin Nonces \cup ProjectIDs
  /\ \A s \in Scenarios :
       /\ s.agenda \subseteq Requests
       /\ \A k \in DOMAIN s.served : s.served[k] \subseteq Versions
       /\ \A d \in DOMAIN s.projectID : s.projectID[d] \in ProjectIDs
       /\ \A d \in DOMAIN s.clusterID : s.clusterID[d] \in ClusterIDs
       /\ DOMAIN s.clusterID \cap ClusterIDs = {}
       /\ s.release \in Releases
  /\ \A m \in Modes : {m.readOnly, m.autoWrite, m.enableExec} \subseteq BOOLEAN

Generic == {"createKubernetesResource", "patchKubernetesResource",
            "deleteKubernetesResource"}
Creations == {"createProject", "createCustomCluster", "createImportedCluster",
              "createK3kCluster"}
Operations == Generic \cup Creations \cup {"execPod", "moveNamespace"}

ASSUME OperationsAssumption == \A p \in Requests : p.operation \in Operations

VARIABLES
  readOnly, autoWrite, enableExec, \* the flags of the server
  agenda,    \* the requests of this behaviour
  objects,   \* its objects, which others delete and make again
  drift,     \* steps other clients have taken
  served,    \* per cluster and kind, the versions that serve it
  projectID, \* per cluster and name or ID of a project, the project it resolves to
  clusterID, \* the cluster a display name resolves to
  release,   \* what the short Kubernetes version stands for
  store,     \* the objects of the clusters, by reference
  revision,  \* the last resource version given
  clock, live, expiry, redeemed, \* the token ledger
  bound,     \* the operation each token binds
  planned,   \* history: per token, the parameters, what the plan showed, and the
             \* object they stood for
  pc,        \* where each call stands
  request, token, \* its parameters
  change,    \* the change it built before the gate
  read,      \* the object moveNamespace read before the gate
  agreed,    \* history: calls the user agreed to
  sent,      \* history: calls whose change reached a cluster
  reached,   \* history: the object it reached
  running    \* calls whose command runs in a pod

flags == <<readOnly, autoWrite, enableExec, agenda, objects>>
cluster == <<drift, served, projectID, clusterID, release, store, revision>>
ledger == <<clock, live, expiry, redeemed>>
plans == <<bound, planned>>
calls == <<pc, request, token, change, read, agreed, sent, reached, running>>
vars == <<flags, cluster, ledger, plans, calls>>

Ledger == INSTANCE TokenLedger

-----------------------------------------------------------------------------
(* The dispatcher: which operations exist, what each requires.             *)

\* Required parameters; those of the manifest, patch, command and cluster
\* settings are one, the body.
CoreRequired ==
  [o \in Generic \cup {"execPod"} |->
     CASE o = "execPod" -> {"cluster", "namespace", "name", "body"}
       [] o = "deleteKubernetesResource" -> {"cluster", "kind", "name"}
       [] OTHER -> {"cluster", "kind", "name", "body"}]

ProjectsRequired ==
  [o \in {"createProject", "moveNamespace"} |->
     IF o = "createProject" THEN {"cluster", "name"}
     ELSE {"cluster", "namespace", "project"}]

ProvisioningRequired ==
  [o \in Creations \ {"createProject"} |->
     CASE o = "createCustomCluster" -> {"name", "body"}
       [] o = "createImportedCluster" -> {"name"}
       [] o = "createK3kCluster" -> {"name", "namespace", "cluster"}]

Required == CoreRequired @@ ProjectsRequired @@ ProvisioningRequired

Given(p, field) == IF field = "body" THEN p.body # <<>> ELSE p[field] # ""

Validate(p) == \A field \in Required[p.operation] : Given(p, field)

\* Read-only servers register neither tool; execPod needs its flag in both.
ExecGated(p) == p.operation = "execPod" => enableExec

Dispatch(p) == ~readOnly /\ Validate(p) /\ ExecGated(p)

-----------------------------------------------------------------------------
(* What an operation is: bound is the confirm.Operation, sent what the     *)
(* dialog shows and the cluster gets, addressed as the handler addresses   *)
(* it, which may be by the cluster's name.                                 *)

Operation(tool, cl, namespace, kind, name, payload) ==
  [tool |-> tool, cluster |-> cl, namespace |-> namespace, kind |-> kind,
   name |-> name, payload |-> payload]

Ref(cl, version, kind, namespace, name) ==
  [cluster |-> cl, version |-> version, kind |-> kind,
   namespace |-> namespace, name |-> name]

Sent(verb, ref, body) == [verb |-> verb, ref |-> ref, body |-> body, container |-> ""]

\* A display name leads to a cluster; an ID, and "local", to itself.
GetClusterID(name) == IF name \in DOMAIN clusterID THEN clusterID[name] ELSE name

\* The object that a reference stands for as names are now.
At(ref) ==
  Ref(GetClusterID(ref.cluster), ref.version, ref.kind, ref.namespace, ref.name)

\* ResolveGVR, as far as the change depends on it.
ResolveGVR(cl, kind, version) ==
  LET versions == served[GetClusterID(cl), kind] IN
  IF version # "" THEN IF version \in versions THEN version ELSE None
  ELSE IF \E v \in Versions : versions = {v}
       THEN CHOOSE v \in Versions : versions = {v}
       ELSE None

\* The parameter's namespace wins over the manifest's.
ManifestNamespace(p) == IF p.namespace # "" THEN p.namespace ELSE p.body.namespace

ManifestAgrees(p) == p.kind = p.body.kind /\ p.name = p.body.name

CreateChange(p) ==
  [bound |-> Operation("createKubernetesResource", p.cluster, ManifestNamespace(p),
                       p.kind, p.name, p.body),
   sent |-> Sent("create",
                 Ref(p.cluster, ResolveGVR(p.cluster, p.kind, p.body.version), p.kind,
                     ManifestNamespace(p), p.name),
                 p.body)]

GenericRef(p) ==
  Ref(p.cluster, ResolveGVR(p.cluster, p.kind, p.version), p.kind, p.namespace, p.name)

PatchChange(p) ==
  [bound |-> Operation("patchKubernetesResource", p.cluster, p.namespace, p.kind,
                       p.name, p.body),
   sent |-> Sent("patch", GenericRef(p), p.body)]

DeleteChange(p) ==
  [bound |-> Operation("deleteKubernetesResource", p.cluster, p.namespace, p.kind,
                       p.name, <<>>),
   sent |-> Sent("delete", GenericRef(p), <<>>)]

ExecChange(p) ==
  [bound |-> Operation("execPod", p.cluster, p.namespace, "pod", p.name, p.body),
   sent |-> [Sent("exec", Ref(p.cluster, "v1", "pod", p.namespace, p.name), p.body)
             EXCEPT !.container = p.container]]

\* Quotas that are zero are left out of the object.
ProjectObject(p) == {f \in DOMAIN p.body : p.body[f] # 0}

ProjectChange(p) ==
  LET object == [fields |-> [f \in ProjectObject(p) |-> p.body[f]],
                 clusterName |-> p.cluster] IN
  [bound |-> Operation("createProject", p.cluster, "", "project", p.name, object),
   sent |-> Sent("create", Ref("local", "v3", "project", p.cluster, p.name), object)]

\* A project is given by its ID or, whatever its case, by its display name;
\* an ID that no project has may be the display name of another.
\* (Defect: a name that is no project's is taken for an ID.)
GetProjectIDOrName(cl, project) ==
  IF <<cl, project>> \in DOMAIN projectID /\ projectID[cl, project] # None
  THEN projectID[cl, project] ELSE project
GetProjectID(cl, project) ==
  IF <<cl, project>> \in DOMAIN projectID THEN projectID[cl, project] ELSE None

\* The token of a move binds the IDs its names resolve to.
\* (Defect: it binds the cluster by the name it was given.)
MovePayloadByName(p) ==
  [cluster |-> p.cluster, namespace |-> p.namespace,
   project |-> GetProjectID(GetClusterID(p.cluster), p.project)]
MovePayload(p) ==
  [cluster |-> GetClusterID(p.cluster), namespace |-> p.namespace,
   project |-> GetProjectID(GetClusterID(p.cluster), p.project)]

MoveChange(p) ==
  [bound |-> Operation("moveNamespace", p.cluster, p.namespace, "namespace",
                       p.namespace, MovePayload(p)),
   sent |-> Sent("update",
                 Ref(GetClusterID(p.cluster), "v1", "namespace", "", p.namespace),
                 MovePayload(p))]

\* The short version is looked up each time and the full one submitted.
CustomObject(p) == [cni |-> p.body.cni, version |-> release]

CustomChange(p) ==
  [bound |-> Operation("createCustomCluster", "local", "fleet-default", "cluster",
                       p.name, CustomObject(p)),
   sent |-> Sent("create", Ref("local", "v1", "cluster", "fleet-default", p.name),
                 CustomObject(p))]

\* No setting for the version management stands for the system's default.
ImportedObject(p) ==
  [name |-> p.name,
   management |-> IF p.body = <<>> THEN "system-default" ELSE p.body.management]

ImportedChange(p) ==
  [bound |-> Operation("createImportedCluster", "local", "", "cluster", p.name,
                       ImportedObject(p)),
   sent |-> Sent("create", Ref("local", "v3", "cluster", "", p.name),
                 ImportedObject(p))]

\* Counts that are not positive are left to the defaults of K3k.
K3kObject(p) ==
  [f \in {f \in DOMAIN p.body : p.body[f] > 0} |-> p.body[f]]

K3kChange(p) ==
  [bound |-> Operation("createK3kCluster", p.cluster, p.namespace, "cluster",
                       p.name, K3kObject(p)),
   sent |-> Sent("create", Ref(p.cluster, "k3k", "cluster", p.namespace, p.name),
                 K3kObject(p))]

Change(p) ==
  CASE p.operation = "createKubernetesResource" -> CreateChange(p)
    [] p.operation = "patchKubernetesResource" -> PatchChange(p)
    [] p.operation = "deleteKubernetesResource" -> DeleteChange(p)
    [] p.operation = "execPod" -> ExecChange(p)
    [] p.operation = "createProject" -> ProjectChange(p)
    [] p.operation = "moveNamespace" -> MoveChange(p)
    [] p.operation = "createCustomCluster" -> CustomChange(p)
    [] p.operation = "createImportedCluster" -> ImportedChange(p)
    [] p.operation = "createK3kCluster" -> K3kChange(p)

-----------------------------------------------------------------------------
(* What makes a handler refuse before it issues a token or asks the gate.   *)

Resolved(p) == Change(p).sent.ref.version # None
Exists(p) == At(Change(p).sent.ref) \in DOMAIN store

\* The plan of a creation does not resolve the kind; its execution does.
CreatePlanned(p) == ManifestAgrees(p)
CreateAllowed(p) == ManifestAgrees(p) /\ Resolved(p)

\* A patch or a deletion is planned on the object as it is, and executed
\* without another look at it.
PatchPlanned(p) == Resolved(p) /\ Exists(p)
DeletePlanned(p) == Resolved(p) /\ Exists(p)

ExecPlanned(p) == Exists(p)

\* Plan and execute both resolve cluster and project and read the namespace.
Moved(p) == MovePayload(p).project # None /\ Exists(p)

CustomAccepted(p) == p.body.cni \in {"calico", "canal"} /\ release # None

ImportedAccepted(p) ==
  ImportedObject(p).management \in {"system-default", "true", "false"}

Planned(p) ==
  CASE p.operation = "createKubernetesResource" -> CreatePlanned(p)
    [] p.operation = "patchKubernetesResource" -> PatchPlanned(p)
    [] p.operation = "deleteKubernetesResource" -> DeletePlanned(p)
    [] p.operation = "execPod" -> ExecPlanned(p)
    [] p.operation = "moveNamespace" -> Moved(p)
    [] p.operation = "createCustomCluster" -> CustomAccepted(p)
    [] p.operation = "createImportedCluster" -> ImportedAccepted(p)
    [] OTHER -> TRUE

Allowed(p) ==
  CASE p.operation = "createKubernetesResource" -> CreateAllowed(p)
    [] p.operation \in Generic -> Resolved(p)
    [] p.operation = "moveNamespace" -> Moved(p)
    [] p.operation = "createCustomCluster" -> CustomAccepted(p)
    [] p.operation = "createImportedCluster" -> ImportedAccepted(p)
    [] OTHER -> TRUE

-----------------------------------------------------------------------------

Init ==
  /\ \E m \in Modes : readOnly = m.readOnly /\ autoWrite = m.autoWrite /\ enableExec = m.enableExec
  /\ drift = 0
  /\ \E s \in Scenarios :
       /\ agenda = s.agenda /\ objects = s.objects
       /\ served = s.served /\ release = s.release
       /\ projectID = s.projectID /\ clusterID = s.clusterID
       /\ store = [r \in s.objects |-> [rv |-> 0, project |-> None, edits |-> 0]]
  /\ revision = 0
  /\ Ledger!LedgerInit
  /\ bound = [n \in Nonces |-> None]
  /\ planned = [n \in Nonces |-> None]
  /\ pc = [c \in Calls |-> "idle"]
  /\ request = [c \in Calls |-> None]
  /\ token = [c \in Calls |-> None]
  /\ change = [c \in Calls |-> None]
  /\ read = [c \in Calls |-> None]
  /\ reached = [c \in Calls |-> None]
  /\ agreed = {} /\ sent = {} /\ running = {}

Goto(c, label) == pc' = [pc EXCEPT ![c] = label]

\* The calls end with an error or a cancellation; nothing of them remains.
End(cs) ==
  /\ pc' = [c \in Calls |-> IF c \in cs THEN "failed" ELSE pc[c]]
  /\ request' = [c \in Calls |-> IF c \in cs THEN None ELSE request[c]]
  /\ token' = [c \in Calls |-> IF c \in cs THEN None ELSE token[c]]
  /\ change' = [c \in Calls |-> IF c \in cs THEN None ELSE change[c]]
  /\ read' = [c \in Calls |-> IF c \in cs THEN None ELSE read[c]]

Fails(c) == End({c})

\* What a plan shows: the resource, as response.Resource names it, and the payload.
Resource(cl, namespace, kind, name, payload) ==
  [cluster |-> cl, namespace |-> namespace, kind |-> kind, name |-> name,
   payload |-> payload]

\* Plans of creations and moves read the resource off the object, so a manifest
\* without a namespace shows none, whatever the parameter says; a project shows
\* its cluster, not the local one it is written to; and an imported cluster is
\* given a namespace for display.  The other plans show their parameters.  The
\* object as it is, and the container of a command, are shown too.
Shown(p) ==
  LET new == Change(p).sent IN
  CASE p.operation = "createKubernetesResource" ->
         Resource(p.cluster, p.body.namespace, p.kind, p.name, p.body)
    [] p.operation = "createProject" ->
         Resource(p.cluster, p.cluster, "project", p.name, new.body)
    [] p.operation = "moveNamespace" ->
         Resource(GetClusterID(p.cluster), "", "namespace", p.namespace, new.body)
    [] p.operation \in {"createCustomCluster", "createImportedCluster"} ->
         Resource("local", "fleet-default", "cluster", p.name, new.body)
    [] p.operation = "execPod" ->
         Resource(p.cluster, p.namespace, "pod", p.name, p.body)
    [] p.operation = "createK3kCluster" ->
         Resource(p.cluster, p.namespace, "cluster", p.name, new.body)
    [] OTHER -> Resource(p.cluster, p.namespace, p.kind, p.name, new.body)

\* planChange: the handler shows the change and issues a token that binds it.
PlanChange(p, n) ==
  /\ Dispatch(p) /\ Planned(p)
  /\ expiry' = [expiry EXCEPT ![n] = clock]
  /\ Ledger!Issue(n)
  /\ bound' = [bound EXCEPT ![n] = Change(p).bound]
  /\ planned' = [planned EXCEPT ![n] = [request |-> p, shown |-> Shown(p),
                                       target |-> At(Change(p).sent.ref)]]
  /\ UNCHANGED <<flags, cluster, calls>>

\* (Defect: deletions are bypassed like the other writes.)
BypassDelete(p) == autoWrite /\ p.operation # "execPod"
Bypass(p) == autoWrite /\ p.operation \notin {"deleteKubernetesResource", "execPod"}

\* executeChange up to the gate; n is the token it presents.
ExecuteChange(c, p, n) ==
  /\ pc[c] = "idle"
  /\ Dispatch(p) /\ Allowed(p)
  /\ request' = [request EXCEPT ![c] = p]
  /\ token' = [token EXCEPT ![c] = n]
  /\ change' = [change EXCEPT ![c] = Change(p)]
  /\ read' = [read EXCEPT ![c] =
                IF p.operation = "moveNamespace" THEN store[At(Change(p).sent.ref)]
                ELSE None]
  /\ Goto(c, IF Bypass(p) THEN "approved" ELSE "checking")
  /\ UNCHANGED <<flags, cluster, ledger, plans, agreed, sent, reached, running>>

TokenFits(c) == token[c] # None /\ bound[token[c]] = change[c].bound

\* (Defect: a token may be redeemed again.)
RedeemAgain(c) ==
  /\ redeemed' = [redeemed EXCEPT ![token[c]] = @ \cup {c}]
  /\ UNCHANGED <<clock, live, expiry>>
RedeemToken(c) == Ledger!Redeem(token[c], c)

\* The gate's first half: the token is redeemed, or it is missing, of another
\* process, of another operation, expired or used.  The ledger leaves open
\* whether a token is redeemed after its time.
RequireToken(c) ==
  /\ pc[c] = "checking"
  /\ \/ /\ TokenFits(c) /\ RedeemToken(c)
        /\ Goto(c, "asking")
        /\ UNCHANGED <<request, token, change, read>>
     \/ /\ TokenFits(c) /\ token[c] \in live
           => redeemed[token[c]] # {} \/ clock > expiry[token[c]]
        /\ Fails(c)
        /\ UNCHANGED ledger
  /\ UNCHANGED <<flags, cluster, plans, agreed, sent, reached, running>>

\* Its second half, the dialog: yes, anything else, or a client without dialogs.
Confirm(c) ==
  /\ pc[c] = "asking"
  /\ \/ /\ Goto(c, "approved")
        /\ agreed' = agreed \cup {c}
        /\ UNCHANGED <<request, token, change, read>>
     \/ Fails(c) /\ UNCHANGED agreed
  /\ UNCHANGED <<flags, cluster, ledger, plans, sent, reached, running>>

-----------------------------------------------------------------------------
(* The write.  Its cluster is looked up again.  It reaches the cluster,    *)
(* whether or not the answer comes back; or it fails, as anything may.     *)

Approved(c, operations) == pc[c] = "approved" /\ request[c].operation \in operations

Reference(c) == At(change[c].sent.ref)

Reaches(c) ==
  /\ sent' = sent \cup {c}
  /\ reached' = [reached EXCEPT ![c] = Reference(c)]

Written(c) ==
  /\ revision' = revision + 1
  /\ Reaches(c)
  /\ Goto(c, "done")

SendUnchanged ==
  UNCHANGED <<flags, drift, served, projectID, clusterID, release, ledger, plans,
              request, token, change, read, agreed, running>>

NewObject == [rv |-> revision + 1, project |-> None, edits |-> 0]

With(r, object) ==
  [s \in DOMAIN store \cup {r} |-> IF s = r THEN object ELSE store[s]]

Created(c) ==
  /\ Reference(c) \notin DOMAIN store
  /\ store' = With(Reference(c), NewObject)
  /\ Written(c)
  /\ SendUnchanged

\* The API server refuses an object that names another namespace than the URL.
NamespaceAccepted(c) ==
  change[c].sent.body.namespace \in {"", Reference(c).namespace}

CreateKubernetesResource(c) ==
  /\ Approved(c, {"createKubernetesResource"})
  /\ NamespaceAccepted(c)
  /\ Created(c)

CreateProject(c) == Approved(c, {"createProject"}) /\ Created(c)

CreateCustomCluster(c) == Approved(c, {"createCustomCluster"}) /\ Created(c)

CreateK3kCluster(c) == Approved(c, {"createK3kCluster"}) /\ Created(c)

\* Rancher names an imported cluster itself, so a second one is no conflict.
CreateImportedCluster(c) ==
  /\ Approved(c, {"createImportedCluster"})
  /\ store' = With(Reference(c), NewObject)
  /\ Written(c)
  /\ SendUnchanged

Edited(r) ==
  [store EXCEPT ![r] = [rv |-> revision + 1, project |-> store[r].project,
                        edits |-> store[r].edits + 1]]

PatchKubernetesResource(c) ==
  /\ Approved(c, {"patchKubernetesResource"})
  /\ Reference(c) \in DOMAIN store
  /\ store' = Edited(Reference(c))
  /\ Written(c)
  /\ SendUnchanged

Without(r) == [s \in DOMAIN store \ {r} |-> store[s]]

DeleteKubernetesResource(c) ==
  /\ Approved(c, {"deleteKubernetesResource"})
  /\ Reference(c) \in DOMAIN store
  /\ store' = Without(Reference(c))
  /\ Written(c)
  /\ SendUnchanged

\* The Update carries the resource version that was read, and the API server
\* refuses it when the object has another one by now.
\* (Defect: the version is taken off the object before the Update.)
UpdateAcceptedAnyway(c) == Reference(c) \in DOMAIN store
UpdateAccepted(c) ==
  Reference(c) \in DOMAIN store /\ store[Reference(c)].rv = read[c].rv

\* The whole object read before the gate is written, with the new project.
MoveNamespace(c) ==
  /\ Approved(c, {"moveNamespace"})
  /\ UpdateAccepted(c)
  /\ store' = [store EXCEPT ![Reference(c)] =
                 [rv |-> revision + 1, project |-> change[c].sent.body.project,
                  edits |-> read[c].edits]]
  /\ Written(c)
  /\ SendUnchanged

\* The stream opens and the command starts; it ends by itself, or never.
ExecPod(c) ==
  /\ Approved(c, {"execPod"})
  /\ Reference(c) \in DOMAIN store
  /\ Reaches(c)
  /\ running' = running \cup {c}
  /\ Goto(c, "streaming")
  /\ UNCHANGED <<flags, cluster, ledger, plans, request, token, change, read, agreed>>

\* The answer has the exit code, the timeout of 30 s, or the stream's error;
\* only the first says that the command has ended.
CommandEnds(c) ==
  /\ c \in running
  /\ running' = running \ {c}
  /\ pc' = [pc EXCEPT ![c] = IF @ = "streaming" THEN "done" ELSE @]
  /\ UNCHANGED <<flags, cluster, ledger, plans, request, token, change, read, agreed, sent,
                 reached>>

StreamEnds(c) ==
  /\ pc[c] = "streaming"
  /\ Goto(c, "done")
  /\ UNCHANGED <<flags, cluster, ledger, plans, request, token, change, read, agreed, sent,
                 reached, running>>

Rejected(c) ==
  /\ pc[c] = "approved"
  /\ Fails(c)
  /\ UNCHANGED <<flags, cluster, ledger, plans, agreed, sent, reached, running>>

Send(c) ==
  \/ CreateKubernetesResource(c) \/ PatchKubernetesResource(c)
  \/ DeleteKubernetesResource(c) \/ ExecPod(c)
  \/ CreateProject(c) \/ MoveNamespace(c)
  \/ CreateCustomCluster(c) \/ CreateImportedCluster(c) \/ CreateK3kCluster(c)
  \/ Rejected(c)

-----------------------------------------------------------------------------
(* Time, the end of the process, and everybody else.                        *)

Tick ==
  /\ clock < MaxClock
  /\ Ledger!Pass
  /\ UNCHANGED <<flags, cluster, plans, calls>>

\* Calls in flight are lost; a command goes on running.
Restart ==
  /\ Ledger!Revoke
  /\ End({c \in Calls : pc[c] \in {"checking", "asking", "approved"}})
  /\ UNCHANGED <<flags, cluster, plans, agreed, sent, reached, running>>

Drift == drift < MaxDrift /\ drift' = drift + 1

InstallKind ==
  /\ Drift
  /\ \E k \in DOMAIN served, vs \in SUBSET Versions : served' = [served EXCEPT ![k] = vs]
  /\ UNCHANGED <<flags, projectID, clusterID, release, store, revision, ledger, plans,
                 calls>>

\* Another cluster was given the display name, and a lookup cached it since.
RenameCluster ==
  /\ Drift
  /\ \E d \in DOMAIN clusterID, i \in ClusterIDs :
       clusterID' = [clusterID EXCEPT ![d] = i]
  /\ UNCHANGED <<flags, served, projectID, release, store, revision, ledger, plans,
                 calls>>

RenameProject ==
  /\ Drift
  /\ \E d \in DOMAIN projectID, i \in ProjectIDs \cup {None} :
       projectID' = [projectID EXCEPT ![d] = i]
  /\ UNCHANGED <<flags, served, clusterID, release, store, revision, ledger, plans,
                 calls>>

PublishRelease ==
  /\ Drift
  /\ release' \in Releases \cup {None}
  /\ UNCHANGED <<flags, served, projectID, clusterID, store, revision, ledger, plans,
                 calls>>

OthersWrite ==
  /\ Drift
  /\ \/ \E r \in DOMAIN store : store' = Edited(r) \/ store' = Without(r)
     \/ \E r \in objects \ DOMAIN store : store' = With(r, NewObject)
  /\ revision' = revision + 1
  /\ UNCHANGED <<flags, served, projectID, clusterID, release, ledger, plans, calls>>

CallStep(c) ==
  \/ \E p \in agenda, n \in Nonces \cup {None} : ExecuteChange(c, p, n)
  \/ RequireToken(c) \/ Confirm(c) \/ Send(c)
  \/ CommandEnds(c) \/ StreamEnds(c)

Next ==
  \/ \E p \in agenda, n \in Nonces : PlanChange(p, n)
  \/ \E c \in Calls : CallStep(c)
  \/ Tick \/ Restart
  \/ InstallKind \/ RenameCluster \/ RenameProject \/ PublishRelease \/ OthersWrite

Spec == Init /\ [][Next]_vars

-----------------------------------------------------------------------------

Labels == {"idle", "checking", "asking", "approved", "streaming", "done", "failed"}

\* Type correctness of the flow.
TypeOK ==
  /\ {readOnly, autoWrite, enableExec} \subseteq BOOLEAN
  /\ agenda \subseteq Requests
  /\ drift \in Nat /\ revision \in Nat /\ clock \in Nat
  /\ \A k \in DOMAIN served : served[k] \subseteq Versions
  /\ \A d \in DOMAIN projectID : projectID[d] \in ProjectIDs \cup {None}
  /\ DOMAIN clusterID \cap ClusterIDs = {}
  /\ \A d \in DOMAIN clusterID : clusterID[d] \in ClusterIDs
  /\ release \in Releases \cup {None}
  /\ \A r \in DOMAIN store :
       store[r] \in [rv : 0..revision, project : ProjectIDs \cup {None}, edits : Nat]
  /\ live \subseteq Nonces
  /\ expiry \in [Nonces -> Nat]
  /\ redeemed \in [Nonces -> SUBSET Calls]
  /\ DOMAIN bound = Nonces /\ DOMAIN planned = Nonces
  /\ pc \in [Calls -> Labels]
  /\ request \in [Calls -> Requests \cup {None}]
  /\ token \in [Calls -> Nonces \cup {None}]
  /\ DOMAIN change = Calls /\ DOMAIN read = Calls /\ DOMAIN reached = Calls
  /\ agreed \subseteq Calls /\ sent \subseteq Calls /\ running \subseteq sent

\* The call redeemed the token it presented.
Confirmed(c) == token[c] # None /\ c \in redeemed[token[c]]

\* The namespace of a plan is where the change goes, except that a creation may
\* show none and that of an imported cluster is for display.
ShowsNamespace(operation, shown, object) ==
  CASE operation = "createKubernetesResource" ->
         shown.namespace \in {"", object.namespace}
    [] operation = "createImportedCluster" -> shown.namespace = "fleet-default"
    [] OTHER -> shown.namespace = object.namespace

\* A cluster shown by its ID is the one that is changed; one shown by its name
\* is addressed by this name.
ShowsCluster(operation, shown, ref, object) ==
  IF operation = "createProject" THEN shown.cluster = object.namespace
  ELSE /\ shown.cluster = ref.cluster
       /\ shown.cluster \notin DOMAIN clusterID => shown.cluster = object.cluster

\* What reaches a cluster with a token is what its plan showed: the operation,
\* kind, name and payload, and the namespace and cluster as far as plans show
\* them.  Names of projects and releases that change their meaning between plan
\* and write make the token fail, and so does the name of a moved namespace's
\* cluster, whose plan shows the ID.
SentAsPlanned ==
  \A c \in sent : Confirmed(c) =>
    LET plan == planned[token[c]] IN
    /\ plan.request.operation = request[c].operation
    /\ plan.shown.kind = reached[c].kind /\ plan.shown.name = reached[c].name
    /\ plan.shown.payload = change[c].sent.body
    /\ ShowsNamespace(request[c].operation, plan.shown, reached[c])
    /\ ShowsCluster(request[c].operation, plan.shown, change[c].sent.ref, reached[c])

\* The comment in the plan of a deletion: the token binds exactly which object
\* disappears.
DeletesPlanned ==
  \A c \in sent : Confirmed(c) /\ request[c].operation = "deleteKubernetesResource" =>
    reached[c] = planned[token[c]].target

\* However often an agent retries a change, also after a lost answer or a
\* restart, a token that is still valid sends it once.
SentOncePerToken ==
  \A c, d \in sent : c # d /\ Confirmed(c) /\ Confirmed(d) /\ token[c] = token[d]
    => clock > expiry[token[c]]

\* Whatever mode the server is in, a deletion or a command reaches the cluster
\* only with a token and the user's consent to this very call, and the other
\* changes too unless auto-write is on; read-only sends nothing, and commands
\* need their flag.
AlwaysAsked ==
  \A c \in sent :
    /\ ~readOnly
    /\ request[c].operation = "execPod" => enableExec
    /\ \/ Confirmed(c) /\ c \in agreed
       \/ autoWrite /\ change[c].sent.verb \notin {"delete", "exec"}

\* Moving a namespace undoes no edit that others made to it while the user was
\* asked: the Update fails instead, also when it was deleted and made again.
NoLostUpdate ==
  [][\A c \in Calls : MoveNamespace(c) =>
       store'[Reference(c)].edits = store[Reference(c)].edits]_vars

\* The description of executeChange: the token binds the exact operation and
\* parameters.
TokenBindsParameters ==
  \A c \in sent : Confirmed(c) => request[c] = planned[token[c]].request

-----------------------------------------------------------------------------
(* The inductive invariant behind the first four properties.                *)

InFlight(c) == pc[c] \in {"checking", "asking", "approved"}
Past(c) == pc[c] \in {"approved", "streaming", "done"}

\* Two changes are the same but for what no token binds: the version a kind
\* resolves to, and the container of a command.
Essence(s) ==
  [verb |-> s.verb, cluster |-> s.ref.cluster, kind |-> s.ref.kind,
   namespace |-> s.ref.namespace, name |-> s.ref.name, body |-> s.body]

\* The change an operation stands for: the token's record says it all.
Means(o, verb, cl, kind, namespace) ==
  [verb |-> verb, cluster |-> cl, kind |-> kind, namespace |-> namespace,
   name |-> o.name, body |-> o.payload]

Meaning(o) ==
  CASE o.tool = "createKubernetesResource" ->
         Means(o, "create", o.cluster, o.kind, o.namespace)
    [] o.tool = "patchKubernetesResource" ->
         Means(o, "patch", o.cluster, o.kind, o.namespace)
    [] o.tool = "deleteKubernetesResource" ->
         Means(o, "delete", o.cluster, o.kind, o.namespace)
    [] o.tool = "execPod" -> Means(o, "exec", o.cluster, "pod", o.namespace)
    [] o.tool = "createProject" ->
         Means(o, "create", "local", "project", o.cluster)
    [] o.tool = "moveNamespace" ->
         Means(o, "update", o.payload.cluster, "namespace", "")
    [] o.tool = "createK3kCluster" ->
         Means(o, "create", o.cluster, "cluster", o.namespace)
    [] o.tool = "createCustomCluster" ->
         Means(o, "create", "local", "cluster", "fleet-default")
    [] o.tool = "createImportedCluster" -> Means(o, "create", "local", "cluster", "")

\* What the plan of an operation shows.
Displays(o) ==
  CASE o.tool = "createKubernetesResource" ->
         Resource(o.cluster, o.payload.namespace, o.kind, o.name, o.payload)
    [] o.tool = "createProject" ->
         Resource(o.cluster, o.cluster, "project", o.name, o.payload)
    [] o.tool = "moveNamespace" ->
         Resource(o.payload.cluster, "", "namespace", o.name, o.payload)
    [] o.tool \in {"createCustomCluster", "createImportedCluster"} ->
         Resource("local", "fleet-default", "cluster", o.name, o.payload)
    [] o.tool = "execPod" ->
         Resource(o.cluster, o.namespace, "pod", o.name, o.payload)
    [] o.tool = "createK3kCluster" ->
         Resource(o.cluster, o.namespace, "cluster", o.name, o.payload)
    [] OTHER -> Resource(o.cluster, o.namespace, o.kind, o.name, o.payload)

TokenHolds(n) ==
  /\ planned[n].shown = Displays(bound[n])
  /\ planned[n].request.operation = bound[n].tool

CallHolds(c) ==
  /\ Essence(change[c].sent) = Meaning(change[c].bound)
  /\ request[c].operation = change[c].bound.tool

\* Tokens hold an operation together with what its plan showed, calls together
\* with the change it stands for, and a redeemed token that of its call.
BoundMeansSent ==
  /\ \A n \in Nonces : n \in live \/ redeemed[n] # {} => TokenHolds(n)
  /\ \A c \in Calls : InFlight(c) \/ Past(c) => CallHolds(c)
  /\ \A c \in Calls : Confirmed(c) => bound[token[c]] = change[c].bound

\* The object reached is the one the change was addressed to; only a cluster
\* given by name is looked up.
Addressed(c) ==
  LET ref == change[c].sent.ref IN
  /\ reached[c].kind = ref.kind /\ reached[c].name = ref.name
  /\ reached[c].namespace = ref.namespace
  /\ ref.cluster \notin DOMAIN clusterID => reached[c].cluster = ref.cluster
  /\ request[c].operation = "createKubernetesResource" =>
       change[c].sent.body.namespace \in {"", reached[c].namespace}

ReachedAddressed == \A c \in sent : Addressed(c)

\* Where a call stands tells what it has passed.
AskedFirst ==
  \A c \in Calls :
    /\ pc[c] \in {"idle", "failed"} => token[c] = None
    /\ pc[c] \in {"idle", "checking"} => \A n \in Nonces : c \notin redeemed[n]
    /\ pc[c] = "asking" => Confirmed(c)
    /\ InFlight(c) \/ Past(c) =>
         /\ request[c] \in Requests
         /\ ~readOnly
         /\ request[c].operation = "execPod" => enableExec
         /\ \/ pc[c] \in {"checking", "asking"}
            \/ Confirmed(c) /\ c \in agreed
            \/ autoWrite /\ change[c].sent.verb \notin {"delete", "exec"}
    /\ c \in sent => pc[c] \in {"streaming", "done"}

\* The ledger's promise, as an invariant.
RedeemedOnce ==
  \A n \in Nonces : \A c, d \in redeemed[n] : c # d => clock > expiry[n]

StillRead(c) ==
  /\ read[c].rv \in 0..revision /\ read[c].edits \in Nat
  /\ change[c].sent.body.project \in ProjectIDs
  /\ change[c].sent.ref.cluster \notin DOMAIN clusterID
  /\ UpdateAccepted(c) => store[Reference(c)].edits = read[c].edits

\* A namespace that still has the version a call read is as the call read it.
ReadStillTrue ==
  \A c \in Calls : InFlight(c) /\ request[c].operation = "moveNamespace" => StillRead(c)

IInv ==
  /\ TypeOK /\ BoundMeansSent /\ ReachedAddressed /\ AskedFirst /\ RedeemedOnce
  /\ ReadStillTrue

=============================================================================
