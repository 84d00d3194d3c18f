--------------------------- MODULE ClusterClient ---------------------------
(***************************************************************************)
(* pkg/client: how a tool call gets from the cluster and the kind it was   *)
(* given to an object.  Three caches of the process lie on the way: the    *)
(* IDs and the display names of clusters, which nothing ever removes, and  *)
(* what a cluster serves, for TTL.  Calls run concurrently; every load and *)
(* store of a cache and every request to Rancher is a step, between which  *)
(* clusters appear, vanish, are renamed, and serve other APIs.             *)
(***************************************************************************)
EXTENDS Integers, Sequences, FiniteSets

CONSTANTS
  Calls,
  Requests,   \* operation ("get" or "any"), cluster, kind, group and version,
              \* "" where not given
  BuiltIn,    \* kinds of the built-in table
  ClusterIDs, \* of downstream clusters; not "local", which is always known
  Names,      \* display names; one may be the ID of another cluster
  Listings,   \* what a cluster may serve, by preference: groups with their
              \* version and kinds
  None,       \* no display name
  Starts,     \* how behaviours start: clusters with their display names, what
              \* each serves, and the requests that will be made
  TTL,        \* ticks a discovery is kept
  MaxNow,     \* bound: ticks
  MaxDrift    \* bound: changes of clusters and APIs

ASSUME ClientAssumption ==
  /\ None \notin Names \cup ClusterIDs
  /\ Listings \subseteq Seq([group : STRING, version : STRING, kinds : SUBSET STRING])
  /\ "local" \notin ClusterIDs
  /\ \A s \in Starts :
       /\ s.agenda \subseteq Requests
       /\ DOMAIN s.clusters \subseteq ClusterIDs
       /\ \A i \in DOMAIN s.clusters : s.clusters[i] \in Names \cup {None}
       /\ s.served \in [ClusterIDs \cup {"local"} -> Listings]
  /\ TTL \in Nat

VARIABLES
  agenda,     \* the requests of this behaviour
  clusters,   \* the display name of each cluster that exists
  served,     \* what each cluster serves
  drift,      \* changes so far
  named,      \* history: which ID each identifier has stood for
  now,
  ids,        \* clusterIdsCache
  names,      \* clustersDisplayNameToIDCache
  discovered, \* discoveryCache
  call        \* the calls

world == <<agenda, clusters, served, drift, named>>
caches == <<ids, names, discovered>>
vars == <<world, now, caches, call>>

\* A discovery: what the cluster serves, the groups that answered, the cluster
\* it came from, and after how many changes.
Discovery(lists, groups, from, readAt) ==
  [lists |-> lists, groups |-> groups, from |-> from, readAt |-> readAt]

NoDiscovery(readAt) == Discovery(<<>>, {}, "none", readAt)

\* A call: where it is (pc); the lookup of an identifier (arg) and where it goes
\* on with the ID (goal); the cluster whose cache entry it reads or fills
\* (target); the clusters left to store and the versions tried.
Idle ==
  [pc |-> "idle", request |-> None, goal |-> "none", arg |-> "none", id |-> "none",
   target |-> "none", forced |-> FALSE, item |-> None, listing |-> {},
   tried |-> 0, discovery |-> NoDiscovery(0), began |-> 0]

Answers == {"done", "failed", "notFound", "ambiguous"}

At(c, label) == call[c].pc = label

Step(c, next) == call' = [call EXCEPT ![c] = next]

Goto(c, label) == Step(c, [call[c] EXCEPT !.pc = label])

\* The call ends; of what it knew, the history of its discovery is kept.
Answer(state, answer) ==
  [Idle EXCEPT !.pc = answer, !.began = state.began,
               !.discovery = NoDiscovery(state.discovery.readAt)]

\* Requests to Rancher fail for many reasons; the call ends with an error.
Fails(c) == Step(c, Answer(call[c], "failed")) /\ UNCHANGED caches

-----------------------------------------------------------------------------
(* GetClusterID: asked with an identifier, it goes on at goal with the ID.  *)

GetClusterID(state, goal, arg) ==
  [state EXCEPT !.pc = "loadID", !.goal = goal, !.arg = arg]

Return(c, id) ==
  Step(c, [call[c] EXCEPT !.pc = call[c].goal, !.id = id, !.item = None, !.listing = {}])

LoadID(c) ==
  /\ At(c, "loadID")
  /\ IF call[c].arg = "local" \/ call[c].arg \in ids
     THEN Return(c, call[c].arg) ELSE Goto(c, "loadName")
  /\ UNCHANGED caches

LoadName(c) ==
  /\ At(c, "loadName")
  /\ IF call[c].arg \in DOMAIN names
     THEN Return(c, names[call[c].arg]) ELSE Goto(c, "getCluster")
  /\ UNCHANGED caches

Item(i) == [id |-> i, name |-> clusters[i]]

GetCluster(c) ==
  /\ At(c, "getCluster")
  /\ IF call[c].arg \in DOMAIN clusters
     THEN Step(c, [call[c] EXCEPT !.pc = "storeID", !.item = Item(call[c].arg)])
     ELSE Goto(c, "listClusters")
  /\ UNCHANGED caches

\* Rancher lists the local cluster too; its display name is left out.
ListClusters(c) ==
  /\ At(c, "listClusters")
  /\ Step(c, [call[c] EXCEPT !.pc = "listed",
                             !.listing = {Item(i) : i \in DOMAIN clusters}])
  /\ UNCHANGED caches

\* (Defect: the ID is not stored.)
StoreNoID(i) == UNCHANGED ids
StoreID(i) == ids' = ids \cup {i.id}

\* (Defect: a cluster without display name is stored under none.)
StoreAnyName(i, arg) ==
  names' = [n \in DOMAIN names \cup {i.name} |-> IF n = i.name THEN i.id ELSE names[n]]
\* (Defect: a cluster is stored under the identifier that was asked for.)
StoreArg(i, arg) ==
  names' = [n \in DOMAIN names \cup {arg} |-> IF n = arg THEN i.id ELSE names[n]]
StoreName(i, arg) ==
  IF i.name = None THEN UNCHANGED names
  ELSE names' = [n \in DOMAIN names \cup {i.name} |->
                   IF n = i.name THEN i.id ELSE names[n]]

StoreFoundID(c) ==
  /\ At(c, "storeID")
  /\ StoreID(call[c].item)
  /\ Goto(c, "storeName")
  /\ UNCHANGED <<names, discovered>>

StoreFoundName(c) ==
  /\ At(c, "storeName")
  /\ StoreName(call[c].item, call[c].arg)
  /\ Return(c, call[c].item.id)
  /\ UNCHANGED <<ids, discovered>>

\* Clusters are stored up to the one with the name that was asked for.
StoreListedID(c) ==
  /\ At(c, "listed")
  /\ \E i \in call[c].listing :
       /\ StoreID(i)
       /\ Step(c, [call[c] EXCEPT !.pc = "storeListed", !.item = i,
                                  !.listing = @ \ {i}])
  /\ UNCHANGED <<names, discovered>>

StoreListedName(c) ==
  /\ At(c, "storeListed")
  /\ StoreName(call[c].item, call[c].arg)
  /\ IF call[c].item.name = call[c].arg
     THEN Return(c, call[c].item.id) ELSE Goto(c, "listed")
  /\ UNCHANGED <<ids, discovered>>

NoSuchCluster(c) == At(c, "listed") /\ call[c].listing = {} /\ Fails(c)

-----------------------------------------------------------------------------
(* ResolveGVR: an apiVersion, the built-in table, a qualified kind, or the *)
(* only group that has the kind.                                           *)

\* An apiVersion names a group, of the core API the empty one, and a version;
\* without one, a group may still qualify the kind.
Fits(r, list) ==
  /\ r.kind \in list.kinds
  /\ IF r.version # "" THEN <<r.group, r.version>> = <<list.group, list.version>>
     ELSE r.group \in {"", list.group}

\* Of the groups that answered, the first list with the kind in each.
Matches(r, d) ==
  LET fitting == {i \in DOMAIN d.lists : d.lists[i].group \in d.groups /\ Fits(r, d.lists[i])} IN
  {i \in fitting : \A j \in fitting : d.lists[j].group = d.lists[i].group => i <= j}

Discovers(r) == r.version # "" \/ r.group # "" \/ r.kind \notin BuiltIn

\* (Defect: a kind that is not found is looked for again in the cache.)
RetryUnforced(state) ==
  IF state.forced THEN Answer(state, "notFound")
  ELSE GetClusterID(state, "loadDiscovery", state.request.cluster)
\* (Defect: what the cache does not have is not found.)
RetryNever(state) == Answer(state, "notFound")
\* What is not found is looked for once more, past the cache.
Retry(state) ==
  IF state.forced THEN Answer(state, "notFound")
  ELSE GetClusterID([state EXCEPT !.forced = TRUE], "loadDiscovery",
                    state.request.cluster)

\* The lists are gone through; nothing else is read.
ResolveGVR(state) ==
  LET found == Cardinality(Matches(state.request, state.discovery)) IN
  CASE found = 0 -> Retry(state)
    [] found = 1 -> GetClusterID([state EXCEPT !.discovery = NoDiscovery(0)], "connect",
                                 state.request.cluster)
    [] OTHER -> Answer(state, "ambiguous")

\* apiResources, up to the fetch, which looks up the ID as if it were a name.
LoadDiscovery(c) ==
  LET at == call[c].id
      asked == [call[c] EXCEPT !.target = at] IN
  /\ At(c, "loadDiscovery")
  /\ IF ~call[c].forced /\ at \in DOMAIN discovered /\ now < discovered[at].expiry
     THEN Step(c, ResolveGVR([asked EXCEPT !.discovery = discovered[at].discovery]))
     ELSE Step(c, GetClusterID(asked, "fetch", at))
  /\ UNCHANGED caches

Exists(i) == i \in DOMAIN clusters \cup {"local"}

Groups(lists) == {lists[i].group : i \in DOMAIN lists}

\* Groups that do not answer are left out, unless none does.
FetchAPIResources(c) ==
  LET at == call[c].id IN
  /\ At(c, "fetch") /\ Exists(at)
  /\ \E groups \in SUBSET Groups(served[at]) :
       /\ groups = {} => served[at] = <<>>
       /\ Step(c, [call[c] EXCEPT !.pc = "storeDiscovery",
                     !.discovery = Discovery(served[at], groups, at, drift)])
  /\ UNCHANGED caches

\* (Defect: the cache is keyed by what the caller calls the cluster.)
KeyAsGiven(state) == state.request.cluster
Key(state) == state.target

StoreDiscovery(c) ==
  /\ At(c, "storeDiscovery")
  /\ discovered' =
       [i \in DOMAIN discovered \cup {Key(call[c])} |->
          IF i = Key(call[c])
          THEN [discovery |-> call[c].discovery, expiry |-> now + TTL]
          ELSE discovered[i]]
  /\ Step(c, ResolveGVR(call[c]))
  /\ UNCHANGED <<ids, names>>

-----------------------------------------------------------------------------
(* The operations.                                                         *)

\* GetResource and GetResources look the cluster up again for the request
\* itself, after ResolveGVR.
Connect(c) ==
  /\ At(c, "connect")
  /\ \E answer \in {"done", "failed"} : Step(c, Answer(call[c], answer))
  /\ UNCHANGED caches

\* GetResourceAtAnyAPIVersion and GetResourcesAtAnyAPIVersion try the versions
\* the group of a built-in kind has, one request after the other.
TryNext(c, state) ==
  LET left == {i \in DOMAIN state.discovery.lists :
                 i > state.tried /\ state.discovery.lists[i].group = state.request.group} IN
  \/ left = {} /\ Step(c, Answer(state, "failed"))
  \/ \E i \in left :
       /\ \A j \in left : i <= j
       /\ Step(c, GetClusterID([state EXCEPT !.tried = i], "tryVersion",
                               state.request.cluster))

GetAPIVersions(c) ==
  /\ At(c, "groups") /\ Exists(call[c].id)
  /\ TryNext(c, [call[c] EXCEPT !.discovery =
                    Discovery(served[call[c].id], {}, call[c].id, drift)])
  /\ UNCHANGED caches

TryVersion(c) ==
  /\ At(c, "tryVersion")
  /\ Step(c, Answer(call[c], "done")) \/ TryNext(c, call[c])
  /\ UNCHANGED caches

Malformed(r) == r.kind = "" \/ (r.operation = "any" /\ r.kind \notin BuiltIn)

Begin(c, r) ==
  LET begun == [Idle EXCEPT !.request = r, !.began = drift] IN
  /\ At(c, "idle")
  /\ Step(c, IF Malformed(r) THEN Answer(begun, "failed")
             ELSE GetClusterID(begun, CASE r.operation = "any" -> "groups"
                                        [] Discovers(r) -> "loadDiscovery"
                                        [] OTHER -> "connect",
                               r.cluster))
  /\ UNCHANGED caches

Refused(c) ==
  /\ call[c].pc \in {"getCluster", "listClusters", "fetch", "groups", "tryVersion"}
  /\ Fails(c)

Progress(c) ==
  /\ \/ LoadID(c) \/ LoadName(c) \/ GetCluster(c) \/ ListClusters(c)
     \/ StoreFoundID(c) \/ StoreFoundName(c)
     \/ StoreListedID(c) \/ StoreListedName(c) \/ NoSuchCluster(c)
     \/ LoadDiscovery(c) \/ FetchAPIResources(c) \/ StoreDiscovery(c)
     \/ Connect(c) \/ GetAPIVersions(c) \/ TryVersion(c)
     \/ Refused(c)
  /\ UNCHANGED <<world, now>>

-----------------------------------------------------------------------------
(* Time and the owners of the clusters.                                    *)

Tick == now < MaxNow /\ now' = now + 1 /\ UNCHANGED <<world, caches, call>>

Drift == drift < MaxDrift /\ drift' = drift + 1

\* A cluster is created, or renamed.
NameCluster(i, n) ==
  /\ Drift
  /\ i \in DOMAIN clusters => clusters[i] # n
  /\ clusters' = [j \in DOMAIN clusters \cup {i} |-> IF j = i THEN n ELSE clusters[j]]
  /\ named' = named \cup {<<i, i>>, <<n, i>>}
  /\ UNCHANGED <<agenda, served, now, caches, call>>

DeleteCluster(i) ==
  /\ Drift
  /\ clusters' = [j \in DOMAIN clusters \ {i} |-> clusters[j]]
  /\ UNCHANGED <<agenda, served, named, now, caches, call>>

ServeAPIs(i, lists) ==
  /\ Drift
  /\ served' = [served EXCEPT ![i] = lists]
  /\ UNCHANGED <<agenda, clusters, named, now, caches, call>>

Init ==
  /\ \E s \in Starts : clusters = s.clusters /\ served = s.served /\ agenda = s.agenda
  /\ drift = 0 /\ now = 0
  /\ named = {<<i, i>> : i \in DOMAIN clusters}
             \cup {<<clusters[i], i>> : i \in DOMAIN clusters}
  /\ ids = {} /\ names = <<>> /\ discovered = <<>>
  /\ call = [c \in Calls |-> Idle]

Next ==
  \/ \E c \in Calls : \/ \E r \in agenda : Begin(c, r) /\ UNCHANGED <<world, now>>
                      \/ Progress(c)
  \/ Tick
  \/ \E i \in ClusterIDs :
       \/ \E n \in Names \cup {None} : NameCluster(i, n)
       \/ DeleteCluster(i)
       \/ \E lists \in Listings : ServeAPIs(i, lists)

\* Goroutines run, and a request to Rancher is answered or given up.
Spec == Init /\ [][Next]_vars /\ \A c \in Calls : WF_vars(Progress(c))

-----------------------------------------------------------------------------

Lookup == {"loadID", "loadName", "getCluster", "listClusters", "storeID", "storeName",
           "listed", "storeListed"}
Goals == {"loadDiscovery", "fetch", "connect", "groups", "tryVersion"}
Labels == {"idle", "storeDiscovery"} \cup Lookup \cup Goals \cup Answers

Known == ClusterIDs \cup {"local"}
Identifiers == {r.cluster : r \in Requests} \cup Known \cup {"none"}
Items == [id : ClusterIDs, name : Names \cup {None}]
Discoveries ==
  [lists : Listings \cup {<<>>}, groups : SUBSET STRING, from : Known \cup {"none"},
   readAt : Nat]
States ==
  [pc : Labels, request : Requests \cup {None}, goal : Goals \cup {"none"},
   arg : Identifiers, id : Known \cup {"none"}, target : Known \cup {"none"},
   forced : BOOLEAN, item : Items \cup {None}, listing : SUBSET Items,
   tried : Nat, discovery : Discoveries, began : Nat]

\* Type correctness of the caches and of the calls.
TypeOK ==
  /\ agenda \subseteq Requests /\ drift \in Nat /\ now \in Nat
  /\ DOMAIN clusters \subseteq ClusterIDs
  /\ \A i \in DOMAIN clusters : clusters[i] \in Names \cup {None}
  /\ served \in [Known -> Listings]
  /\ ids \subseteq ClusterIDs
  /\ DOMAIN names \subseteq Names
  /\ \A n \in DOMAIN names : names[n] \in ClusterIDs
  /\ DOMAIN discovered \subseteq Known
  /\ \A i \in DOMAIN discovered :
       discovered[i] \in [discovery : Discoveries, expiry : Nat]
  /\ call \in [Calls -> States]

\* An ID that a lookup has handed out is known to be one from then on: when a
\* later step looks it up as if it were a name, it leads to itself, even where
\* another cluster has it as its display name.
KnownIDs ==
  /\ \A n \in DOMAIN names : names[n] \in ids
  /\ \A c \in Calls : call[c].pc \in Goals => call[c].id \in ids \cup {"local"}

\* The never-invalidated caches may be stale but never wrong: a lookup leads to
\* a cluster that has had that ID or display name.
NamedSo ==
  \A c \in Calls : call[c].pc \in Goals /\ call[c].id # "local" =>
    <<call[c].arg, call[c].id>> \in named

\* What is cached for a cluster was read from that cluster, whatever it was
\* called by, and whichever other lookups ran in between.
DiscoveryMatches ==
  \A i \in DOMAIN discovered : discovered[i].discovery.from = i

\* That a kind is unknown is said only from a discovery made during the call,
\* however full the cache is of older ones.
FreshNotFound ==
  \A c \in Calls : At(c, "notFound") => call[c].discovery.readAt >= call[c].began

\* Every call is answered: an unknown kind is looked for twice and no more.
Answered ==
  \A c \in Calls : ~At(c, "idle") ~> call[c].pc \in Answers

-----------------------------------------------------------------------------
(* The inductive invariant behind the safety properties.                    *)

Told(item, pairs) == {<<item.id, item.id>>, <<item.name, item.id>>} \subseteq pairs

WorldTold == \A i \in DOMAIN clusters : Told(Item(i), named)

CachesTold ==
  /\ \A i \in ids : <<i, i>> \in named
  /\ \A n \in DOMAIN names : names[n] \in ids /\ <<n, names[n]>> \in named

\* What a call in state s knows, given the known IDs, the pairs that have been
\* told, and the number of changes: all three only grow.
CallTold(s, is, pairs, changes) ==
  /\ s.began <= changes
  /\ s.pc \in Lookup \cup Goals \cup {"storeDiscovery"} => s.request \in Requests
  /\ s.pc \in Lookup => s.goal \in Goals
  /\ s.pc \in Goals => /\ s.id \in is \cup {"local"}
                       /\ s.id # "local" => <<s.arg, s.id>> \in pairs
  /\ \A i \in s.listing : Told(i, pairs)
  /\ s.pc \in {"storeID", "storeName", "storeListed"} =>
       s.item \in Items /\ Told(s.item, pairs)
  /\ s.pc \in {"storeID", "storeName"} => s.item.id = s.arg
  /\ s.pc \in {"storeName", "storeListed"} => s.item.id \in is
  /\ s.pc \in Lookup /\ s.goal = "fetch" =>
       s.pc = "loadID" /\ s.arg = s.target /\ s.target \in is \cup {"local"}
  /\ s.pc = "fetch" => s.id = s.target
  /\ s.pc = "storeDiscovery" => s.discovery.from = s.target /\ s.target \in Known
  /\ s.pc \in {"storeDiscovery", "notFound"} => s.discovery.readAt >= s.began

IInv ==
  /\ TypeOK /\ WorldTold /\ CachesTold /\ DiscoveryMatches
  /\ \A c \in Calls : CallTold(call[c], ids, named, drift)

=============================================================================
