------------------------ MODULE ClusterClientProofs ------------------------
(***************************************************************************)
(* The caches of the cluster client, for any clusters, calls and requests: *)
(* stale at worst.  Every step of a call moves one call to a state that    *)
(* knows only what the caches know and what has been true.                 *)
(***************************************************************************)
EXTENDS ClusterClient, TLAPS

\* The constants keep display names, IDs and the management cluster apart.
LEMMA NoneIsNoName == None \notin Names /\ None \notin ClusterIDs /\ "local" \notin ClusterIDs
BY ClientAssumption

\* What a call knows stays true while IDs, pairs and changes grow.
LEMMA ToldGrows ==
  ASSUME NEW s, NEW is, NEW pairs, NEW changes \in Nat, NEW is2, NEW pairs2,
         NEW changes2 \in Nat, s \in States,
         CallTold(s, is, pairs, changes),
         is \subseteq is2, pairs \subseteq pairs2, changes <= changes2
  PROVE  CallTold(s, is2, pairs2, changes2)
<1>1. s.began <= changes2
  BY DEF CallTold, States
<1> QED
  BY <1>1 DEF CallTold, Told

\* A lookup can begin from any state of a call with a request.
LEMMA AskTold ==
  ASSUME NEW s \in States, NEW is, NEW pairs, NEW changes \in Nat,
         NEW goal \in Goals \ {"fetch"}, NEW arg \in Identifiers,
         s.request \in Requests, s.began <= changes,
         \A i \in s.listing : Told(i, pairs)
  PROVE  /\ GetClusterID(s, goal, arg) \in States
         /\ CallTold(GetClusterID(s, goal, arg), is, pairs, changes)
<1> DEFINE t == GetClusterID(s, goal, arg)
<1>1. t \in States
  BY DEF GetClusterID, States, Labels, Lookup
<1>2. /\ t.pc = "loadID" /\ t.goal = goal /\ t.request = s.request /\ t.began = s.began
      /\ t.listing = s.listing
  BY DEF GetClusterID, States
<1>3. CallTold(t, is, pairs, changes)
  BY <1>2 DEF CallTold, Lookup, Goals
<1> QED
  BY <1>1, <1>3

\* A call that has not begun is a state of a call, and knows nothing.
LEMMA IdleTold ==
  /\ Idle \in States /\ Idle.pc = "idle" /\ Idle.began = 0 /\ Idle.listing = {}
  /\ Idle.discovery = NoDiscovery(0)
BY DEF Idle, NoDiscovery, Discovery, States, Discoveries, Labels, Identifiers

\* An answer keeps nothing but the age of the discovery.
LEMMA AnswerTold ==
  ASSUME NEW s \in States, NEW is, NEW pairs, NEW changes \in Nat,
         NEW answer \in Answers, s.began <= changes,
         answer = "notFound" => s.discovery.readAt >= s.began
  PROVE  /\ Answer(s, answer) \in States
         /\ CallTold(Answer(s, answer), is, pairs, changes)
<1> DEFINE t == Answer(s, answer)
<1>0. s.discovery.readAt \in Nat /\ s.began \in Nat
  BY DEF States, Discoveries
<1>1. NoDiscovery(s.discovery.readAt) \in Discoveries
  BY <1>0 DEF NoDiscovery, Discovery, Discoveries
<1>2. t \in States
  BY <1>0, <1>1, IdleTold DEF Answer, States, Labels
<1>3. t.pc = answer /\ t.began = s.began /\ t.listing = {}
  BY IdleTold DEF Answer, States
<1>4. t.discovery.readAt = s.discovery.readAt
  BY IdleTold DEF Answer, States, NoDiscovery, Discovery
<1> HIDE DEF t
<1>5. CallTold(t, is, pairs, changes)
  BY <1>3, <1>4 DEF CallTold, Answers, Lookup, Goals
<1> QED
  BY <1>2, <1>5 DEF t

\* The caches start empty, and Rancher knows the names of its clusters.
LEMMA InitIInv == Init => IInv
<1> SUFFICES ASSUME Init PROVE IInv
  OBVIOUS
<1> USE DEF Init
<1>2. TypeOK
  <2>1. DOMAIN names = {} /\ DOMAIN discovered = {}
    OBVIOUS
  <2>2. PICK s \in Starts : clusters = s.clusters /\ served = s.served /\ agenda = s.agenda
    OBVIOUS
  <2>3. /\ s.agenda \subseteq Requests
        /\ DOMAIN s.clusters \subseteq ClusterIDs
        /\ \A i \in DOMAIN s.clusters : s.clusters[i] \in Names \cup {None}
        /\ s.served \in [ClusterIDs \cup {"local"} -> Listings]
    BY <2>2, ClientAssumption
  <2> QED
    <3>1. /\ agenda \subseteq Requests /\ drift \in Nat /\ now \in Nat
          /\ DOMAIN clusters \subseteq ClusterIDs
          /\ \A i \in DOMAIN clusters : clusters[i] \in Names \cup {None}
          /\ served \in [Known -> Listings]
      BY <2>2, <2>3 DEF Known
    <3>2. call \in [Calls -> States] /\ ids = {}
      BY IdleTold
    <3> HIDE DEF Init
    <3> QED
      BY <2>1, <3>1, <3>2 DEF TypeOK
<1>3. WorldTold
  BY DEF WorldTold, Told, Item
<1>4. CachesTold /\ DiscoveryMatches
  BY DEF CachesTold, DiscoveryMatches
<1>5. \A c \in Calls : CallTold(call[c], ids, named, drift)
  BY IdleTold DEF CallTold, Lookup, Goals
<1> QED
  BY <1>2, <1>3, <1>4, <1>5 DEF IInv

CachesTyped ==
  /\ ids \subseteq ClusterIDs
  /\ DOMAIN names \subseteq Names
  /\ \A n \in DOMAIN names : names[n] \in ClusterIDs
  /\ DOMAIN discovered \subseteq Known
  /\ \A i \in DOMAIN discovered :
       discovered[i] \in [discovery : Discoveries, expiry : Nat]

\* A step moves one call; the caches gain what has been true.
LEMMA StepKeeps ==
  ASSUME IInv, NEW c \in Calls, NEW next \in States, Step(c, next),
         UNCHANGED <<world, now>>, ids \subseteq ids',
         CachesTyped', CachesTold', DiscoveryMatches',
         CallTold(next, ids', named, drift)
  PROVE  IInv'
<1> USE DEF world
<1>0. TypeOK /\ drift \in Nat
  BY DEF IInv, TypeOK
<1>1. TypeOK'
  BY <1>0 DEF TypeOK, CachesTyped, Step
<1>2. WorldTold'
  BY DEF IInv, WorldTold, Told, Item
<1>3. ASSUME NEW d \in Calls
      PROVE  CallTold(call'[d], ids', named', drift')
  <2>1. CASE d = c
    BY <1>0, <2>1 DEF TypeOK, Step
  <2>2. CASE d # c
    <3>1. call'[d] = call[d] /\ call[d] \in States
      BY <1>0, <2>2 DEF TypeOK, Step
    <3>2. CallTold(call[d], ids, named, drift)
      BY DEF IInv
    <3> QED
      BY <1>0, <3>1, <3>2, ToldGrows
  <2> QED
    BY <2>1, <2>2
<1> QED
  BY <1>1, <1>2, <1>3 DEF IInv

\* Most steps leave the caches alone.
LEMMA QuietKeeps ==
  ASSUME IInv, NEW c \in Calls, NEW next \in States, Step(c, next),
         UNCHANGED <<world, now>>, UNCHANGED caches,
         CallTold(next, ids, named, drift)
  PROVE  IInv'
<1>1. /\ ids' = ids /\ names' = names /\ discovered' = discovered
  BY DEF caches
<1>2. CachesTyped' /\ CachesTold' /\ DiscoveryMatches'
  BY <1>1 DEF IInv, TypeOK, CachesTyped, CachesTold, DiscoveryMatches, world
<1> QED
  BY <1>1, <1>2, StepKeeps

\* The state a call is in.
LEMMA HereTold ==
  ASSUME IInv, NEW c \in Calls
  PROVE  /\ call[c] \in States /\ CallTold(call[c], ids, named, drift)
         /\ drift \in Nat /\ call[c].began \in Nat /\ call[c].began <= drift
BY DEF IInv, TypeOK, CallTold, States

\* A call that ends leaves the invariant.
LEMMA AnswerKeeps ==
  ASSUME IInv, NEW c \in Calls, NEW answer \in Answers \ {"notFound"},
         Step(c, Answer(call[c], answer)), UNCHANGED <<world, now>>, UNCHANGED caches
  PROVE  IInv'
<1>1. /\ call[c] \in States /\ drift \in Nat /\ call[c].began <= drift
  BY HereTold
<1> QED
  BY <1>1, AnswerTold, QuietKeeps

\* A label of a lookup, and the ID it returns.
LEMMA GotoTold ==
  ASSUME NEW s \in States, NEW label \in Labels
  PROVE  LET t == [s EXCEPT !.pc = label] IN
         /\ t \in States /\ t.pc = label
         /\ t.request = s.request /\ t.goal = s.goal /\ t.arg = s.arg /\ t.id = s.id
         /\ t.target = s.target /\ t.item = s.item /\ t.listing = s.listing
         /\ t.discovery = s.discovery /\ t.began = s.began
BY DEF States

\* Where a lookup returns, the ID is known, and known by what was asked for.
LEMMA ReturnTold ==
  ASSUME NEW s \in States, NEW is, NEW pairs, NEW changes \in Nat, NEW id \in Known,
         s.began <= changes, s.pc \in Lookup, CallTold(s, is, pairs, changes),
         id \in is \cup {"local"}, id # "local" => <<s.arg, id>> \in pairs,
         s.goal = "fetch" => id = s.target
  PROVE  LET t == [s EXCEPT !.pc = s.goal, !.id = id, !.item = None, !.listing = {}] IN
         t \in States /\ CallTold(t, is, pairs, changes)
<1> DEFINE t == [s EXCEPT !.pc = s.goal, !.id = id, !.item = None, !.listing = {}]
<1>1. s.goal \in Goals /\ s.request \in Requests
  BY DEF CallTold
<1>2. t \in States
  BY <1>1 DEF States, Labels
<1>3. /\ t.pc = s.goal /\ t.id = id /\ t.listing = {} /\ t.request = s.request
      /\ t.arg = s.arg /\ t.target = s.target /\ t.began = s.began
  BY DEF States
<1> HIDE DEF t
<1>4. CallTold(t, is, pairs, changes)
  BY <1>1, <1>3 DEF CallTold, Goals, Lookup
<1> QED
  BY <1>2, <1>4 DEF t

\* An identifier that is local or a known ID is returned as it is.
LEMMA LoadIDKeeps ==
  ASSUME IInv, NEW c \in Calls, LoadID(c), UNCHANGED <<world, now>>
  PROVE  IInv'
<1> DEFINE s == call[c]
<1>0. s \in States /\ CallTold(s, ids, named, drift) /\ drift \in Nat /\ s.began <= drift
  BY HereTold
<1>1. s.pc = "loadID" /\ UNCHANGED caches
  BY DEF LoadID, At
<1>2. CASE s.arg = "local" \/ s.arg \in ids
  <2> DEFINE t == [s EXCEPT !.pc = s.goal, !.id = s.arg, !.item = None, !.listing = {}]
  <2>1. s.arg \in Known /\ (s.arg # "local" => <<s.arg, s.arg>> \in named)
    BY <1>2 DEF IInv, TypeOK, CachesTold, Known
  <2>2. s.goal = "fetch" => s.arg = s.target
    BY <1>0, <1>1 DEF CallTold, Lookup
  <2>3. t \in States /\ CallTold(t, ids, named, drift)
    BY <1>0, <1>1, <1>2, <2>1, <2>2, ReturnTold DEF Lookup
  <2>4. Step(c, t)
    BY <1>2 DEF LoadID, Return
  <2> HIDE DEF t, s
  <2> QED
    BY <1>1, <2>3, <2>4, QuietKeeps
<1>3. CASE ~(s.arg = "local" \/ s.arg \in ids)
  <2> DEFINE t == [s EXCEPT !.pc = "loadName"]
  <2>1. "loadName" \in Labels /\ "loadName" \in Lookup /\ "loadID" \in Lookup
    BY DEF Labels, Lookup
  <2>2. /\ t \in States /\ t.pc = "loadName"
        /\ t.request = s.request /\ t.goal = s.goal /\ t.arg = s.arg
        /\ t.target = s.target /\ t.listing = s.listing /\ t.began = s.began
    BY <1>0, <2>1, GotoTold
  <2>3. s.goal # "fetch"
    BY <1>0, <1>1, <1>3, <2>1 DEF CallTold
  <2>4. Step(c, t)
    BY <1>3 DEF LoadID, Goto
  <2> HIDE DEF t
  <2>5. CallTold(t, ids, named, drift)
    BY <1>0, <1>1, <2>1, <2>2, <2>3 DEF CallTold, Lookup, Goals
  <2> QED
    BY <1>1, <2>2, <2>4, <2>5, QuietKeeps
<1> QED
  BY <1>2, <1>3

\* The cache of names leads to IDs that are known.
LEMMA LoadNameKeeps ==
  ASSUME IInv, NEW c \in Calls, LoadName(c), UNCHANGED <<world, now>>
  PROVE  IInv'
<1> DEFINE s == call[c]
<1>0. s \in States /\ CallTold(s, ids, named, drift) /\ drift \in Nat /\ s.began <= drift
  BY HereTold
<1>1. s.pc = "loadName" /\ UNCHANGED caches
  BY DEF LoadName, At
<1>a. s.goal # "fetch"
  BY <1>0, <1>1 DEF CallTold, Lookup
<1>2. CASE s.arg \in DOMAIN names
  <2> DEFINE t == [s EXCEPT !.pc = s.goal, !.id = names[s.arg], !.item = None, !.listing = {}]
  <2>1. /\ names[s.arg] \in Known /\ names[s.arg] \in ids
        /\ <<s.arg, names[s.arg]>> \in named
    BY <1>2 DEF IInv, TypeOK, CachesTold, Known
  <2>3. t \in States /\ CallTold(t, ids, named, drift)
    BY <1>0, <1>1, <1>a, <2>1, ReturnTold DEF Lookup
  <2>4. Step(c, t)
    BY <1>2 DEF LoadName, Return
  <2> HIDE DEF t, s
  <2> QED
    BY <1>1, <2>3, <2>4, QuietKeeps
<1>3. CASE s.arg \notin DOMAIN names
  <2> DEFINE t == [s EXCEPT !.pc = "getCluster"]
  <2>1. "getCluster" \in Labels /\ "getCluster" \in Lookup /\ "loadName" \in Lookup
    BY DEF Labels, Lookup
  <2>2. /\ t \in States /\ t.pc = "getCluster"
        /\ t.request = s.request /\ t.goal = s.goal /\ t.arg = s.arg
        /\ t.target = s.target /\ t.listing = s.listing /\ t.began = s.began
    BY <1>0, <2>1, GotoTold
  <2>4. Step(c, t)
    BY <1>3 DEF LoadName, Goto
  <2> HIDE DEF t
  <2>5. CallTold(t, ids, named, drift)
    BY <1>0, <1>1, <1>a, <2>1, <2>2 DEF CallTold, Lookup, Goals
  <2> QED
    BY <1>1, <2>2, <2>4, <2>5, QuietKeeps
<1> QED
  BY <1>2, <1>3

\* The clusters as Rancher tells them.
LEMMA ItemTold ==
  ASSUME IInv, NEW i \in DOMAIN clusters
  PROVE  Item(i) \in Items /\ Told(Item(i), named) /\ Item(i).id = i
BY DEF IInv, TypeOK, WorldTold, Item, Items

\* What Rancher says of a cluster, or of all, is true at that moment.
LEMMA GetClusterKeeps ==
  ASSUME IInv, NEW c \in Calls, GetCluster(c) \/ ListClusters(c), UNCHANGED <<world, now>>
  PROVE  IInv'
<1> DEFINE s == call[c]
<1>0. s \in States /\ CallTold(s, ids, named, drift) /\ drift \in Nat /\ s.began <= drift
  BY HereTold
<1>1. s.pc \in {"getCluster", "listClusters"} /\ UNCHANGED caches
  BY DEF GetCluster, ListClusters, At
<1>a. s.goal # "fetch" /\ s.goal \in Goals /\ s.request \in Requests
  BY <1>0, <1>1 DEF CallTold, Lookup
<1>2. CASE GetCluster(c) /\ s.arg \in DOMAIN clusters
  <2> DEFINE t == [s EXCEPT !.pc = "storeID", !.item = Item(s.arg)]
  <2>1. Item(s.arg) \in Items /\ Told(Item(s.arg), named) /\ Item(s.arg).id = s.arg
    BY <1>2, ItemTold
  <2>2. t \in States
    BY <1>0, <2>1 DEF States, Labels, Lookup
  <2>3. /\ t.pc = "storeID" /\ t.item = Item(s.arg) /\ t.arg = s.arg /\ t.goal = s.goal
        /\ t.request = s.request /\ t.listing = s.listing /\ t.began = s.began
    BY <1>0 DEF States
  <2>4. Step(c, t)
    BY <1>2 DEF GetCluster
  <2> HIDE DEF t
  <2>5. CallTold(t, ids, named, drift)
    BY <1>0, <1>a, <2>1, <2>3 DEF CallTold, Lookup, Goals
  <2> QED
    BY <1>1, <2>2, <2>4, <2>5, QuietKeeps
<1>3. CASE GetCluster(c) /\ s.arg \notin DOMAIN clusters
  <2> DEFINE t == [s EXCEPT !.pc = "listClusters"]
  <2>1. "listClusters" \in Labels
    BY DEF Labels, Lookup
  <2>2. /\ t \in States /\ t.pc = "listClusters"
        /\ t.request = s.request /\ t.goal = s.goal /\ t.arg = s.arg
        /\ t.target = s.target /\ t.listing = s.listing /\ t.began = s.began
    BY <1>0, <2>1, GotoTold
  <2>4. Step(c, t)
    BY <1>3 DEF GetCluster, Goto
  <2> HIDE DEF t
  <2>5. CallTold(t, ids, named, drift)
    BY <1>0, <1>a, <2>2 DEF CallTold, Lookup, Goals
  <2> QED
    BY <1>1, <2>2, <2>4, <2>5, QuietKeeps
<1>4. CASE ListClusters(c)
  <2> DEFINE all == {Item(i) : i \in DOMAIN clusters}
             t == [s EXCEPT !.pc = "listed", !.listing = all]
  <2>1. all \subseteq Items /\ \A i \in all : Told(i, named)
    BY ItemTold
  <2> HIDE DEF all
  <2>2. t \in States
    BY <1>0, <2>1 DEF States, Labels, Lookup
  <2>3. /\ t.pc = "listed" /\ t.goal = s.goal
        /\ t.request = s.request /\ t.listing = all /\ t.began = s.began
    BY <1>0 DEF States
  <2>4. Step(c, t)
    BY <1>4 DEF ListClusters, all
  <2> HIDE DEF t
  <2>5. CallTold(t, ids, named, drift)
    BY <1>0, <1>a, <2>1, <2>3 DEF CallTold, Lookup, Goals
  <2> QED
    BY <1>1, <2>2, <2>4, <2>5, QuietKeeps
<1> QED
  BY <1>2, <1>3, <1>4

\* The ID of a cluster Rancher has told enters the cache of IDs.
LEMMA StoreIDTold ==
  ASSUME IInv, NEW item \in Items, Told(item, named), StoreID(item),
         UNCHANGED <<names, discovered, named>>
  PROVE  /\ CachesTyped' /\ CachesTold' /\ DiscoveryMatches'
         /\ ids \subseteq ids' /\ item.id \in ids'
BY DEF IInv, TypeOK, CachesTyped, CachesTold, DiscoveryMatches, StoreID, Told, Items

\* Its display name follows, when its ID is already there.
LEMMA StoreNameTold ==
  ASSUME IInv, NEW item \in Items, NEW arg, Told(item, named), item.id \in ids,
         StoreName(item, arg), UNCHANGED <<ids, discovered, named>>
  PROVE  CachesTyped' /\ CachesTold' /\ DiscoveryMatches'
<1>0. CachesTyped /\ CachesTold /\ DiscoveryMatches
  BY DEF IInv, TypeOK, CachesTyped
<1>1. CASE item.name = None
  BY <1>0, <1>1 DEF StoreName, CachesTyped, CachesTold, DiscoveryMatches
<1>2. CASE item.name # None
  <2>1. /\ DOMAIN names' = DOMAIN names \cup {item.name}
        /\ \A n \in DOMAIN names' : names'[n] = IF n = item.name THEN item.id ELSE names[n]
    BY <1>2 DEF StoreName
  <2>2. item.name \in Names /\ item.id \in ClusterIDs /\ <<item.name, item.id>> \in named
    BY <1>2 DEF Items, Told
  <2>3. CachesTold'
    BY <1>0, <2>1, <2>2 DEF CachesTold
  <2>4. CachesTyped' /\ DiscoveryMatches'
    BY <1>0, <2>1, <2>2 DEF CachesTyped, DiscoveryMatches
  <2> QED
    BY <2>3, <2>4
<1> QED
  BY <1>1, <1>2

\* The cluster that was found is stored by its ID.
LEMMA StoreFoundIDKeeps ==
  ASSUME IInv, NEW c \in Calls, StoreFoundID(c), UNCHANGED <<world, now>>
  PROVE  IInv'
<1> DEFINE s == call[c]
           t == [s EXCEPT !.pc = "storeName"]
<1>0. s \in States /\ CallTold(s, ids, named, drift) /\ drift \in Nat /\ s.began <= drift
  BY HereTold
<1>1. s.pc = "storeID" /\ Step(c, t) /\ UNCHANGED <<names, discovered, named>>
  BY DEF StoreFoundID, At, Goto, world
<1>2. s.item \in Items /\ Told(s.item, named) /\ StoreID(s.item)
  BY <1>0, <1>1 DEF CallTold, StoreFoundID
<1>3. /\ CachesTyped' /\ CachesTold' /\ DiscoveryMatches'
      /\ ids \subseteq ids' /\ s.item.id \in ids'
  BY <1>1, <1>2, StoreIDTold
<1>4. "storeName" \in Labels
  BY DEF Labels, Lookup
<1>5. /\ t \in States /\ t.pc = "storeName" /\ t.request = s.request /\ t.goal = s.goal
      /\ t.arg = s.arg /\ t.target = s.target /\ t.item = s.item
      /\ t.listing = s.listing /\ t.began = s.began
  BY <1>0, <1>4, GotoTold
<1>6. CallTold(t, ids', named, drift)
  <2> HIDE DEF t
  <2> QED
    BY <1>0, <1>1, <1>3, <1>5 DEF CallTold, Lookup, Goals
<1> HIDE DEF t
<1> QED
  BY <1>1, <1>3, <1>5, <1>6, StepKeeps

\* The cluster that was found is stored by its display name, and returned.
LEMMA StoreFoundNameKeeps ==
  ASSUME IInv, NEW c \in Calls, StoreFoundName(c), UNCHANGED <<world, now>>
  PROVE  IInv'
<1> DEFINE s == call[c]
           id == s.item.id
           t == [s EXCEPT !.pc = s.goal, !.id = id, !.item = None, !.listing = {}]
<1>0. s \in States /\ CallTold(s, ids, named, drift) /\ drift \in Nat /\ s.began <= drift
  BY HereTold
<1>1. s.pc = "storeName" /\ Step(c, t) /\ UNCHANGED <<ids, discovered, named>>
  BY DEF StoreFoundName, At, Return, world
<1>2. s.item \in Items /\ Told(s.item, named) /\ id \in ids /\ StoreName(s.item, s.arg)
  BY <1>0, <1>1 DEF CallTold, StoreFoundName
<1>3. CachesTyped' /\ CachesTold' /\ DiscoveryMatches'
  BY <1>1, <1>2, StoreNameTold
<1>4. id \in Known /\ s.goal # "fetch" /\ id = s.arg /\ <<id, id>> \in named
  BY <1>0, <1>1, <1>2 DEF CallTold, Items, Known, Told, Lookup
<1>5. t \in States /\ CallTold(t, ids, named, drift)
  BY <1>0, <1>1, <1>2, <1>4, ReturnTold DEF Lookup
<1> HIDE DEF t
<1> QED
  BY <1>1, <1>3, <1>5, StepKeeps

\* A listed cluster is stored by its ID.
LEMMA StoreListedIDKeeps ==
  ASSUME IInv, NEW c \in Calls, StoreListedID(c), UNCHANGED <<world, now>>
  PROVE  IInv'
<1> DEFINE s == call[c]
<1>0. s \in States /\ CallTold(s, ids, named, drift) /\ drift \in Nat /\ s.began <= drift
  BY HereTold
<1>1. s.pc = "listed" /\ UNCHANGED <<names, discovered, named>>
  BY DEF StoreListedID, At, world
<1>2. PICK i \in s.listing :
        /\ StoreID(i)
        /\ Step(c, [s EXCEPT !.pc = "storeListed", !.item = i, !.listing = @ \ {i}])
  BY DEF StoreListedID
<1> DEFINE t == [s EXCEPT !.pc = "storeListed", !.item = i, !.listing = @ \ {i}]
<1>3. i \in Items /\ Told(i, named)
  BY <1>0 DEF CallTold, States
<1>4. /\ CachesTyped' /\ CachesTold' /\ DiscoveryMatches'
      /\ ids \subseteq ids' /\ i.id \in ids'
  BY <1>1, <1>2, <1>3, StoreIDTold
<1>5. t \in States
  BY <1>0, <1>3 DEF States, Labels, Lookup
<1>6. /\ t.pc = "storeListed" /\ t.request = s.request /\ t.goal = s.goal
      /\ t.item = i /\ t.listing = s.listing \ {i} /\ t.began = s.began
  BY <1>0 DEF States
<1>7. CallTold(t, ids', named, drift)
  <2> HIDE DEF t
  <2> QED
    BY <1>0, <1>1, <1>3, <1>4, <1>6 DEF CallTold, Lookup, Goals
<1>8. Step(c, t)
  BY <1>2
<1> HIDE DEF t
<1> QED
  BY <1>4, <1>5, <1>7, <1>8, StepKeeps

\* A listed cluster is stored by its name, and returned if it was asked for.
LEMMA StoreListedNameKeeps ==
  ASSUME IInv, NEW c \in Calls, StoreListedName(c), UNCHANGED <<world, now>>
  PROVE  IInv'
<1> DEFINE s == call[c]
           id == s.item.id
<1>0. s \in States /\ CallTold(s, ids, named, drift) /\ drift \in Nat /\ s.began <= drift
  BY HereTold
<1>1. s.pc = "storeListed" /\ UNCHANGED <<ids, discovered, named>>
  BY DEF StoreListedName, At, world
<1>2. s.item \in Items /\ Told(s.item, named) /\ id \in ids /\ StoreName(s.item, s.arg)
  BY <1>0, <1>1 DEF CallTold, StoreListedName
<1>3. CachesTyped' /\ CachesTold' /\ DiscoveryMatches'
  BY <1>1, <1>2, StoreNameTold
<1>4. id \in Known /\ s.goal # "fetch" /\ <<s.item.name, id>> \in named
  BY <1>0, <1>1, <1>2 DEF CallTold, Items, Known, Told, Lookup
<1>5. CASE s.item.name = s.arg
  <2> DEFINE t == [s EXCEPT !.pc = s.goal, !.id = id, !.item = None, !.listing = {}]
  <2>1. t \in States /\ CallTold(t, ids, named, drift)
    BY <1>0, <1>1, <1>2, <1>4, <1>5, ReturnTold DEF Lookup
  <2>2. Step(c, t)
    BY <1>5 DEF StoreListedName, Return
  <2> HIDE DEF t
  <2> QED
    BY <1>1, <1>3, <2>1, <2>2, StepKeeps
<1>6. CASE s.item.name # s.arg
  <2> DEFINE t == [s EXCEPT !.pc = "listed"]
  <2>1. "listed" \in Labels
    BY DEF Labels, Lookup
  <2>2. /\ t \in States /\ t.pc = "listed" /\ t.request = s.request /\ t.goal = s.goal
        /\ t.listing = s.listing /\ t.began = s.began
    BY <1>0, <2>1, GotoTold
  <2>3. Step(c, t)
    BY <1>6 DEF StoreListedName, Goto
  <2> HIDE DEF t
  <2>4. CallTold(t, ids, named, drift)
    BY <1>0, <1>1, <1>4, <2>2 DEF CallTold, Lookup, Goals
  <2> QED
    BY <1>1, <1>3, <2>2, <2>3, <2>4, StepKeeps
<1> QED
  BY <1>5, <1>6

\* A resolution ends the call, connects it, or starts over past the cache.
LEMMA ResolveTold ==
  ASSUME NEW s \in States, NEW is, NEW pairs, NEW changes \in Nat,
         s.request \in Requests, s.began <= changes, \A i \in s.listing : Told(i, pairs),
         s.forced => s.discovery.readAt >= s.began
  PROVE  ResolveGVR(s) \in States /\ CallTold(ResolveGVR(s), is, pairs, changes)
<1>0. s.request.cluster \in Identifiers
  BY DEF Identifiers
<1>1. Retry(s) \in States /\ CallTold(Retry(s), is, pairs, changes)
  <2>1. CASE s.forced
    BY <2>1, AnswerTold DEF Retry, Answers
  <2>2. CASE ~s.forced
    <3> DEFINE u == [s EXCEPT !.forced = TRUE]
    <3>1. u \in States /\ u.request = s.request /\ u.began = s.began /\ u.listing = s.listing
      BY DEF States
    <3>2. Retry(s) = GetClusterID(u, "loadDiscovery", s.request.cluster)
      BY <2>2 DEF Retry
    <3> HIDE DEF u
    <3> QED
      BY <1>0, <3>1, <3>2, AskTold DEF Goals
  <2> QED
    BY <2>1, <2>2 DEF States
<1>2. LET t == GetClusterID([s EXCEPT !.discovery = NoDiscovery(0)], "connect",
                            s.request.cluster) IN
      t \in States /\ CallTold(t, is, pairs, changes)
  <2> DEFINE u == [s EXCEPT !.discovery = NoDiscovery(0)]
  <2>1. NoDiscovery(0) \in Discoveries
    BY DEF NoDiscovery, Discovery, Discoveries
  <2>2. u \in States /\ u.request = s.request /\ u.began = s.began /\ u.listing = s.listing
    BY <2>1 DEF States
  <2> HIDE DEF u
  <2>3. GetClusterID(u, "connect", s.request.cluster) \in States
        /\ CallTold(GetClusterID(u, "connect", s.request.cluster), is, pairs, changes)
    BY <1>0, <2>2, AskTold DEF Goals
  <2> QED
    BY <2>3 DEF u
<1>3. Answer(s, "ambiguous") \in States /\ CallTold(Answer(s, "ambiguous"), is, pairs, changes)
  BY AnswerTold DEF Answers
<1> QED
  BY <1>1, <1>2, <1>3 DEF ResolveGVR

\* The cluster's own cached discovery is used, or a fetch from that cluster begins.
LEMMA LoadDiscoveryKeeps ==
  ASSUME IInv, NEW c \in Calls, LoadDiscovery(c), UNCHANGED <<world, now>>
  PROVE  IInv'
<1> DEFINE s == call[c]
           asked == [s EXCEPT !.target = s.id]
<1>0. s \in States /\ CallTold(s, ids, named, drift) /\ drift \in Nat /\ s.began <= drift
  BY HereTold
<1>1. s.pc = "loadDiscovery" /\ UNCHANGED caches
  BY DEF LoadDiscovery, At
<1>2. /\ s.request \in Requests /\ s.id \in ids \cup {"local"}
      /\ \A i \in s.listing : Told(i, named)
  BY <1>0, <1>1 DEF CallTold, Goals
<1>3. /\ asked \in States /\ asked.request = s.request /\ asked.began = s.began
      /\ asked.listing = s.listing /\ asked.forced = s.forced /\ asked.target = s.id
      /\ s.id \in Known /\ ids \subseteq ClusterIDs
  BY <1>0, <1>2 DEF States, Known, IInv, TypeOK
<1>4. CASE ~s.forced /\ s.id \in DOMAIN discovered /\ now < discovered[s.id].expiry
  <2> DEFINE u == [asked EXCEPT !.discovery = discovered[s.id].discovery]
  <2>1. discovered[s.id].discovery \in Discoveries
    BY <1>4 DEF IInv, TypeOK
  <2> HIDE DEF asked
  <2>2. /\ u \in States /\ u.request = s.request /\ u.began = s.began
        /\ u.listing = s.listing /\ u.forced = s.forced
    BY <1>3, <2>1 DEF States
  <2>3. Step(c, ResolveGVR(u))
    BY <1>4 DEF LoadDiscovery, asked
  <2> HIDE DEF u
  <2>4. ResolveGVR(u) \in States /\ CallTold(ResolveGVR(u), ids, named, drift)
    BY <1>0, <1>2, <1>4, <2>2, ResolveTold
  <2> QED
    BY <1>1, <2>3, <2>4, QuietKeeps
<1>5. CASE ~(~s.forced /\ s.id \in DOMAIN discovered /\ now < discovered[s.id].expiry)
  <2> DEFINE t == GetClusterID(asked, "fetch", s.id)
  <2>1. Step(c, t)
    BY <1>5 DEF LoadDiscovery
  <2> HIDE DEF asked
  <2>2. t \in States
    BY <1>3 DEF GetClusterID, States, Labels, Lookup, Goals, Identifiers
  <2>3. /\ t.pc = "loadID" /\ t.goal = "fetch" /\ t.arg = s.id /\ t.target = s.id
        /\ t.request = s.request /\ t.listing = s.listing /\ t.began = s.began
    BY <1>3 DEF GetClusterID, States
  <2> HIDE DEF t
  <2>4. CallTold(t, ids, named, drift)
    BY <1>0, <1>2, <2>3 DEF CallTold, Lookup, Goals
  <2> QED
    BY <1>1, <2>1, <2>2, <2>4, QuietKeeps
<1> QED
  BY <1>4, <1>5

\* The groups of a cluster's lists are strings.
LEMMA GroupsAreStrings ==
  ASSUME NEW lists \in Seq([group : STRING, version : STRING, kinds : SUBSET STRING])
  PROVE  Groups(lists) \subseteq STRING
<1> DEFINE List == [group : STRING, version : STRING, kinds : SUBSET STRING]
<1>1. \A l \in List : l.group \in STRING
  OBVIOUS
<1>2. lists \in Seq(List)
  OBVIOUS
<1> HIDE DEF List
<1>3. ASSUME NEW i \in DOMAIN lists PROVE lists[i] \in List
  <2>1. i \in 1..Len(lists)
    BY <1>2
  <2> QED
    BY <1>2, <2>1
<1> QED
  BY <1>1, <1>3 DEF Groups

\* A fetched discovery comes from the cluster whose entry it will fill.
LEMMA FetchKeeps ==
  ASSUME IInv, NEW c \in Calls, FetchAPIResources(c), UNCHANGED <<world, now>>
  PROVE  IInv'
<1> DEFINE s == call[c]
<1>0. s \in States /\ CallTold(s, ids, named, drift) /\ drift \in Nat /\ s.began <= drift
  BY HereTold
<1>1. s.pc = "fetch" /\ UNCHANGED caches
  BY DEF FetchAPIResources, At
<1>2. /\ s.request \in Requests /\ s.id = s.target /\ s.id \in Known
      /\ \A i \in s.listing : Told(i, named)
  BY <1>0, <1>1 DEF CallTold, Goals, Known, IInv, TypeOK
<1>3. PICK groups \in SUBSET Groups(served[s.id]) :
        Step(c, [s EXCEPT !.pc = "storeDiscovery",
                          !.discovery = Discovery(served[s.id], groups, s.id, drift)])
  BY DEF FetchAPIResources
<1> DEFINE d == Discovery(served[s.id], groups, s.id, drift)
           t == [s EXCEPT !.pc = "storeDiscovery", !.discovery = d]
<1>4. served[s.id] \in Listings
  BY <1>2 DEF IInv, TypeOK
<1>5. Groups(served[s.id]) \subseteq STRING
  BY <1>4, ClientAssumption, GroupsAreStrings
<1>6. d \in Discoveries /\ d.from = s.id /\ d.readAt = drift
  BY <1>0, <1>2, <1>3, <1>4, <1>5 DEF Discovery, Discoveries
<1>7. Step(c, t)
  BY <1>3
<1> HIDE DEF d
<1>8. /\ t \in States /\ t.pc = "storeDiscovery" /\ t.request = s.request
      /\ t.listing = s.listing /\ t.began = s.began /\ t.discovery = d
      /\ t.target = s.target
  BY <1>0, <1>6 DEF States, Labels
<1> HIDE DEF t
<1>9. CallTold(t, ids, named, drift)
  BY <1>0, <1>2, <1>6, <1>8 DEF CallTold, Lookup, Goals
<1> QED
  BY <1>1, <1>7, <1>8, <1>9, QuietKeeps

\* A discovery is stored for the cluster it came from.
LEMMA StoreDiscoveryKeeps ==
  ASSUME IInv, NEW c \in Calls, StoreDiscovery(c), UNCHANGED <<world, now>>
  PROVE  IInv'
<1> DEFINE s == call[c]
           entry == [discovery |-> s.discovery, expiry |-> now + TTL]
<1>0. s \in States /\ CallTold(s, ids, named, drift) /\ drift \in Nat /\ s.began <= drift
  BY HereTold
<1>1. s.pc = "storeDiscovery" /\ UNCHANGED <<ids, names, named>> /\ Step(c, ResolveGVR(s))
  BY DEF StoreDiscovery, At, world
<1>2. /\ s.request \in Requests /\ s.discovery.from = s.target
      /\ s.discovery.readAt >= s.began /\ s.discovery.from \in Known \cup {"none"}
      /\ \A i \in s.listing : Told(i, named)
  BY <1>0, <1>1 DEF CallTold, States, Discoveries
<1>3. PICK i \in Known : i = s.target
  BY <1>0, <1>1 DEF CallTold
<1>4. entry \in [discovery : Discoveries, expiry : Nat] /\ entry.discovery.from = i
  <2>1. now + TTL \in Nat
    BY ClientAssumption DEF IInv, TypeOK
  <2> QED
    BY <1>0, <1>2, <1>3, <2>1 DEF States
<1>5. /\ DOMAIN discovered' = DOMAIN discovered \cup {i}
      /\ \A j \in DOMAIN discovered' : discovered'[j] = IF j = i THEN entry ELSE discovered[j]
  BY <1>3 DEF StoreDiscovery, Key
<1> HIDE DEF entry
<1>6. CachesTyped' /\ CachesTold' /\ DiscoveryMatches'
  BY <1>1, <1>4, <1>5 DEF IInv, TypeOK, CachesTyped, CachesTold, DiscoveryMatches
<1>7. ResolveGVR(s) \in States /\ CallTold(ResolveGVR(s), ids, named, drift)
  BY <1>0, <1>2, ResolveTold
<1> QED
  BY <1>1, <1>6, <1>7, StepKeeps

\* The next version of a group is asked for, or there is none.
LEMMA TryNextKeeps ==
  ASSUME IInv, NEW c \in Calls, NEW s \in States, s.request \in Requests,
         s.began <= drift, \A i \in s.listing : Told(i, named),
         s.discovery.lists \in Seq([group : STRING, version : STRING, kinds : SUBSET STRING]),
         TryNext(c, s), UNCHANGED <<world, now>>, UNCHANGED caches
  PROVE  IInv'
<1>0. drift \in Nat /\ s.request.cluster \in Identifiers
  BY DEF IInv, TypeOK, Identifiers
<1>1. CASE Step(c, Answer(s, "failed"))
  <2>1. Answer(s, "failed") \in States /\ CallTold(Answer(s, "failed"), ids, named, drift)
    BY <1>0, AnswerTold DEF Answers
  <2> QED
    BY <1>1, <2>1, QuietKeeps
<1>2. ASSUME NEW i \in DOMAIN s.discovery.lists,
             Step(c, GetClusterID([s EXCEPT !.tried = i], "tryVersion", s.request.cluster))
      PROVE  IInv'
  <2> DEFINE u == [s EXCEPT !.tried = i]
  <2>1. i \in Nat
    OBVIOUS
  <2>2. u \in States /\ u.request = s.request /\ u.began = s.began /\ u.listing = s.listing
    BY <2>1 DEF States
  <2>3. Step(c, GetClusterID(u, "tryVersion", s.request.cluster))
    BY <1>2
  <2> HIDE DEF u
  <2>4. /\ GetClusterID(u, "tryVersion", s.request.cluster) \in States
        /\ CallTold(GetClusterID(u, "tryVersion", s.request.cluster), ids, named, drift)
    BY <1>0, <2>2, AskTold DEF Goals
  <2> QED
    BY <2>3, <2>4, QuietKeeps
<1> QED
  BY <1>1, <1>2 DEF TryNext

\* Trying one version after the other disturbs no cache.
LEMMA VersionsKeep ==
  ASSUME IInv, NEW c \in Calls, GetAPIVersions(c) \/ TryVersion(c), UNCHANGED <<world, now>>
  PROVE  IInv'
<1> DEFINE s == call[c]
           Lists == Seq([group : STRING, version : STRING, kinds : SUBSET STRING])
<1>0. s \in States /\ CallTold(s, ids, named, drift) /\ drift \in Nat /\ s.began <= drift
  BY HereTold
<1>1. s.pc \in {"groups", "tryVersion"} /\ UNCHANGED caches
  BY DEF GetAPIVersions, TryVersion, At
<1>2. /\ s.request \in Requests /\ \A i \in s.listing : Told(i, named)
      /\ s.id \in Known
  BY <1>0, <1>1 DEF CallTold, Goals, Known, IInv, TypeOK
<1>3. CASE GetAPIVersions(c)
  <2> DEFINE d == Discovery(served[s.id], {}, s.id, drift)
             u == [s EXCEPT !.discovery = d]
  <2>1. TryNext(c, u)
    BY <1>3 DEF GetAPIVersions
  <2>2. served[s.id] \in Listings
    BY <1>2 DEF IInv, TypeOK
  <2>3. d \in Discoveries /\ d.lists \in Lists
    BY <1>0, <1>2, <2>2, ClientAssumption DEF Discovery, Discoveries
  <2> HIDE DEF d, Lists
  <2>4. /\ u \in States /\ u.request = s.request /\ u.began = s.began
        /\ u.listing = s.listing /\ u.discovery = d
    BY <1>0, <2>3 DEF States
  <2> HIDE DEF u
  <2> QED
    BY <1>0, <1>1, <1>2, <2>1, <2>3, <2>4, TryNextKeeps DEF Lists
<1>4. CASE TryVersion(c)
  <2>1. CASE Step(c, Answer(s, "done"))
    BY <1>1, <2>1, AnswerKeeps DEF Answers
  <2>2. CASE TryNext(c, s)
    <3>1. s.discovery.lists \in Listings \cup {<<>>}
      BY <1>0 DEF States, Discoveries
    <3>2. s.discovery.lists \in Lists
      BY <3>1, ClientAssumption, <<>> \in Lists
    <3> QED
      BY <1>0, <1>1, <1>2, <2>2, <3>2, TryNextKeeps
  <2> QED
    BY <1>4, <2>1, <2>2 DEF TryVersion
<1> QED
  BY <1>3, <1>4

\* A call begins, or is refused at once.
LEMMA BeginKeeps ==
  ASSUME IInv, NEW c \in Calls, NEW r \in agenda, Begin(c, r), UNCHANGED <<world, now>>
  PROVE  IInv'
<1> DEFINE begun == [Idle EXCEPT !.request = r, !.began = drift]
<1>0. drift \in Nat /\ r \in Requests /\ r.cluster \in Identifiers /\ UNCHANGED caches
  BY DEF IInv, TypeOK, Identifiers, Begin
<1>1. /\ begun \in States /\ begun.request = r /\ begun.began = drift
      /\ begun.listing = {}
  BY <1>0, IdleTold DEF States
<1>2. CASE Malformed(r)
  <2>1. Step(c, Answer(begun, "failed"))
    BY <1>2 DEF Begin
  <2> HIDE DEF begun
  <2>2. /\ Answer(begun, "failed") \in States
        /\ CallTold(Answer(begun, "failed"), ids, named, drift)
    BY <1>0, <1>1, AnswerTold DEF Answers
  <2> QED
    BY <1>0, <2>1, <2>2, QuietKeeps
<1>3. CASE ~Malformed(r)
  <2>1. PICK goal \in Goals \ {"fetch"} : Step(c, GetClusterID(begun, goal, r.cluster))
    BY <1>3 DEF Begin, Goals
  <2> HIDE DEF begun
  <2>2. /\ GetClusterID(begun, goal, r.cluster) \in States
        /\ CallTold(GetClusterID(begun, goal, r.cluster), ids, named, drift)
    BY <1>0, <1>1, AskTold
  <2> QED
    BY <1>0, <2>1, <2>2, QuietKeeps
<1> QED
  BY <1>2, <1>3

\* Every step of a call leaves the invariant.
LEMMA ProgressKeeps ==
  ASSUME IInv, NEW c \in Calls, Progress(c)
  PROVE  IInv'
<1>1. UNCHANGED <<world, now>>
  BY DEF Progress
<1>2. CASE LoadID(c) \/ LoadName(c) \/ GetCluster(c) \/ ListClusters(c)
  BY <1>1, <1>2, LoadIDKeeps, LoadNameKeeps, GetClusterKeeps
<1>3. CASE StoreFoundID(c) \/ StoreFoundName(c) \/ StoreListedID(c) \/ StoreListedName(c)
  BY <1>1, <1>3, StoreFoundIDKeeps, StoreFoundNameKeeps, StoreListedIDKeeps,
     StoreListedNameKeeps
<1>4. CASE LoadDiscovery(c) \/ FetchAPIResources(c) \/ StoreDiscovery(c)
  BY <1>1, <1>4, LoadDiscoveryKeeps, FetchKeeps, StoreDiscoveryKeeps
<1>5. CASE GetAPIVersions(c) \/ TryVersion(c)
  BY <1>1, <1>5, VersionsKeep
<1>6. CASE NoSuchCluster(c) \/ Refused(c)
  BY <1>1, <1>6, AnswerKeeps DEF NoSuchCluster, Refused, Fails, Answers
<1>7. CASE Connect(c)
  BY <1>1, <1>7, AnswerKeeps DEF Connect, Answers
<1> QED
  BY <1>2, <1>3, <1>4, <1>5, <1>6, <1>7 DEF Progress

\* Time and the owners of the clusters: what has been told stays told.
LEMMA OthersKeep ==
  ASSUME IInv, UNCHANGED <<caches, call>>, drift' \in Nat, drift <= drift', now' \in Nat,
         agenda' = agenda, named \subseteq named', WorldTold',
         DOMAIN clusters' \subseteq ClusterIDs,
         \A i \in DOMAIN clusters' : clusters'[i] \in Names \cup {None},
         served' \in [Known -> Listings]
  PROVE  IInv'
<1> USE DEF caches
<1>0. TypeOK
  BY DEF IInv
<1>1. TypeOK'
  BY <1>0 DEF TypeOK
<1>2. CachesTold' /\ DiscoveryMatches'
  BY DEF IInv, CachesTold, DiscoveryMatches
<1>3. ASSUME NEW d \in Calls
      PROVE  CallTold(call'[d], ids', named', drift')
  <2>1. call[d] \in States /\ CallTold(call[d], ids, named, drift) /\ drift \in Nat
    BY HereTold
  <2> QED
    BY <2>1, ToldGrows
<1> QED
  BY <1>1, <1>2, <1>3 DEF IInv

\* The invariant is inductive.
LEMMA StepIInv == IInv /\ [Next]_vars => IInv'
<1> SUFFICES ASSUME IInv, [Next]_vars PROVE IInv'
  OBVIOUS
<1>0. /\ TypeOK /\ WorldTold /\ drift \in Nat /\ now \in Nat
  BY DEF IInv, TypeOK
<1>1. ASSUME NEW c \in Calls, NEW r \in agenda, Begin(c, r) /\ UNCHANGED <<world, now>>
      PROVE  IInv'
  BY <1>1, BeginKeeps
<1>2. ASSUME NEW c \in Calls, Progress(c)
      PROVE  IInv'
  BY <1>2, ProgressKeeps
<1>3. CASE Tick
  <2>1. now' \in Nat /\ UNCHANGED <<world, caches, call>>
    BY <1>0, <1>3 DEF Tick
  <2>2. WorldTold'
    BY <1>0, <2>1 DEF WorldTold, Told, Item, world
  <2> QED
    BY <1>0, <2>1, <2>2, OthersKeep DEF TypeOK, world
<1>4. ASSUME NEW i \in ClusterIDs, NEW n \in Names \cup {None}, NameCluster(i, n)
      PROVE  IInv'
  <2>1. /\ UNCHANGED <<agenda, served, now, caches, call>>
        /\ drift' \in Nat /\ drift <= drift' /\ named \subseteq named'
    BY <1>0, <1>4 DEF NameCluster, Drift
  <2>2. /\ DOMAIN clusters' = DOMAIN clusters \cup {i}
        /\ \A j \in DOMAIN clusters' : clusters'[j] = IF j = i THEN n ELSE clusters[j]
        /\ named' = named \cup {<<i, i>>, <<n, i>>}
    BY <1>4 DEF NameCluster
  <2>3. WorldTold'
    BY <1>0, <2>2 DEF WorldTold, Told, Item
  <2> QED
    BY <1>0, <2>1, <2>2, <2>3, OthersKeep DEF TypeOK
<1>5. ASSUME NEW i \in ClusterIDs, DeleteCluster(i)
      PROVE  IInv'
  <2>1. /\ UNCHANGED <<agenda, served, named, now, caches, call>>
        /\ drift' \in Nat /\ drift <= drift'
        /\ DOMAIN clusters' = DOMAIN clusters \ {i}
        /\ \A j \in DOMAIN clusters' : clusters'[j] = clusters[j]
    BY <1>0, <1>5 DEF DeleteCluster, Drift
  <2>2. WorldTold'
    BY <1>0, <2>1 DEF WorldTold, Told, Item
  <2> QED
    BY <1>0, <2>1, <2>2, OthersKeep DEF TypeOK
<1>6. ASSUME NEW i \in ClusterIDs, NEW lists \in Listings, ServeAPIs(i, lists)
      PROVE  IInv'
  <2>1. /\ UNCHANGED <<agenda, clusters, named, now, caches, call>>
        /\ drift' \in Nat /\ drift <= drift'
    BY <1>0, <1>6 DEF ServeAPIs, Drift
  <2>2. served' \in [Known -> Listings]
    BY <1>0, <1>6 DEF ServeAPIs, TypeOK
  <2>3. WorldTold'
    BY <1>0, <2>1 DEF WorldTold, Told, Item
  <2> QED
    BY <1>0, <2>1, <2>2, <2>3, OthersKeep DEF TypeOK
<1>7. CASE UNCHANGED vars
  <2>1. UNCHANGED <<world, now, caches, call>>
    BY <1>7 DEF vars
  <2>2. WorldTold'
    BY <1>0, <2>1 DEF WorldTold, Told, Item, world
  <2> QED
    BY <1>0, <2>1, <2>2, OthersKeep DEF TypeOK, world
<1> QED
  BY <1>1, <1>2, <1>3, <1>4, <1>5, <1>6, <1>7 DEF Next

-----------------------------------------------------------------------------

\* The inductive invariant holds in every reachable state.
THEOREM Invariance == Spec => []IInv
<1> QED
  BY InitIInv, StepIInv, PTL DEF Spec

\* The caches and the calls keep their types.
THEOREM ClientTypes == Spec => []TypeOK
<1>1. IInv => TypeOK
  BY DEF IInv
<1> QED
  BY <1>1, Invariance, PTL

\* An ID stays an ID: what a lookup returned is not taken for a name later.
THEOREM IDsStayKnown == Spec => []KnownIDs
<1>1. IInv => KnownIDs
  BY DEF IInv, KnownIDs, CachesTold, CallTold
<1> QED
  BY <1>1, Invariance, PTL

\* Every lookup leads to a cluster that has had that ID or name.
THEOREM LookupsWereTrue == Spec => []NamedSo
<1>1. IInv => NamedSo
  BY DEF IInv, NamedSo, CallTold
<1> QED
  BY <1>1, Invariance, PTL

\* The discovery kept for a cluster is that cluster's.
THEOREM DiscoveriesMatch == Spec => []DiscoveryMatches
<1>1. IInv => DiscoveryMatches
  BY DEF IInv
<1> QED
  BY <1>1, Invariance, PTL

\* A kind is reported unknown on fresh evidence only.
THEOREM UnknownKindsAreChecked == Spec => []FreshNotFound
<1>1. IInv => FreshNotFound
  BY DEF IInv, FreshNotFound, CallTold, At
<1> QED
  BY <1>1, Invariance, PTL

=============================================================================
