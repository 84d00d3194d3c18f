-------------------------- MODULE ChangeFlowProofs --------------------------
(***************************************************************************)
(* Changes, for any requests, calls, tokens and other clients: what is     *)
(* sent is what was planned, once per token, with the user's consent, and  *)
(* a moved namespace loses no edit.                                        *)
(***************************************************************************)
EXTENDS ChangeFlow, TLAPS

\* The change a request builds is the one its operation stands for, and only
\* deletions and commands have their verbs.
LEMMA ChangeMeans ==
  ASSUME NEW p \in Requests
  PROVE  /\ Essence(Change(p).sent) = Meaning(Change(p).bound)
         /\ Change(p).bound.tool = p.operation
         /\ Change(p).sent.verb = "delete" => p.operation = "deleteKubernetesResource"
         /\ Change(p).sent.verb = "exec" => p.operation = "execPod"
<1> USE DEF Essence, Meaning, Means, Operation, Ref, Sent
<1>0. p.operation \in Operations
  BY OperationsAssumption
<1>1. CASE p.operation = "createKubernetesResource"
  BY <1>1 DEF Change, CreateChange
<1>2. CASE p.operation = "patchKubernetesResource"
  BY <1>2 DEF Change, PatchChange, GenericRef
<1>3. CASE p.operation = "deleteKubernetesResource"
  BY <1>3 DEF Change, DeleteChange, GenericRef
<1>4. CASE p.operation = "execPod"
  BY <1>4 DEF Change, ExecChange
<1>5. CASE p.operation = "createProject"
  BY <1>5 DEF Change, ProjectChange
<1>6. CASE p.operation = "moveNamespace"
  BY <1>6 DEF Change, MoveChange, MovePayload
<1>7. CASE p.operation = "createCustomCluster"
  BY <1>7 DEF Change, CustomChange
<1>8. CASE p.operation = "createImportedCluster"
  BY <1>8 DEF Change, ImportedChange
<1>9. CASE p.operation = "createK3kCluster"
  BY <1>9 DEF Change, K3kChange
<1> QED
  BY <1>0, <1>1, <1>2, <1>3, <1>4, <1>5, <1>6, <1>7, <1>8, <1>9
     DEF Operations, Generic, Creations

\* A plan shows what its operation displays.
LEMMA ShownMeans ==
  ASSUME NEW p \in Requests, Planned(p)
  PROVE  Shown(p) = Displays(Change(p).bound)
<1> USE DEF Displays, Shown, Resource, Operation, Sent, Ref
<1>0. p.operation \in Operations
  BY OperationsAssumption
<1>1. CASE p.operation = "createKubernetesResource"
  BY <1>1 DEF Change, CreateChange
<1>2. CASE p.operation = "patchKubernetesResource"
  BY <1>2 DEF Change, PatchChange
<1>3. CASE p.operation = "deleteKubernetesResource"
  BY <1>3 DEF Change, DeleteChange
<1>4. CASE p.operation = "execPod"
  BY <1>4 DEF Change, ExecChange
<1>5. CASE p.operation = "createProject"
  BY <1>5 DEF Change, ProjectChange
<1>6. CASE p.operation = "moveNamespace"
  BY <1>6 DEF Change, MoveChange, MovePayload
<1>7. CASE p.operation = "createCustomCluster"
  BY <1>7 DEF Change, CustomChange
<1>8. CASE p.operation = "createImportedCluster"
  BY <1>8 DEF Change, ImportedChange
<1>9. CASE p.operation = "createK3kCluster"
  BY <1>9 DEF Change, K3kChange
<1> QED
  BY <1>0, <1>1, <1>2, <1>3, <1>4, <1>5, <1>6, <1>7, <1>8, <1>9
     DEF Operations, Generic, Creations

\* A move is addressed to a cluster by its ID, with the project's ID.
LEMMA MoveMeans ==
  ASSUME TypeOK, NEW p, Moved(p), p.operation = "moveNamespace"
  PROVE  /\ Change(p).sent.body.project \in ProjectIDs
         /\ Change(p).sent.ref.cluster \notin DOMAIN clusterID
         /\ At(Change(p).sent.ref) \in DOMAIN store
<1> DEFINE cl == GetClusterID(p.cluster)
<1>1. Change(p) = MoveChange(p)
  BY DEF Change
<1>2. MoveChange(p).sent.body = MovePayload(p) /\ MoveChange(p).sent.ref.cluster = cl
  BY DEF MoveChange, Sent, Ref, Operation
<1>3. MovePayload(p).project = GetProjectID(cl, p.project)
  BY DEF MovePayload
<1>4. GetProjectID(cl, p.project) \in ProjectIDs
  <2>1. GetProjectID(cl, p.project) # None
    BY <1>3 DEF Moved
  <2> HIDE DEF cl
  <2> QED
    BY <2>1 DEF GetProjectID, TypeOK
<1>5. cl \notin DOMAIN clusterID
  BY DEF GetClusterID, TypeOK
<1> QED
  BY <1>1, <1>2, <1>3, <1>4, <1>5 DEF Moved, Exists

\* A token holds what it held as long as it is not issued again.
LEMMA TokenStays ==
  ASSUME NEW n, TokenHolds(n), planned'[n] = planned[n], bound'[n] = bound[n]
  PROVE  TokenHolds(n)'
BY DEF TokenHolds, Displays, Resource

\* A call holds what it held while it keeps its parameters and its change.
LEMMA CallStays ==
  ASSUME NEW c, CallHolds(c), change'[c] = change[c], request'[c] = request[c]
  PROVE  CallHolds(c)'
BY DEF CallHolds, Essence, Meaning, Means

\* What was reached stays as addressed, whatever the names lead to by now.
LEMMA AddressedStays ==
  ASSUME NEW c, Addressed(c), change'[c] = change[c], request'[c] = request[c],
         reached'[c] = reached[c], DOMAIN clusterID' = DOMAIN clusterID
  PROVE  Addressed(c)'
BY DEF Addressed

\* A cluster given by ID does not depend on the names.
LEMMA ReferenceStays ==
  ASSUME NEW c, change'[c] = change[c], DOMAIN clusterID' = DOMAIN clusterID,
         change[c].sent.ref.cluster \notin DOMAIN clusterID
  PROVE  Reference(c)' = Reference(c)
BY DEF Reference, At, Ref, GetClusterID

\* A call that reads the same object under the same reference still has it right.
LEMMA ReadStays ==
  ASSUME NEW c, StillRead(c), change'[c] = change[c], read'[c] = read[c],
         UNCHANGED <<clusterID, store, revision>>
  PROVE  StillRead(c)'
<1>1. Reference(c)' = Reference(c)
  BY ReferenceStays DEF StillRead
<1> QED
  BY <1>1 DEF StillRead, UpdateAccepted

\* A write reaches the object it is addressed to.
LEMMA ReachesAddressed ==
  ASSUME IInv, NEW c \in Calls, Reaches(c), UNCHANGED <<change, request, clusterID>>,
         request[c].operation = "createKubernetesResource" => NamespaceAccepted(c)
  PROVE  ReachedAddressed' /\ DOMAIN reached' = Calls
<1>0. DOMAIN reached = Calls /\ sent \subseteq Calls
  BY DEF IInv, TypeOK
<1>1. reached'[c] = Reference(c) /\ \A d \in Calls \ {c} : reached'[d] = reached[d]
  BY <1>0 DEF Reaches
<1>2. Addressed(c)'
  <2>1. change' = change /\ request' = request /\ clusterID' = clusterID
    OBVIOUS
  <2>2. request[c].operation = "createKubernetesResource" =>
          change[c].sent.body.namespace \in {"", Reference(c).namespace}
    BY DEF NamespaceAccepted
  <2>3. /\ Reference(c).kind = change[c].sent.ref.kind
        /\ Reference(c).name = change[c].sent.ref.name
        /\ Reference(c).namespace = change[c].sent.ref.namespace
        /\ Reference(c).cluster = GetClusterID(change[c].sent.ref.cluster)
    BY DEF Reference, At, Ref
  <2>4. /\ reached'[c].kind = change[c].sent.ref.kind
        /\ reached'[c].name = change[c].sent.ref.name
        /\ reached'[c].namespace = change[c].sent.ref.namespace
        /\ reached'[c].cluster = GetClusterID(change[c].sent.ref.cluster)
        /\ request[c].operation = "createKubernetesResource" =>
             change[c].sent.body.namespace \in {"", reached'[c].namespace}
    BY <1>1, <2>2, <2>3
  <2> QED
    BY <2>1, <2>4 DEF Addressed, GetClusterID
<1>3. ASSUME NEW d \in sent \ {c}
      PROVE  Addressed(d)'
  BY <1>0, <1>1, AddressedStays DEF IInv, ReachedAddressed
<1> QED
  BY <1>0, <1>2, <1>3 DEF ReachedAddressed, Reaches

\* No token, no dialog and no request exist at the start.
LEMMA InitIInv == Init => IInv
<1> SUFFICES ASSUME Init PROVE IInv
  OBVIOUS
<1> USE DEF Init, Ledger!LedgerInit
<1>1. TypeOK
  <2>1. /\ {readOnly, autoWrite, enableExec} \subseteq BOOLEAN
        /\ agenda \subseteq Requests
        /\ \A k \in DOMAIN served : served[k] \subseteq Versions
        /\ \A d \in DOMAIN projectID : projectID[d] \in ProjectIDs \cup {None}
        /\ DOMAIN clusterID \cap ClusterIDs = {}
        /\ \A d \in DOMAIN clusterID : clusterID[d] \in ClusterIDs
        /\ release \in Releases \cup {None}
    BY FlowAssumption
  <2>2. \A r \in DOMAIN store :
          store[r] \in [rv : 0..revision, project : ProjectIDs \cup {None}, edits : Nat]
    OBVIOUS
  <2> QED
    BY <2>1, <2>2 DEF TypeOK, Labels
<1>2. BoundMeansSent
  BY DEF BoundMeansSent, InFlight, Past, Confirmed
<1>3. AskedFirst
  BY DEF AskedFirst, InFlight, Past
<1>4. RedeemedOnce
  BY DEF RedeemedOnce
<1>5. ReadStillTrue
  BY DEF ReadStillTrue, InFlight
<1>6. ReachedAddressed
  BY DEF ReachedAddressed
<1> QED
  BY <1>1, <1>2, <1>3, <1>4, <1>5, <1>6 DEF IInv

\* A token is issued only once, so what redeemed tokens bind stays as it was.
LEMMA PlanKeeps ==
  ASSUME IInv, NEW p \in agenda, NEW n \in Nonces, PlanChange(p, n)
  PROVE  IInv'
<1> USE DEF PlanChange, flags, cluster, calls, Ledger!Issue
<1>0. TypeOK /\ p \in Requests
  BY DEF IInv, TypeOK
<1>1. TypeOK'
  <2>1. expiry' \in [Nonces -> Nat]
    BY <1>0 DEF TypeOK
  <2> QED
    BY <1>0, <2>1 DEF TypeOK
<1>2. BoundMeansSent'
  <2>1. ASSUME NEW m \in Nonces, (m \in live \/ redeemed[m] # {})'
        PROVE  TokenHolds(m)'
    <3>1. CASE m = n
      <4>1. /\ planned'[m].shown = Shown(p) /\ planned'[m].request = p
            /\ bound'[m] = Change(p).bound
        BY <1>0, <3>1 DEF TypeOK
      <4>2. Shown(p) = Displays(Change(p).bound) /\ Change(p).bound.tool = p.operation
        BY <1>0, ChangeMeans, ShownMeans
      <4> QED
        BY <4>1, <4>2 DEF TokenHolds, Displays, Resource
    <3>2. CASE m # n
      <4>1. planned'[m] = planned[m] /\ bound'[m] = bound[m]
        BY <1>0, <3>2 DEF TypeOK
      <4>2. TokenHolds(m)
        BY <2>1, <3>2 DEF IInv, BoundMeansSent
      <4> QED
        BY <4>1, <4>2, TokenStays
    <3> QED
      BY <3>1, <3>2
  <2>2. ASSUME NEW c \in Calls, (InFlight(c) \/ Past(c))'
        PROVE  CallHolds(c)'
    <3>1. CallHolds(c)
      BY <2>2 DEF IInv, BoundMeansSent, InFlight, Past
    <3> QED
      BY <3>1, CallStays
  <2>3. ASSUME NEW c \in Calls, Confirmed(c)'
        PROVE  (bound[token[c]] = change[c].bound)'
    <3>1. Confirmed(c) /\ token[c] # n /\ token[c] \in Nonces
      BY <1>0, <2>3 DEF Confirmed, TypeOK
    <3>2. bound'[token[c]] = bound[token[c]]
      BY <1>0, <3>1 DEF TypeOK
    <3> QED
      BY <3>1, <3>2 DEF IInv, BoundMeansSent
  <2> QED
    BY <2>1, <2>2, <2>3 DEF BoundMeansSent
<1>3. AskedFirst'
  BY DEF IInv, AskedFirst, InFlight, Past, Confirmed
<1>4. RedeemedOnce'
  BY <1>0 DEF IInv, RedeemedOnce, TypeOK
<1>5. ReadStillTrue'
  BY ReadStays DEF IInv, ReadStillTrue, InFlight
<1>6. ReachedAddressed'
  BY AddressedStays DEF IInv, ReachedAddressed
<1> QED
  BY <1>1, <1>2, <1>3, <1>4, <1>5, <1>6 DEF IInv

\* A call starts with a change that means what it binds, and not yet confirmed.
LEMMA ExecuteKeeps ==
  ASSUME IInv, NEW c \in Calls, NEW p \in agenda, NEW n \in Nonces \cup {None},
         ExecuteChange(c, p, n)
  PROVE  IInv'
<1> USE DEF ExecuteChange, flags, cluster, ledger, plans, Goto
<1>0. TypeOK /\ p \in Requests
  BY DEF IInv, TypeOK
<1>a. /\ request'[c] = p /\ token'[c] = n /\ change'[c] = Change(p)
      /\ read'[c] = IF p.operation = "moveNamespace" THEN store[At(Change(p).sent.ref)]
                    ELSE None
      /\ pc'[c] = IF Bypass(p) THEN "approved" ELSE "checking"
  BY <1>0 DEF TypeOK
<1>b. \A d \in Calls \ {c} :
        /\ request'[d] = request[d] /\ token'[d] = token[d] /\ change'[d] = change[d]
        /\ read'[d] = read[d] /\ pc'[d] = pc[d]
  BY <1>0 DEF TypeOK
<1>c. \A m \in Nonces : c \notin redeemed[m]
  BY DEF IInv, AskedFirst
<1>d. ~Confirmed(c)'
  BY <1>a, <1>c DEF Confirmed
<1>1. TypeOK'
  BY <1>0 DEF TypeOK, Labels
<1>2. BoundMeansSent'
  <2>1. ASSUME NEW m \in Nonces, (m \in live \/ redeemed[m] # {})'
        PROVE  TokenHolds(m)'
    <3>1. TokenHolds(m)
      BY <2>1 DEF IInv, BoundMeansSent
    <3> QED
      BY <3>1, TokenStays
  <2>2. ASSUME NEW d \in Calls, (InFlight(d) \/ Past(d))'
        PROVE  CallHolds(d)'
    <3>1. CASE d = c
      <4>1. /\ Essence(Change(p).sent) = Meaning(Change(p).bound)
            /\ Change(p).bound.tool = p.operation
        BY <1>0, ChangeMeans
      <4> QED
        BY <1>a, <3>1, <4>1 DEF CallHolds, Essence, Meaning, Means
    <3>2. CASE d # c
      <4>1. InFlight(d) \/ Past(d)
        BY <1>b, <2>2, <3>2 DEF InFlight, Past
      <4>2. CallHolds(d)
        BY <4>1 DEF IInv, BoundMeansSent
      <4> QED
        BY <1>b, <3>2, <4>2, CallStays
    <3> QED
      BY <3>1, <3>2
  <2>3. ASSUME NEW d \in Calls, Confirmed(d)'
        PROVE  (bound[token[d]] = change[d].bound)'
    BY <1>b, <1>d, <2>3 DEF IInv, BoundMeansSent, Confirmed
  <2> QED
    BY <2>1, <2>2, <2>3 DEF BoundMeansSent
<1>3. AskedFirst'
  <2>1. Bypass(p) => autoWrite /\ Change(p).sent.verb \notin {"delete", "exec"}
    BY <1>0, ChangeMeans DEF Bypass
  <2>2. ~readOnly /\ (p.operation = "execPod" => enableExec)
    BY DEF Dispatch, ExecGated
  <2>3. c \notin sent
    BY DEF IInv, AskedFirst
  <2> SUFFICES ASSUME NEW d \in Calls
               PROVE  /\ (pc[d] \in {"idle", "failed"} => token[d] = None)'
                      /\ (pc[d] \in {"idle", "checking"} => \A m \in Nonces : d \notin redeemed[m])'
                      /\ (pc[d] = "asking" => Confirmed(d))'
                      /\ (InFlight(d) \/ Past(d) =>
                            /\ request[d] \in Requests
                            /\ ~readOnly
                            /\ request[d].operation = "execPod" => enableExec
                            /\ \/ pc[d] \in {"checking", "asking"}
                               \/ Confirmed(d) /\ d \in agreed
                               \/ autoWrite /\ change[d].sent.verb \notin {"delete", "exec"})'
                      /\ (d \in sent => pc[d] \in {"streaming", "done"})'
    BY DEF AskedFirst
  <2>4. CASE d = c
    BY <1>0, <1>a, <1>c, <2>1, <2>2, <2>3, <2>4 DEF InFlight, Past
  <2>5. CASE d # c
    BY <1>b, <2>5 DEF IInv, AskedFirst, InFlight, Past, Confirmed
  <2> QED
    BY <2>4, <2>5
<1>4. RedeemedOnce'
  BY DEF IInv, RedeemedOnce
<1>5. ReadStillTrue'
  <2> SUFFICES ASSUME NEW d \in Calls, InFlight(d)', (request[d].operation = "moveNamespace")'
               PROVE  StillRead(d)'
    BY DEF ReadStillTrue
  <2>1. CASE d = c
    <3>1. p.operation = "moveNamespace"
      BY <1>a, <2>1
    <3>2. /\ Change(p).sent.body.project \in ProjectIDs
          /\ Change(p).sent.ref.cluster \notin DOMAIN clusterID
          /\ At(Change(p).sent.ref) \in DOMAIN store
      BY <1>0, <3>1, MoveMeans DEF Allowed, Generic
    <3>3. change'[d] = Change(p) /\ read'[d] = store[At(Change(p).sent.ref)]
      BY <1>a, <2>1, <3>1
    <3>4. Reference(d)' = At(Change(p).sent.ref)
      BY <3>3 DEF Reference, At, Ref, GetClusterID
    <3>5. read'[d] \in [rv : 0..revision, project : ProjectIDs \cup {None}, edits : Nat]
      BY <1>0, <3>2, <3>3 DEF TypeOK
    <3> QED
      BY <3>2, <3>3, <3>4, <3>5 DEF StillRead
  <2>2. CASE d # c
    BY <1>b, <2>2, ReadStays DEF IInv, ReadStillTrue, InFlight
  <2> QED
    BY <2>1, <2>2
<1>6. ReachedAddressed'
  <2>1. c \notin sent /\ sent \subseteq Calls
    BY <1>0 DEF IInv, AskedFirst, TypeOK
  <2> QED
    BY <1>b, <2>1, AddressedStays DEF IInv, ReachedAddressed
<1> QED
  BY <1>1, <1>2, <1>3, <1>4, <1>5, <1>6 DEF IInv

\* A redeemed token binds the change of the call that redeemed it.
LEMMA RequireTokenKeeps ==
  ASSUME IInv, NEW c \in Calls, pc[c] = "checking", TokenFits(c), RedeemToken(c),
         Goto(c, "asking"), UNCHANGED <<request, token, change, read>>,
         UNCHANGED <<flags, cluster, plans, agreed, sent, reached, running>>
  PROVE  IInv'
<1> USE DEF flags, cluster, plans, Goto, RedeemToken, Ledger!Redeem
<1>0. TypeOK /\ token[c] \in Nonces
  BY DEF IInv, TypeOK, TokenFits
<1>a. /\ redeemed'[token[c]] = redeemed[token[c]] \cup {c}
      /\ \A m \in Nonces \ {token[c]} : redeemed'[m] = redeemed[m]
      /\ redeemed' \in [Nonces -> SUBSET Calls]
  BY <1>0 DEF TypeOK
<1>b. pc'[c] = "asking" /\ \A d \in Calls \ {c} : pc'[d] = pc[d]
  BY <1>0 DEF TypeOK
<1>c. Confirmed(c)' /\ \A d \in Calls \ {c} : Confirmed(d)' <=> Confirmed(d)
  <2>1. token[c] # None /\ \A d \in Calls : token[d] # None => token[d] \in Nonces
    BY <1>0 DEF TypeOK, TokenFits
  <2> QED
    BY <1>0, <1>a, <2>1 DEF Confirmed
<1>1. TypeOK'
  BY <1>0, <1>a DEF TypeOK, Labels
<1>2. BoundMeansSent'
  <2>1. ASSUME NEW m \in Nonces, (m \in live \/ redeemed[m] # {})'
        PROVE  TokenHolds(m)'
    <3>1. TokenHolds(m)
      <4>1. CASE m = token[c]
        BY <4>1 DEF IInv, BoundMeansSent
      <4>2. CASE m # token[c]
        BY <1>a, <2>1, <4>2 DEF IInv, BoundMeansSent
      <4> QED
        BY <4>1, <4>2
    <3> QED
      BY <3>1, TokenStays
  <2>2. ASSUME NEW d \in Calls, (InFlight(d) \/ Past(d))'
        PROVE  CallHolds(d)'
    <3>1. CallHolds(d)
      BY <1>b, <2>2 DEF IInv, BoundMeansSent, InFlight, Past
    <3> QED
      BY <3>1, CallStays
  <2>3. ASSUME NEW d \in Calls, Confirmed(d)'
        PROVE  (bound[token[d]] = change[d].bound)'
    BY <1>c, <2>3 DEF IInv, BoundMeansSent, TokenFits
  <2> QED
    BY <2>1, <2>2, <2>3 DEF BoundMeansSent
<1>3. AskedFirst'
  BY <1>a, <1>b, <1>c DEF IInv, AskedFirst, InFlight, Past
<1>4. RedeemedOnce'
  BY <1>0, <1>a DEF IInv, RedeemedOnce
<1>5. ReadStillTrue'
  BY <1>b, ReadStays DEF IInv, ReadStillTrue, InFlight
<1>6. ReachedAddressed'
  BY AddressedStays DEF IInv, ReachedAddressed
<1> QED
  BY <1>1, <1>2, <1>3, <1>4, <1>5, <1>6 DEF IInv

\* Other clients and writes: an object that is not as it was has a new version.
Object == [rv : Nat, project : ProjectIDs \cup {None}, edits : Nat]

StoreGrows ==
  /\ revision' \in Nat /\ revision' >= revision
  /\ \A s \in DOMAIN store' :
       \/ s \in DOMAIN store /\ store'[s] = store[s]
       \/ store'[s] \in Object /\ store'[s].rv \in (revision + 1)..revision'

WorldTyped ==
  /\ drift' \in Nat
  /\ \A k \in DOMAIN served' : served'[k] \subseteq Versions
  /\ \A d \in DOMAIN projectID' : projectID'[d] \in ProjectIDs \cup {None}
  /\ DOMAIN clusterID' = DOMAIN clusterID
  /\ \A d \in DOMAIN clusterID' : clusterID'[d] \in ClusterIDs
  /\ release' \in Releases \cup {None}

\* How a call moves on that keeps its parameters and its change.
Moves(d) ==
  \/ pc'[d] = pc[d] /\ (d \in sent' => d \in sent)
  \/ pc[d] = "asking" /\ pc'[d] = "approved" /\ d \in agreed' /\ (d \in sent' => d \in sent)
  \/ pc[d] = "approved" /\ pc'[d] \in {"streaming", "done"}
  \/ pc[d] = "streaming" /\ pc'[d] = "done"

\* The steps of the dialog and the write, of other clients and of time.
LEMMA MovesKeep ==
  ASSUME IInv, StoreGrows, WorldTyped, \A d \in Calls : Moves(d),
         pc' \in [Calls -> Labels], agreed' \subseteq Calls, agreed \subseteq agreed',
         running' \subseteq sent', sent' \subseteq Calls,
         ReachedAddressed', DOMAIN reached' = Calls,
         clock' \in Nat, clock' >= clock,
         UNCHANGED <<request, token, change, read>>,
         UNCHANGED <<flags, plans, live, expiry, redeemed>>
  PROVE  IInv'
<1> USE DEF flags, plans
<1>0. TypeOK
  BY DEF IInv
<1>1. TypeOK'
  <2>1. \A r \in DOMAIN store' :
          store'[r] \in [rv : 0..revision', project : ProjectIDs \cup {None}, edits : Nat]
    <3> SUFFICES ASSUME NEW r \in DOMAIN store'
                 PROVE  store'[r] \in [rv : 0..revision', project : ProjectIDs \cup {None},
                                       edits : Nat]
      OBVIOUS
    <3>1. CASE r \in DOMAIN store /\ store'[r] = store[r]
      BY <1>0, <3>1 DEF StoreGrows, TypeOK
    <3>2. CASE store'[r] \in Object /\ store'[r].rv \in (revision + 1)..revision'
      <4>1. store'[r].rv \in 0..revision'
        BY <1>0, <3>2 DEF StoreGrows, TypeOK
      <4> QED
        BY <3>2, <4>1 DEF Object
    <3> QED
      BY <3>1, <3>2 DEF StoreGrows
  <2> QED
    BY <1>0, <2>1 DEF TypeOK, WorldTyped, StoreGrows
<1>2. BoundMeansSent'
  <2>1. ASSUME NEW m \in Nonces, (m \in live \/ redeemed[m] # {})'
        PROVE  TokenHolds(m)'
    <3>1. TokenHolds(m)
      BY <2>1 DEF IInv, BoundMeansSent
    <3> QED
      BY <3>1, TokenStays
  <2>2. ASSUME NEW d \in Calls, (InFlight(d) \/ Past(d))'
        PROVE  CallHolds(d)'
    <3>1. CallHolds(d)
      BY <2>2 DEF IInv, BoundMeansSent, InFlight, Past, Moves
    <3> QED
      BY <3>1, CallStays
  <2>3. ASSUME NEW d \in Calls, Confirmed(d)'
        PROVE  (bound[token[d]] = change[d].bound)'
    BY <2>3 DEF IInv, BoundMeansSent, Confirmed
  <2> QED
    BY <2>1, <2>2, <2>3 DEF BoundMeansSent
<1>3. AskedFirst'
  <2>1. \A d \in Calls : Confirmed(d)' <=> Confirmed(d)
    BY DEF Confirmed
  <2> QED
    BY <2>1 DEF IInv, AskedFirst, InFlight, Past, Moves
<1>4. RedeemedOnce'
  BY <1>0 DEF IInv, RedeemedOnce, TypeOK
<1>5. ReadStillTrue'
  <2> SUFFICES ASSUME NEW d \in Calls, InFlight(d)', (request[d].operation = "moveNamespace")'
               PROVE  StillRead(d)'
    BY DEF ReadStillTrue
  <2>1. StillRead(d)
    BY DEF IInv, ReadStillTrue, InFlight, Moves
  <2>2. Reference(d)' = Reference(d)
    BY <2>1, ReferenceStays DEF WorldTyped, StillRead
  <2>3. ASSUME UpdateAccepted(d)'
        PROVE  store'[Reference(d)].edits = read[d].edits
    <3>1. Reference(d) \in DOMAIN store' /\ store'[Reference(d)].rv = read[d].rv
      BY <2>2, <2>3 DEF UpdateAccepted
    <3>2. Reference(d) \in DOMAIN store /\ store'[Reference(d)] = store[Reference(d)]
      BY <1>0, <2>1, <3>1 DEF StoreGrows, StillRead, TypeOK
    <3> QED
      BY <2>1, <3>1, <3>2 DEF StillRead, UpdateAccepted
  <2>4. /\ read'[d].rv \in 0..revision' /\ read'[d].edits \in Nat
        /\ change'[d].sent.body.project \in ProjectIDs
        /\ change'[d].sent.ref.cluster \notin DOMAIN clusterID'
    BY <1>0, <2>1 DEF StillRead, StoreGrows, WorldTyped, TypeOK
  <2>5. read'[d] = read[d]
    OBVIOUS
  <2> QED
    BY <2>2, <2>3, <2>4, <2>5 DEF StillRead
<1> QED
  BY <1>1, <1>2, <1>3, <1>4, <1>5 DEF IInv

\* Calls in flight that end leave no token behind.
LEMMA EndKeeps ==
  ASSUME IInv, NEW cs \in SUBSET Calls, End(cs), \A c \in cs : InFlight(c),
         UNCHANGED <<flags, cluster, plans, agreed, sent, reached, running>>,
         UNCHANGED <<clock, expiry, redeemed>>, live' \subseteq live
  PROVE  IInv'
<1> USE DEF flags, cluster, plans, End
<1>0. TypeOK
  BY DEF IInv
<1>a. \A c \in cs : /\ pc'[c] = "failed" /\ request'[c] = None /\ token'[c] = None
                    /\ c \notin sent
  BY DEF IInv, AskedFirst, InFlight
<1>b. \A d \in Calls \ cs :
        /\ request'[d] = request[d] /\ token'[d] = token[d] /\ change'[d] = change[d]
        /\ read'[d] = read[d] /\ pc'[d] = pc[d]
  OBVIOUS
<1>1. TypeOK'
  BY <1>0 DEF TypeOK, Labels
<1>2. BoundMeansSent'
  <2>1. ASSUME NEW d \in Calls, (InFlight(d) \/ Past(d))'
        PROVE  CallHolds(d)'
    <3>1. d \notin cs
      BY <1>a, <2>1 DEF InFlight, Past
    <3>2. CallHolds(d)
      BY <1>b, <2>1, <3>1 DEF IInv, BoundMeansSent, InFlight, Past
    <3> QED
      BY <1>b, <3>1, <3>2, CallStays
  <2>2. ASSUME NEW d \in Calls, Confirmed(d)'
        PROVE  (bound[token[d]] = change[d].bound)'
    BY <1>a, <1>b, <2>2 DEF IInv, BoundMeansSent, Confirmed
  <2>3. ASSUME NEW m \in Nonces, (m \in live \/ redeemed[m] # {})'
        PROVE  TokenHolds(m)'
    <3>1. TokenHolds(m)
      BY <2>3 DEF IInv, BoundMeansSent
    <3> QED
      BY <3>1, TokenStays
  <2> QED
    BY <2>1, <2>2, <2>3 DEF BoundMeansSent
<1>3. AskedFirst'
  <2>1. \A d \in cs : Confirmed(d)' = FALSE
    BY <1>a DEF Confirmed
  <2> QED
    BY <1>a, <1>b, <2>1 DEF IInv, AskedFirst, InFlight, Past, Confirmed
<1>4. RedeemedOnce'
  BY DEF IInv, RedeemedOnce
<1>5. ReadStillTrue'
  <2> SUFFICES ASSUME NEW d \in Calls, InFlight(d)', (request[d].operation = "moveNamespace")'
               PROVE  StillRead(d)'
    BY DEF ReadStillTrue
  <2>1. d \notin cs
    BY <1>a DEF InFlight
  <2>2. StillRead(d)
    BY <1>b, <2>1 DEF IInv, ReadStillTrue, InFlight
  <2> QED
    BY <1>b, <2>1, <2>2, ReadStays
<1>6. ReachedAddressed'
  <2>1. sent \subseteq Calls \ cs
    BY <1>0, <1>a DEF TypeOK
  <2> QED
    BY <1>b, <2>1, AddressedStays DEF IInv, ReachedAddressed
<1> QED
  BY <1>1, <1>2, <1>3, <1>4, <1>5, <1>6 DEF IInv

\* What every write leaves: a call that is done, and one new version at most.
LEMMA WrittenKeeps ==
  ASSUME IInv, NEW c \in Calls, pc[c] = "approved", Written(c), SendUnchanged,
         request[c].operation = "createKubernetesResource" => NamespaceAccepted(c),
         NEW r, NEW object,
         \/ store' = Without(r)
         \/ /\ store' = With(r, object) \/ store' = [store EXCEPT ![r] = object]
            /\ object \in Object /\ object.rv = revision + 1
  PROVE  IInv'
<1> USE DEF SendUnchanged, Written, Goto, flags, ledger, plans
<1>0. TypeOK
  BY DEF IInv
<1>1. StoreGrows
  <2>1. revision' \in Nat /\ revision' >= revision /\ revision + 1 \in (revision + 1)..revision'
    BY <1>0 DEF TypeOK
  <2>2. \A s \in DOMAIN store' :
          \/ s \in DOMAIN store /\ store'[s] = store[s]
          \/ store'[s] \in Object /\ store'[s].rv = revision + 1
    BY DEF With, Without
  <2> QED
    BY <2>1, <2>2 DEF StoreGrows
<1>2. WorldTyped
  BY <1>0 DEF WorldTyped, TypeOK
<1>3. \A d \in Calls : Moves(d)
  BY <1>0 DEF Moves, Reaches, TypeOK
<1>4. /\ pc' \in [Calls -> Labels] /\ agreed' \subseteq Calls /\ agreed \subseteq agreed'
      /\ running' \subseteq sent' /\ sent' \subseteq Calls
      /\ clock' \in Nat /\ clock' >= clock
  BY <1>0 DEF Reaches, TypeOK, Labels
<1>5. ReachedAddressed' /\ DOMAIN reached' = Calls
  BY ReachesAddressed
<1> QED
  BY <1>1, <1>2, <1>3, <1>4, <1>5, MovesKeep

\* A created object gets the next version.
LEMMA NewObjectIs ==
  ASSUME TypeOK
  PROVE  NewObject \in Object /\ NewObject.rv = revision + 1
BY DEF NewObject, Object, TypeOK

\* An edit gives the object the next version.
LEMMA EditedIs ==
  ASSUME TypeOK, NEW r \in DOMAIN store
  PROVE  \E object \in Object : /\ Edited(r) = [store EXCEPT ![r] = object]
                                /\ object.rv = revision + 1
<1> DEFINE object == [rv |-> revision + 1, project |-> store[r].project,
                      edits |-> store[r].edits + 1]
<1>1. store[r] \in [rv : 0..revision, project : ProjectIDs \cup {None}, edits : Nat]
  BY DEF TypeOK
<1>2. Edited(r) = [store EXCEPT ![r] = object]
  BY DEF Edited
<1>3. object \in Object /\ object.rv = revision + 1
  BY <1>1 DEF Object, TypeOK
<1> QED
  BY <1>2, <1>3

\* The world without a write is typed and no object changes.
LEMMA QuietWorld ==
  ASSUME TypeOK, UNCHANGED cluster
  PROVE  StoreGrows /\ WorldTyped
<1>1. /\ revision' = revision /\ store' = store /\ revision \in Nat
      /\ drift' = drift /\ served' = served /\ projectID' = projectID /\ release' = release
      /\ clusterID' = clusterID
  BY DEF cluster, TypeOK
<1>2. StoreGrows
  BY <1>1 DEF StoreGrows
<1>3. WorldTyped
  BY <1>1 DEF WorldTyped, TypeOK
<1> QED
  BY <1>2, <1>3

\* What was reached stays as addressed where nothing is sent.
LEMMA ReachedStays ==
  ASSUME IInv, UNCHANGED <<sent, reached, change, request>>,
         DOMAIN clusterID' = DOMAIN clusterID
  PROVE  ReachedAddressed' /\ DOMAIN reached' = Calls
<1>1. DOMAIN reached' = Calls
  BY DEF IInv, TypeOK
<1>2. ReachedAddressed'
  BY AddressedStays DEF IInv, ReachedAddressed
<1> QED
  BY <1>1, <1>2

\* Every approved change that is sent leaves the invariant.
LEMMA SendKeeps ==
  ASSUME IInv, NEW c \in Calls, Send(c)
  PROVE  IInv'
<1>0. TypeOK /\ NewObject \in Object /\ NewObject.rv = revision + 1
  BY NewObjectIs DEF IInv
<1>1. ASSUME pc[c] = "approved", Created(c),
             request[c].operation = "createKubernetesResource" => NamespaceAccepted(c)
      PROVE  IInv'
  BY <1>0, <1>1, WrittenKeeps DEF Created
<1>2. CASE CreateKubernetesResource(c)
  BY <1>1, <1>2 DEF CreateKubernetesResource, Approved
<1>3. CASE CreateProject(c)
  BY <1>1, <1>3 DEF CreateProject, Approved
<1>4. CASE CreateCustomCluster(c)
  BY <1>1, <1>4 DEF CreateCustomCluster, Approved
<1>5. CASE CreateK3kCluster(c)
  BY <1>1, <1>5 DEF CreateK3kCluster, Approved
<1>6. CASE CreateImportedCluster(c)
  BY <1>0, <1>6, WrittenKeeps DEF CreateImportedCluster, Approved
<1>7. CASE PatchKubernetesResource(c)
  <2>1. PICK object \in Object : /\ Edited(Reference(c)) = [store EXCEPT ![Reference(c)] = object]
                                 /\ object.rv = revision + 1
    BY <1>0, <1>7, EditedIs DEF PatchKubernetesResource
  <2> QED
    BY <1>7, <2>1, WrittenKeeps DEF PatchKubernetesResource, Approved
<1>8. CASE DeleteKubernetesResource(c)
  BY <1>0, <1>8, WrittenKeeps DEF DeleteKubernetesResource, Approved
<1>9. CASE MoveNamespace(c)
  <2> DEFINE object == [rv |-> revision + 1, project |-> change[c].sent.body.project,
                        edits |-> read[c].edits]
  <2>1. /\ change[c].sent.body.project \in ProjectIDs /\ read[c].edits \in Nat
        /\ revision \in Nat
    BY <1>0, <1>9 DEF MoveNamespace, Approved, IInv, ReadStillTrue, StillRead,
       InFlight, TypeOK
  <2>2. object \in Object /\ object.rv = revision + 1
    BY <2>1 DEF Object
  <2>3. store' = [store EXCEPT ![Reference(c)] = object]
    BY <1>9 DEF MoveNamespace
  <2>4. /\ pc[c] = "approved" /\ Written(c) /\ SendUnchanged
        /\ request[c].operation = "moveNamespace"
    BY <1>9 DEF MoveNamespace, Approved
  <2> HIDE DEF object
  <2> QED
    BY <2>2, <2>3, <2>4, WrittenKeeps
<1>10. CASE ExecPod(c)
  <2>1. pc[c] = "approved" /\ UNCHANGED <<flags, cluster, ledger, plans>>
    BY <1>10 DEF ExecPod, Approved
  <2>2. \A d \in Calls : Moves(d)
    BY <1>0, <1>10, <2>1 DEF ExecPod, Reaches, Goto, Moves, TypeOK
  <2>3. /\ pc' \in [Calls -> Labels] /\ agreed' \subseteq Calls /\ agreed \subseteq agreed'
        /\ running' \subseteq sent' /\ sent' \subseteq Calls
        /\ clock' \in Nat /\ clock' >= clock
    BY <1>0, <1>10, <2>1 DEF ExecPod, Reaches, Goto, TypeOK, Labels, ledger
  <2>4. ReachedAddressed' /\ DOMAIN reached' = Calls
    BY <1>10, ReachesAddressed DEF ExecPod, Approved, cluster
  <2> QED
    BY <1>0, <1>10, <2>1, <2>2, <2>3, <2>4, QuietWorld, MovesKeep DEF ExecPod, ledger
<1>11. CASE Rejected(c)
  BY <1>11, EndKeeps DEF Rejected, Fails, InFlight, ledger
<1> QED
  BY <1>2, <1>3, <1>4, <1>5, <1>6, <1>7, <1>8, <1>9, <1>10, <1>11 DEF Send

\* The steps of a call.
LEMMA CallKeeps ==
  ASSUME IInv, NEW c \in Calls, CallStep(c)
  PROVE  IInv'
<1>0. TypeOK
  BY DEF IInv
<1>1. CASE \E p \in agenda, n \in Nonces \cup {None} : ExecuteChange(c, p, n)
  BY <1>1, ExecuteKeeps
<1>2. CASE RequireToken(c)
  <2>1. CASE Fails(c) /\ UNCHANGED ledger
    BY <1>2, <2>1, EndKeeps DEF RequireToken, Fails, InFlight, ledger
  <2>2. CASE /\ TokenFits(c) /\ RedeemToken(c) /\ Goto(c, "asking")
             /\ UNCHANGED <<request, token, change, read>>
    BY <1>2, <2>2, RequireTokenKeeps DEF RequireToken
  <2> QED
    BY <1>2, <2>1, <2>2 DEF RequireToken
<1>3. CASE Confirm(c)
  <2>1. CASE Fails(c) /\ UNCHANGED agreed
    BY <1>3, <2>1, EndKeeps DEF Confirm, Fails, InFlight, ledger
  <2>2. CASE /\ Goto(c, "approved") /\ agreed' = agreed \cup {c}
             /\ UNCHANGED <<request, token, change, read>>
    <3>1. \A d \in Calls : Moves(d)
      BY <1>0, <1>3, <2>2 DEF Confirm, Goto, Moves, TypeOK
    <3>2. /\ pc' \in [Calls -> Labels] /\ agreed' \subseteq Calls /\ agreed \subseteq agreed'
          /\ running' \subseteq sent' /\ sent' \subseteq Calls
          /\ clock' \in Nat /\ clock' >= clock
      BY <1>0, <1>3, <2>2 DEF Confirm, Goto, TypeOK, Labels, ledger
    <3> QED
      BY <1>0, <1>3, <2>2, <3>1, <3>2, QuietWorld, ReachedStays, MovesKeep
         DEF Confirm, cluster, ledger
  <2> QED
    BY <1>3, <2>1, <2>2 DEF Confirm
<1>4. CASE Send(c)
  BY <1>4, SendKeeps
<1>5. CASE CommandEnds(c) \/ StreamEnds(c)
  <2>1. \A d \in Calls : Moves(d)
    BY <1>0, <1>5 DEF CommandEnds, StreamEnds, Goto, Moves, TypeOK
  <2>2. /\ pc' \in [Calls -> Labels] /\ agreed' \subseteq Calls /\ agreed \subseteq agreed'
        /\ running' \subseteq sent' /\ sent' \subseteq Calls
        /\ clock' \in Nat /\ clock' >= clock
    BY <1>0, <1>5 DEF CommandEnds, StreamEnds, Goto, TypeOK, Labels, ledger
  <2>3. /\ UNCHANGED <<flags, cluster, ledger, plans, request, token, change, read>>
        /\ UNCHANGED <<sent, reached>>
    BY <1>5 DEF CommandEnds, StreamEnds
  <2> QED
    BY <1>0, <2>1, <2>2, <2>3, QuietWorld, ReachedStays, MovesKeep DEF cluster, ledger
<1> QED
  BY <1>1, <1>2, <1>3, <1>4, <1>5 DEF CallStep

\* Other clients.
LEMMA OthersKeep ==
  ASSUME IInv, InstallKind \/ RenameCluster \/ RenameProject \/ PublishRelease \/ OthersWrite
  PROVE  IInv'
<1>0. TypeOK
  BY DEF IInv
<1>1. UNCHANGED <<flags, ledger, plans, calls>> /\ Drift
  BY DEF InstallKind, RenameCluster, RenameProject, PublishRelease, OthersWrite
<1>2. drift' \in Nat
  BY <1>0, <1>1 DEF Drift, TypeOK
<1>3. StoreGrows /\ WorldTyped
  <2>1. CASE InstallKind
    BY <1>0, <1>2, <2>1 DEF InstallKind, StoreGrows, WorldTyped, TypeOK
  <2>2. CASE RenameProject
    BY <1>0, <1>2, <2>2 DEF RenameProject, StoreGrows, WorldTyped, TypeOK
  <2>3. CASE PublishRelease
    BY <1>0, <1>2, <2>3 DEF PublishRelease, StoreGrows, WorldTyped, TypeOK
  <2>4. CASE RenameCluster
    BY <1>0, <1>2, <2>4 DEF RenameCluster, StoreGrows, WorldTyped, TypeOK
  <2>5. CASE OthersWrite
    <3>1. WorldTyped
      BY <1>0, <1>2, <2>5 DEF OthersWrite, WorldTyped, TypeOK
    <3>2. /\ revision' \in Nat /\ revision' >= revision
          /\ revision + 1 \in (revision + 1)..revision'
      BY <1>0, <2>5 DEF OthersWrite, TypeOK
    <3>3. PICK r, object :
            \/ store' = Without(r)
            \/ /\ store' = With(r, object) \/ store' = [store EXCEPT ![r] = object]
               /\ object \in Object /\ object.rv = revision + 1
      <4>1. CASE \E r \in DOMAIN store : store' = Edited(r)
        <5>1. PICK r \in DOMAIN store : store' = Edited(r)
          BY <4>1
        <5>2. PICK object \in Object : /\ Edited(r) = [store EXCEPT ![r] = object]
                                       /\ object.rv = revision + 1
          BY <1>0, EditedIs
        <5> QED
          BY <5>1, <5>2
      <4>2. CASE \E r \in DOMAIN store : store' = Without(r)
        BY <4>2
      <4>3. CASE \E r \in objects \ DOMAIN store : store' = With(r, NewObject)
        BY <1>0, <4>3, NewObjectIs
      <4> QED
        BY <2>5, <4>1, <4>2, <4>3 DEF OthersWrite
    <3>4. \A s \in DOMAIN store' :
            \/ s \in DOMAIN store /\ store'[s] = store[s]
            \/ store'[s] \in Object /\ store'[s].rv = revision + 1
      BY <3>3 DEF With, Without
    <3> QED
      BY <3>1, <3>2, <3>4 DEF StoreGrows
  <2> QED
    BY <1>1, <2>1, <2>2, <2>3, <2>4, <2>5
<1> QED
  BY <1>0, <1>1, <1>3, ReachedStays, MovesKeep DEF WorldTyped, Moves, calls, ledger, TypeOK

\* The invariant is inductive.
LEMMA StepIInv == IInv /\ [Next]_vars => IInv'
<1> SUFFICES ASSUME IInv, [Next]_vars PROVE IInv'
  OBVIOUS
<1>0. TypeOK
  BY DEF IInv
<1>1. CASE \E p \in agenda, n \in Nonces : PlanChange(p, n)
  BY <1>1, PlanKeeps
<1>2. CASE \E c \in Calls : CallStep(c)
  BY <1>2, CallKeeps
<1>3. CASE Tick
  <2>1. /\ UNCHANGED <<flags, cluster, plans, calls, live, expiry, redeemed>>
        /\ clock' \in Nat /\ clock' >= clock
    BY <1>0, <1>3 DEF Tick, Ledger!Pass, TypeOK
  <2> QED
    BY <1>0, <2>1, QuietWorld, ReachedStays, MovesKeep DEF Moves, calls, cluster, TypeOK
<1>4. CASE Restart
  BY <1>4, EndKeeps DEF Restart, Ledger!Revoke, InFlight
<1>5. CASE InstallKind \/ RenameCluster \/ RenameProject \/ PublishRelease \/ OthersWrite
  BY <1>5, OthersKeep
<1>6. CASE UNCHANGED vars
  BY <1>0, <1>6, QuietWorld, ReachedStays, MovesKeep
     DEF vars, Moves, calls, cluster, ledger, TypeOK
<1> QED
  BY <1>1, <1>2, <1>3, <1>4, <1>5, <1>6 DEF Next

-----------------------------------------------------------------------------

\* The inductive invariant holds in every reachable state.
THEOREM Invariance == Spec => []IInv
<1> QED
  BY InitIInv, StepIInv, PTL DEF Spec

\* Whatever agents call and others do, the flow keeps its types.
THEOREM FlowTypes == Spec => []TypeOK
<1>1. IInv => TypeOK
  BY DEF IInv
<1> QED
  BY <1>1, Invariance, PTL

\* The record of an operation says what its plan displays and where the change
\* goes: the two agree but for a namespace the plan may leave out, one it adds
\* for display, and the cluster a project is written to.
LEMMA DisplayedIsMeant ==
  ASSUME NEW o, o.tool \in Operations, NEW s, Essence(s) = Meaning(o)
  PROVE  /\ Displays(o).kind = s.ref.kind /\ Displays(o).name = s.ref.name
         /\ Displays(o).payload = s.body
         /\ CASE o.tool = "createKubernetesResource" ->
                   Displays(o).namespace = s.body.namespace
              [] o.tool = "createImportedCluster" ->
                   Displays(o).namespace = "fleet-default"
              [] OTHER -> Displays(o).namespace = s.ref.namespace
         /\ IF o.tool = "createProject" THEN Displays(o).cluster = s.ref.namespace
            ELSE Displays(o).cluster = s.ref.cluster
<1> USE DEF Essence, Displays, Meaning, Means, Resource
<1>1. CASE o.tool = "createKubernetesResource"
  BY <1>1
<1>2. CASE o.tool = "patchKubernetesResource"
  BY <1>2
<1>3. CASE o.tool = "deleteKubernetesResource"
  BY <1>3
<1>4. CASE o.tool = "execPod"
  BY <1>4
<1>5. CASE o.tool = "createProject"
  BY <1>5
<1>6. CASE o.tool = "moveNamespace"
  BY <1>6
<1>7. CASE o.tool = "createCustomCluster"
  BY <1>7
<1>8. CASE o.tool = "createImportedCluster"
  BY <1>8
<1>9. CASE o.tool = "createK3kCluster"
  BY <1>9
<1> QED
  BY <1>1, <1>2, <1>3, <1>4, <1>5, <1>6, <1>7, <1>8, <1>9
     DEF Operations, Generic, Creations

\* What reaches a cluster with a token is what its plan showed: the token binds
\* an operation, whose record says both what its plan displays and where the
\* change goes, and the object reached is the one addressed, at the cluster the
\* plan showed where that is shown by its ID; whatever was renamed, installed or
\* released in between.
THEOREM PlansAreKept == Spec => []SentAsPlanned
<1>1. IInv => SentAsPlanned
  <2> SUFFICES ASSUME IInv, NEW c \in sent, Confirmed(c)
               PROVE  LET plan == planned[token[c]] IN
                      /\ plan.request.operation = request[c].operation
                      /\ plan.shown.kind = reached[c].kind
                      /\ plan.shown.name = reached[c].name
                      /\ plan.shown.payload = change[c].sent.body
                      /\ ShowsNamespace(request[c].operation, plan.shown, reached[c])
                      /\ ShowsCluster(request[c].operation, plan.shown,
                                      change[c].sent.ref, reached[c])
    BY DEF SentAsPlanned
  <2>1. c \in Calls /\ token[c] \in Nonces /\ Past(c)
    BY DEF IInv, TypeOK, AskedFirst, Confirmed, Past
  <2>2. CallHolds(c) /\ TokenHolds(token[c]) /\ bound[token[c]] = change[c].bound
    BY <2>1 DEF IInv, BoundMeansSent, Confirmed
  <2>3. PICK o : o = change[c].bound
    OBVIOUS
  <2>4. /\ planned[token[c]].shown = Displays(o)
        /\ planned[token[c]].request.operation = o.tool
        /\ request[c].operation = o.tool
        /\ Essence(change[c].sent) = Meaning(o)
    BY <2>2, <2>3 DEF CallHolds, TokenHolds
  <2>5. o.tool \in Operations
    BY <2>1, <2>4, OperationsAssumption DEF IInv, AskedFirst
  <2>6. Addressed(c)
    BY DEF IInv, ReachedAddressed
  <2>7. ShowsNamespace(o.tool, Displays(o), reached[c])
    BY <2>4, <2>5, <2>6, DisplayedIsMeant DEF ShowsNamespace, Addressed
  <2>8. ShowsCluster(o.tool, Displays(o), change[c].sent.ref, reached[c])
    BY <2>4, <2>5, <2>6, DisplayedIsMeant DEF ShowsCluster, Addressed
  <2>9. /\ Displays(o).kind = reached[c].kind /\ Displays(o).name = reached[c].name
        /\ Displays(o).payload = change[c].sent.body
    BY <2>4, <2>5, <2>6, DisplayedIsMeant DEF Addressed
  <2> QED
    BY <2>4, <2>7, <2>8, <2>9
<1> QED
  BY <1>1, Invariance, PTL

\* A token sends one change as long as it is valid.
THEOREM TokensSendOnce == Spec => []SentOncePerToken
<1>1. IInv => SentOncePerToken
  <2> SUFFICES ASSUME IInv, NEW c \in sent, NEW d \in sent, c # d,
                      Confirmed(c), Confirmed(d), token[c] = token[d]
               PROVE  clock > expiry[token[c]]
    BY DEF SentOncePerToken
  <2>1. token[c] \in Nonces
    BY DEF IInv, TypeOK, Confirmed
  <2> QED
    BY <2>1 DEF IInv, RedeemedOnce, Confirmed
<1> QED
  BY <1>1, Invariance, PTL

\* Deletions and commands are sent only after the user agreed to that call.
THEOREM UsersAreAsked == Spec => []AlwaysAsked
<1>1. IInv => AlwaysAsked
  <2> SUFFICES ASSUME IInv, NEW c \in sent
               PROVE  /\ ~readOnly
                      /\ request[c].operation = "execPod" => enableExec
                      /\ \/ Confirmed(c) /\ c \in agreed
                         \/ autoWrite /\ change[c].sent.verb \notin {"delete", "exec"}
    BY DEF AlwaysAsked
  <2>1. c \in Calls /\ pc[c] \in {"streaming", "done"}
    BY DEF IInv, TypeOK, AskedFirst
  <2> QED
    BY <2>1 DEF IInv, AskedFirst, Past
<1> QED
  BY <1>1, Invariance, PTL

\* Moving a namespace keeps the edits others made to it.
THEOREM MovesLoseNothing == Spec => NoLostUpdate
<1>1. IInv /\ [Next]_vars =>
        [\A c \in Calls : MoveNamespace(c) =>
           store'[Reference(c)].edits = store[Reference(c)].edits]_vars
  <2> SUFFICES ASSUME IInv, NEW c \in Calls, MoveNamespace(c)
               PROVE  store'[Reference(c)].edits = store[Reference(c)].edits
    OBVIOUS
  <2>1. InFlight(c) /\ request[c].operation = "moveNamespace" /\ UpdateAccepted(c)
    BY DEF MoveNamespace, Approved, InFlight
  <2>2. store[Reference(c)].edits = read[c].edits
    BY <2>1 DEF IInv, ReadStillTrue, StillRead
  <2>3. store'[Reference(c)].edits = read[c].edits
    BY <2>1 DEF MoveNamespace, UpdateAccepted
  <2> QED
    BY <2>2, <2>3
<1> QED
  BY <1>1, Invariance, PTL DEF Spec, NoLostUpdate

\* The flow uses the gate as the ledger allows: a token is issued, redeemed and
\* revoked as TokenLedger says, and nothing else touches it.
THEOREM FlowKeepsLedger == Spec => Ledger!LedgerSpec
<1>1. Init => Ledger!LedgerInit
  BY DEF Init
<1>2. IInv /\ [Next]_vars => [Ledger!LedgerNext]_(Ledger!ledgerVars)
  <2> SUFFICES ASSUME IInv, [Next]_vars
               PROVE  [Ledger!LedgerNext]_(Ledger!ledgerVars)
    OBVIOUS
  <2>1. ASSUME NEW p \in agenda, NEW n \in Nonces, PlanChange(p, n)
        PROVE  Ledger!LedgerNext
    BY <2>1 DEF PlanChange, Ledger!LedgerNext
  <2>2. ASSUME NEW c \in Calls, CallStep(c)
        PROVE  Ledger!LedgerNext \/ UNCHANGED ledger
    <3>1. CASE RequireToken(c)
      <4>1. CASE TokenFits(c) /\ RedeemToken(c)
        <5>1. token[c] \in Nonces
          BY <4>1 DEF IInv, TypeOK, TokenFits
        <5> QED
          BY <4>1, <5>1 DEF RedeemToken, Ledger!LedgerNext
      <4>2. CASE UNCHANGED ledger
        BY <4>2
      <4> QED
        BY <3>1, <4>1, <4>2 DEF RequireToken
    <3>2. CASE \E p \in agenda, n \in Nonces \cup {None} : ExecuteChange(c, p, n)
      BY <3>2 DEF ExecuteChange
    <3>3. CASE Confirm(c)
      BY <3>3 DEF Confirm
    <3>4. CASE Send(c)
      BY <3>4 DEF Send, CreateKubernetesResource, PatchKubernetesResource,
         DeleteKubernetesResource, ExecPod, CreateProject, MoveNamespace,
         CreateCustomCluster, CreateImportedCluster, CreateK3kCluster, Rejected,
         Created, SendUnchanged
    <3>5. CASE CommandEnds(c) \/ StreamEnds(c)
      BY <3>5 DEF CommandEnds, StreamEnds
    <3> QED
      BY <2>2, <3>1, <3>2, <3>3, <3>4, <3>5 DEF CallStep
  <2>3. CASE Tick
    BY <2>3 DEF Tick, Ledger!LedgerNext
  <2>4. CASE Restart
    BY <2>4 DEF Restart, Ledger!LedgerNext
  <2>5. CASE InstallKind \/ RenameCluster \/ RenameProject \/ PublishRelease \/ OthersWrite
    BY <2>5 DEF InstallKind, RenameCluster, RenameProject, PublishRelease, OthersWrite, ledger,
       Ledger!ledgerVars
  <2>6. CASE UNCHANGED vars
    BY <2>6 DEF vars, ledger, Ledger!ledgerVars
  <2> QED
    BY <2>1, <2>2, <2>3, <2>4, <2>5, <2>6 DEF Next, ledger, Ledger!ledgerVars
<1> QED
  BY <1>1, <1>2, Invariance, PTL DEF Spec, Ledger!LedgerSpec

=============================================================================
