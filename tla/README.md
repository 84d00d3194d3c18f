# TLA+ models of the Rancher MCP server

The server offers Rancher and Kubernetes to AI agents over the Model Context
Protocol (MCP). Reads are answered at once, from requests of several moments.
Changes take two calls of the agent, `planChange` and `executeChange`, and
between the second one and the change the server asks the *user*, through the
MCP client, for approval. What can go wrong is in between: tokens presented
twice, clusters edited while the user decides, names that lead elsewhere by
then, dialogs that open and close while pings keep their stream alive, objects
that vanish between two requests of one answer.

These modules model that part, check it with TLC on small instances and prove
the main results with TLAPS for every value of the constants. Paths below are
relative to `src/`.

## The system's parts

| part | state | operations | hard behaviour |
|---|---|---|---|
| confirmation gate, `pkg/confirm` | HMAC key, consumed nonces under a mutex | `IssueToken`, `RequireToken`, `Confirm`, `Check` | concurrent calls with one token, expiry, sweep, restart |
| keepalive gate, `pkg/keepalivegate` | per session: open dialogs, last start, watchdog's cancel | middleware, `begin`, `done`, `ensureWatchdog`, `watchdog` | goroutines per dialog and watchdog, throttling, failed pings |
| scale node pool, `pkg/toolsets/provisioning` | none; the machine pools live in Rancher | plan, execute | read before and patch after the dialog, int32 arithmetic |
| change dispatch, `pkg/toolsets/merged`, `dispatch`, `core/merged_change_cases.go` | flags | `planChange`, `executeChange` for ten operations | what a token binds against what is applied |
| resource changes and exec, `pkg/toolsets/core` | none | create, patch, delete, exec; plan and execute | kind and cluster resolved twice, unbound container, 30 s timeout |
| projects, `pkg/toolsets/core/projects` | none | create project, move namespace | object read before and written after the dialog, names that drift |
| cluster creation, `pkg/toolsets/provisioning` | none | custom, imported, K3k clusters | what is planned depends on releases and defaults that change |
| cluster client, `pkg/client` | two caches without expiry, discovery cache of 5 min | `GetClusterID`, `ResolveGVR`, reads | stale names, racing discoveries, partial results |
| queries and diagnostics, `pkg/toolsets` | none | reads, joins, sums | answers put together from several moments; parts that are missing |
| pagination, `pkg/utils` | none | `SortAndPaginate` | lists that change between pages, overflow of offset + limit |
| OAuth middleware, `internal/middleware` | key set | check of each request | none beyond malformed claims |
| server start, `cmd` | flags | wiring | precedence of flag and environment |

How they interact: `cmd/serve.go` builds one gate and one keepalive middleware
and starts an HTTP server; each request is a goroutine. OAuth puts the caller's
token into the context. The dispatcher chooses the plan or the execute handler,
or the query. Every handler reads through the cluster client, which finds the
cluster's ID and the resource's version in its caches or asks Rancher. A plan
handler then calls `IssueToken`; an execute handler reads again, builds the same
`Operation` and calls `Check`, which consumes the token and elicits the answer;
the elicitation is sent through the keepalive middleware, which pings the client
while it is open; then the handler writes to the cluster.

For each part the properties that make it correct:

* gate: no approval without a token of this process for that very operation,
  auto-write excepted and then never for delete and exec; a token used once; a
  call never stuck in the token check;
* keepalive: the count of dialogs right on every path; no watchdog without a
  dialog and none that survives the last one for ever; no overlap; no dialog
  without pings;
* scale: what is sent is what was planned and shown; the named pool and no
  other; the etcd quorum;
* dispatch, changes and exec: the same operation planned, bound, shown and
  applied, once; the user asked; flags respected in both phases;
* projects: no update of another client lost; the destination confirmed is the
  destination written;
* client: a name leads to a cluster that has had it; discoveries are not mixed
  up between clusters; a kind is called unknown only after a fresh look; every
  call is answered;
* queries: an answer contains what was there all the time, its parts belong
  together, nothing is counted twice;
* pagination: the pages make up the list; no panic on a list that shrinks.

## Modules

| module | what it is |
|---|---|
| `TokenLedger` | what the gate promises: tokens issued, redeemed at most once while valid, revoked with the process |
| `ConfirmGate`, `ConfirmGateProofs` | the gate; one action per critical step of `RequireToken`, `Confirm`, `IssueToken`, clock, restart |
| `KeepaliveGate`, `KeepaliveGateProofs` | the middleware and the watchdog goroutines |
| `ScaleNodePool`, `ScaleNodePoolProofs` | plan and execute of scaleClusterNodePool among other writers |
| `ChangeFlow`, `ChangeFlowProofs` | plan and execute of the nine other operations, on top of `TokenLedger`, among other writers |
| `ClusterClient`, `ClusterClientProofs` | concurrent calls on the client's three caches while clusters change |
| `Pagination`, `PaginationProofs` | the window of a page, on integers that wrap |
| `ReadQueries`, `ReadQueriesProofs`, `ReadAnswersProofs` | the read-only tools as sequences of requests, with `Pagination`; the first proofs are about types and pages, the second about what answers hold and the usage they add up |
| `MC...` | the instances of each for TLC |

Definitions whose comment begins with "(Defect: ...)" are plausible mistakes in
the definition after them; they are not used by the specifications. They are
there to show that each property can fail: put in place of the definition, TLC
finds the property violated.

### ConfirmGate

A token is a record per nonce: the operation it binds, its expiry and the number
of the process whose key signed it. Tool, cluster, namespace, kind, name and
payload hash are one value: all six are compared together. Every malformed or
wrongly signed string is `NoNonce`. A call of `Check` goes through

    ValidateToken   signature, expiry, operation (confirm.go:129-156)
    Lock            g.mu.Lock (157)
    TestNonce       used? the early return unlocks (159-161)
    InsertNonce     (162)
    SweepExpired    reads the clock again, sweeps, unlocks (163-170)
    Confirm         the dialog and every kind of reply (176-215)

or is `CheckBypassed` (226-229). The steps before the mutex read only the token,
the key and the clock; they are one action, taken when the clock is read.
`Tick` moves the clock between any two steps. `Restart` makes a new key, empties
the map and loses the calls in flight. `redeemed` is history.

### KeepaliveGate

Each dialog goes idle, throttled, starting, open, closed: `Begin`,
`TimerFires`, `EnsureWatchdog` with the request, `Close`, or `Abandon` when the
caller's context ends during the throttle. The functions that hold the gate's
mutex are one action each. A watchdog is named after the dialog that started it
and goes ping, pinging, waiting, exited; as in the code its first ping is not
preceded by a look at the context, and its select may choose the ticker.
`since` is the age of `latestStart`, capped at minSpacing, where the code stops
telling ages apart; the 30 s of the ticker are left open.

### ScaleNodePool

`Patch` is scaleClusterNodePoolPatch with its refusals, its truncation to int32
(-`Half` .. `Half` - 1) and the pool's index. `Plan` and `Execute` call it on the
pools as they are then; the token's payload is the patch, so a call goes on only
if both patches are equal, or in auto-write mode. `Answer` is the user, `Apply`
the JSON patch. `OthersScale` and `OthersRemovePool` are the UI, the autoscaler
and other agents. `disturbed` is history. `AutoWrite` holds the modes the server
may be started in.

### ChangeFlow

`Change(p)` is, for the parameters `p` of a call, what the handlers of its
operation make of them in the present state of the clusters: `bound`, the
`confirm.Operation`, and `sent`, what the dialog shows and the cluster gets.
`Shown(p)` is the resource and payload that the plan shows, and not always the
same: the plan of a creation has the manifest's own namespace, that of a project
its cluster, that of an imported cluster a namespace for display. Plan and
execution compute all this separately, as in the code. `Dispatch` holds what the
dispatcher refuses (required parameters, the flags), `Planned` and `Allowed` what
the plan's and the execution's handlers refuse: they differ, since the plan of a
creation does not resolve the kind, and the execution of a patch or a deletion
does not look at the object again.

`sent.ref` addresses the object as the handler does, with the cluster as the
caller gave it, except that a move resolves it first. `clusterID` says which
cluster a display name leads to; `At` and `Reference` resolve it, once for the
checks before the gate and once more for the write, as `ResolveGVR` and
`GetResourceInterface` do, so that `RenameCluster` may come in between.
`clusterID` is what lookups answer: the cache that may make them late is
`ClusterClient`'s. A project's name or ID (`GetProjectID`) is looked up per
cluster.

    PlanChange      dispatch, the plan handler, IssueToken
    ExecuteChange   dispatch and the execute handler up to gate.Check
    RequireToken    the ledger's Redeem, or a refusal
    Confirm         the dialog
    Send(c)         one action per operation, or Rejected
    CommandEnds, StreamEnds   execPod: the command may outlive its stream
    Tick, Restart   the ledger's Pass and Revoke; a restart loses the calls
    InstallKind, RenameCluster, RenameProject, PublishRelease, OthersWrite
                    other clients

The gate is `TokenLedger`, which `ConfirmGate` implements, and not the gate's own
steps: the race behind `SingleUse` is the ledger's permission to redeem a token
again after its time. Objects have a resource version and a count of the edits
others made; `MoveNamespace` writes back the whole object that was read before
the gate, if the version is still the same. `planned`, `agreed`, `sent` and
`reached`, the object a write arrived at, are history.

### ClusterClient

A call is a record; `pc` is where it stands. `GetClusterID` is used by every
request, so it is a subroutine: `goal` is where the call goes on with the ID.

    LoadID, LoadName                  the two sync.Maps
    GetCluster, ListClusters          the requests to Rancher
    StoreFoundID ... StoreListedName  one store of one cache each; the list is
                                      stored up to the name that was asked for
    LoadDiscovery, FetchAPIResources, StoreDiscovery    apiResources
    ResolveGVR, Retry                 the match, and one forced refresh
    Connect, GetAPIVersions, TryVersion   the request for the object itself

Each load, each store and each request is an action; calls interleave between
any two. `apiResources` hands the *ID* on to a function that looks it up as if it
were a name, which is harmless only because of `KnownIDs`. A discovery may lack
any groups (partial results), and says for the history which cluster it was read
from and after how many changes of the world. `NameCluster`, `DeleteCluster`,
`ServeAPIs` and `Tick` are the environment.

### ReadQueries

A tool is a list of requests (`FirstReads`), each with what a NotFound means to
it; what a request answers may put more requests in front of the others
(`Onwards`). The tools that ask for several things have an action each, from
`AnalyzeCluster` to `UsageMetrics`; seven that make one request share `ReadOnce`.
Between any two requests `OthersWrite` creates, replaces or deletes an object.
The requests come in the code's order; where that is the order of a list that was
read (all clusters, the namespaces of a project), one order stands for all.

`NotFound` and `Refused` are the error paths. A label stands for what lists select
by. `touched` is the history of what others changed during the call: the
properties speak about what they did not touch. `ListKubernetesResources` and
`NextPage` are an agent that follows the notes of the pages.

### Pagination

`Start`, `End`, `HasMore` and `NextOffset` are `SortAndPaginate` and `BuildNote`
with `Wrap` for the sum of int64s. `InBounds` is what the slice expression needs.

## Runs

| run | shows | bounds |
|---|---|---|
| `ConfirmGateCalls` | types, the inductive invariant, `UsedOnceWhileValid`, `ApprovedByGate`, the ledger, `TokenCheckEnds` under fairness | 3 calls, 2 tokens, an operation that is bypassed and a deletion, auto-write, clock 0..2 with a life of 1, 1 restart |
| `ConfirmGateOnce` | `SingleUse` fails | 2 calls, 1 token |
| `KeepaliveGateSessions` | types, counts, no orphan, the inductive invariant, `WatchdogStops` under fairness | 3 dialogs of one session, 1 of another, a spacing of 1 |
| `KeepaliveGateOverlap` | `WatchdogsNeverOverlap` fails | 3 dialogs |
| `KeepaliveGateWatch` | `OpensUnderWatch` fails | 3 dialogs |
| `ScaleNodePoolEdits` | types, `SentAsPlanned`, the inductive invariant, `SafeUndisturbed` | 2 operations, 12 requests, 4 clusters, both modes, 4-bit sizes |
| `ScaleNodePoolQuorum` | `QuorumKept` fails | 1 operation, without auto-write |
| `ChangeFlowOperations` | types, `SentAsPlanned`, `SentOncePerToken`, `AlwaysAsked`, `NoLostUpdate` | 2 calls, 1 token, 29 requests of nine operations in 18 scenarios, six of them with the cluster by its name, three modes, 2 steps of other clients, 1 tick, symmetry |
| `ChangeFlowToken` | `TokenBindsParameters` fails | 1 call, 2 requests that differ in the container |
| `ChangeFlowCluster` | `DeletesPlanned` fails | 1 call, a deletion by the cluster's name, 2 clusters |
| `ClusterClient` | types, `KnownIDs`, `NamedSo`, `DiscoveryMatches`, `FreshNotFound`, `Answered` under fairness | 2 calls, 2 clusters, four starts, 1 change of the world, 1 tick with a life of 1 |
| `ReadQueries` | types, `LastingAnswered`, `AnswerFits`, `UsageExact`, `WalkMeetsAll`, `PanicsOnlyOnOverflow`, the inductive invariant | 1 call, 47 scenarios of 22 tools, 2 changes by others, integers up to 7 |

Why the bounds are enough. A double redemption needs two calls and one token; a
third call and a second token make the sweep of one call meet the test of
another. A token lives one second, so the last valid second and the first invalid
one are both reached; restarts before, during and after a call
too. `MaxClock` and `MaxRestarts` bound only these runs: the proofs have any
bound. For the keepalive, one dialog opens the session, one joins it, one
reopens it after it closed, and the fourth shows that sessions do not touch each
other; nothing else is bounded. Four bits hold pools of 1 to 7 nodes, sums that
wrap, and desired sizes past the width.

For the change flow, a behaviour has the requests of one operation, or of two on
one object, since operations on different objects share only the ledger: two
requests that differ in one parameter and two calls are what it takes to redeem a
token with the wrong one, or twice. Two steps of others let a name change and
change back, or an object be deleted and made again, between plan and write. For
the client, two calls are what it takes to overwrite a cache entry between
another's load and store; the four starts are the cases of a name that moves, an
ID that is another cluster's name, a cluster without a name, and calls that need
no discovery. For the queries, one change before a request and one after it make
an object appear, move or vanish between any two; calls share nothing but the
client's caches. An integer of four bits has every order of offset, limit, length
and overflow.

Symmetry is used over calls and tokens, in runs without liveness. Deadlock is not
checked where the bounds of time and of calls, an emptied cluster, or answered
calls let the model stop. `TokenCheckEnds`, `WatchdogStops` and `Answered` are the
statements against a stuck call.

Fairness. `TokenCheckEnds`: each step of a call inside `RequireToken` is weakly
fair, `Lock` included: Go's scheduler runs every goroutine and its mutex hands
over to a waiter within a millisecond; nothing is assumed of the user, of new
calls, or of the clock. `WatchdogStops`: a ping ends by its deadline of 15 s
(weak), and a select that finds the context done again and again does not choose
the ticker each time (strong; Go chooses at random among ready cases). `Answered`:
each call is weakly fair (goroutines run, and a request to Rancher is answered or
given up); nothing is assumed of which answer it gets, or of the environment.

## What the violations say

* `SingleUse`: the package promises single-use tokens. Two calls pass the expiry
  test in the token's last second; the first consumes the nonce, its sweep reads
  the clock a second later and deletes that same nonce; the second finds no
  trace of it and redeems the token again. `UsedOnceWhileValid` is what holds.
  The user is asked both times.
* `WatchdogsNeverOverlap`: the comment of minSpacing says that a quick open,
  close, open cannot overlap watchdogs. `done` deletes the whole entry with the
  last dialog, the time of the last start included, so the reopening dialog is
  not throttled, and the cancelled watchdog may still be in its ping.
* `OpensUnderWatch`: a watchdog that gives up after a failed ping stays
  registered, so a further dialog of the session opens without pings.
* `QuorumKept`: the rule that no etcd pool goes below three nodes is checked
  before the dialog; the patch sent after it has an absolute size and no test of
  the old one, and the pool may have grown while the user was asked.
* `TokenBindsParameters`: the description of executeChange says that the token
  binds the exact operation and parameters. The operation of execPod has no
  container, and that of patch and delete no apiVersion: a token planned with one
  is redeemed with another. The user is asked about the new parameters.
* `DeletesPlanned`: the plan of a deletion says that the token binds exactly which
  object disappears. It binds the cluster as it was given; the execution resolves
  it again after the dialog, and a display name that leads elsewhere by then
  deletes the object of that name there.

`SentAsPlanned` is what holds of all operations: what reaches a cluster has the
operation, kind, name and payload that the plan showed, the namespace as far as
the plan shows one, and it reaches the cluster shown if that is shown by its ID.
The plan of a creation is why it says no more of the namespace: the plan takes it
from the manifest (`create_resource_plan.go:32`), the token, the dialog and the
write from the parameter if that is given (`create_resource.go:48`). With a
manifest that names none the plan shows none, and the object lands in the
parameter's; a manifest that names another one is refused by the API server.

## Proofs

Proved with TLAPS, for every value of the constants that meets the assumption
named in the module (`GateAssumption`: some operations are never bypassed and
deletions are among them; `KeepaliveAssumption`: finitely many dialogs, each
with its session; `ScaleAssumption`: integer parameters, natural quantities and
some width; `FlowAssumption` and `OperationsAssumption`: scenarios that are well
formed, requests of the nine operations; `ClientAssumption`: `local` and "no
name" are no cluster's, starts are well formed; `PaginationAssumption`: some
width and a default limit within it; `ReadAssumption`, `OrderAssumption` and
`StringAssumption`: finite stores of well-formed objects, a place in the order for
the names of what is paged, and the tools' own words among the strings):

* `ConfirmGateProofs`: `GateTypeCorrect`, `GateInvariant`,
  `TokenUsedOnceWhileValid`, `ApprovalsPassTheGate`, `GateImplementsLedger`;
* `KeepaliveGateProofs`: `KeepaliveTypeCorrect`, `KeepaliveInvariant`,
  `CountsDialogs`, `NoWatchdogIsOrphaned`;
* `ScaleNodePoolProofs`: `ScaleTypeCorrect`, `ScaleInvariant`,
  `PatchSentIsPlanned`, `UndisturbedIsSafe`;
* `ChangeFlowProofs`: `FlowTypes`, `PlansAreKept`, `TokensSendOnce`,
  `UsersAreAsked`, `MovesLoseNothing`, `FlowKeepsLedger`;
* `ClusterClientProofs`: `ClientTypes`, `IDsStayKnown`, `LookupsWereTrue`,
  `DiscoveriesMatch`, `UnknownKindsAreChecked`;
* `PaginationProofs`: `InBoundsUnlessOverflow`, `NextPageFollows`, `PageSize`;
* `ReadQueriesProofs`: `QueriesTyped`, `QueriesPanicOnlyOnOverflow`, `PagesMeetAll`;
* `ReadAnswersProofs`: `AnswersFit`, `AnswersLast`, `UsageCounted`, `QueriesInvariant`.

The argument for the gate. `UsedOnceWhileValid` is not inductive: a state in
which a nonce was redeemed and is no longer in the map would let a second call
in. `IInv` adds that a redeemed nonce of the running key stays in the map until
its token has expired (`Remembered`), that between the test and the insertion
nobody else inserts it (`TestStillTrue`), which is the mutex (`MutexHeld`), and
that a call past the first tests holds a token of its own operation and of the
running key (`TokenBound`). `Remembered` also says that keys only grow, so after
a restart no old token is accepted. The ledger is implemented because an
insertion is a `Redeem`, allowed by `TestStillTrue` with `Remembered`, and the
other steps of a call do not show.

The argument for the keepalive. `IInv` relates the three places that know of a
session's dialogs: the count is the number of dialogs in flight (by cardinality
of a finite set, one lemma for entering, leaving and moving on); the registered
watchdog is started, not cancelled and of a session with a positive count
(`WatchOwned`); and a dialog has no watchdog before its ensureWatchdog
(`NotYetWatched`). `done` cancels exactly the watchdog that would otherwise be
orphaned.

The argument for scaling. `PatchIsSafe` is the lemma about the algorithm alone: a
patch, if there is one, has the index of a pool the request matches (the least
of a non-empty set of indices, by well-foundedness) and a size that keeps that
pool's quorum, whatever the width and the wrapping sums. `SentFresh` carries it
across the dialog: an undisturbed patch is still the one the present pools would
give. Every writer disturbs, another call's patch included, so `SentFresh` is
inductive.

The argument for the change flow. `SentAsPlanned` relates what a call reached to
what a plan showed before, in another state of the clusters, so it does not follow
from the parameters. `BoundMeansSent` goes through the token: `Displays` and
`Meaning` read off an operation what its plan shows, and where and with what body
its change is sent; every plan and every call holds its operation together with
these (two lemmas, `Change` by `Change`), a redeemed token's operation is its
call's, and `DisplayedIsMeant` compares the two, tool by tool.
`ReachedAddressed` adds that the object reached is the one addressed, at another
cluster only if that was given by its name: a move is not, since it binds and
addresses the ID. `AskedFirst` says what a call has passed
from where it stands, `RedeemedOnce` is the ledger's promise as an invariant.
`ReadStillTrue` is the argument against lost updates: revisions only grow, so a
namespace with the version that was read has the edits that were read; the
namespace is the same one, since its cluster is addressed by ID.

The argument for the client. `CallTold` says of one call what it knows in terms
of three things that only grow: the IDs stored, the pairs of identifier and ID
that have been true, and the number of changes. A lemma shows that growth keeps
it, so that a call's steps do not disturb the other calls, and each step is one
lemma about the one call it moves. The point where it is needed most is the
second lookup of an ID inside `apiResources`: it is answered by `LoadID` at once,
because the ID was stored before it was handed out, and therefore what is fetched
belongs to the entry it is stored under.

The argument for the pages. `Walked` says of a walk in its middle what
`WalkMeetsAll` says of its end: the objects before the next offset, and no others,
have been met once. It rests on the sorted sequence of a finite set
(`InOrder`: each object at the place that is the number of those before it), on
`Before` being a strict order of what is paged, and on the fact that only a change
before an object can move it. The lists and the pages may have any length.

The argument for the answers. Neither `AnswerFits` nor `LastingAnswered` is
inductive: what may still be found depends on the requests left. `Asked` says that
each of them is one of the tool's first ones or follows from an object already
found; then what it is answered with belongs to the answer (`Fits`). `Lasting` says
that what belongs to the answer and stays is found, or asked for, or led to by
something asked for (`Led`: the deployment by its set, the workload by the replica
set, the pods by the list of clusters, the bindings by their project). `Single`
says that a machine, its set and a pod are one object at a time, so that "an owner
of the set that was found" means one thing. There is one lemma per tool, one for
the errors, and one for the changes of others, which can only shrink what is
untouched.

The argument for the usage. A total is a number, and that it is the sum of the
samples so far is only inductive with what the requests left will add. `UsageAsks`
and `InTurn` say that the namespaces of one project are counted before those of the
next, that no namespace or project is asked for twice, and never one that has been
counted already: a sample is therefore new, and adds to its project's total once
(`Totalled`). `Housed` follows a namespace that nobody moves: while it is asked for,
the project being counted is its own; once that project has a total, it is asked for
or counted. `Sampled` keeps, between the list of pods and that of their metrics, the
pods as they are unless somebody touched one of them, and `SampleIsFit` compares the
code's sums over the listed objects with sums over their references: a sum over a
finite set does not depend on the order of the additions (`SumTakesAny`, by an
induction on the cardinality, which `SetByRemovals` states of a set of subsets
instead of a predicate), so it is carried over by a bijection (`SumOfImage`) and
grows by one element at a time (`SumOneMore`).

Only model-checked: the liveness properties, since fairness and ENABLED are out
of the prover's reach.

## Not modelled

* Encoding, signing and hashing (the token is abstract, forging it is
  impossible); the SDK's sessions and streams beyond what the watchdog sees of
  them; the text of plans, summaries and answers.
* The OAuth middleware (a stateless sequence of checks on top of a JWT library),
  the server's start (wiring; its flags are initial values here), TLS, logging,
  responses, the documentation tools and the scripts.
* Of the client: the construction of REST clients, the encodings of objects, and
  the JSONPath filter, which is a library's.
* Of the queries: the table of supported releases, the fleet analysis (a library
  walks the resources), the text of `listAPIResources`, whose discovery is
  `ClusterClient`'s.
* Of execPod: the capped buffer of the output. Of a deletion: the identity of
  the object beyond its name, which the code does not send either.
* Names that fold to one another (`strings.EqualFold`) are one value; a project's
  ID that no project has may be another's display name, and is one key. The
  display name of the local cluster is left out.
* Pools without quantity or configuration: the code reads both through pointers
  without a test, and the models take them to be there.

`PROJECT.json` lists every part, and every hazard with the properties about it or
the reason why there is none.

## Possible further work

All parts planned at first (`ConfirmGate` with `TokenLedger`, `KeepaliveGate`,
`ScaleNodePool`, `ChangeFlow` with the moving of namespaces, `ClusterClient`,
pagination and queries) are modelled. What could follow: the ordering of delayed
dialogs within minSpacing; the fleet analysis; and the composition of `ReadQueries`
with `ClusterClient`, so that a query's requests go through stale names.
