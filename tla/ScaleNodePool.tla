--------------------------- MODULE ScaleNodePool ---------------------------
(***************************************************************************)
(* scaleClusterNodePool, plan and execute (pkg/toolsets/provisioning).     *)
(* Both phases read the provisioning cluster and compute the same JSON     *)
(* patch: one pool, by index, gets an absolute quantity.  execute reads    *)
(* before the confirmation gate and patches after it, while the user takes *)
(* minutes to answer and other clients edit the cluster.                   *)
(*                                                                         *)
(* The gate is the one of ConfirmGate, reduced to what matters here: a     *)
(* call goes on only with a token whose payload is the patch just          *)
(* computed, or without any in auto-write mode.  Sizes are int32 in the    *)
(* code, smaller here.  The cluster is found and is not "local".            *)
(***************************************************************************)
EXTENDS Integers, Sequences, SequencesExt

CONSTANTS
  Calls,       \* concurrent operations, each planned and executed once
  AutoWrite,   \* values --allow-auto-write may have
  PoolNames,   \* names of machine pools
  PrefixedName, \* a pool's name with the cluster's in front, as the UI shows it
  Requests,    \* parameters: pool name, desiredSize, amountToAdd, amountToSubtract
  InitialPools, \* possible machine pools of the cluster at the start
  Quantities,  \* what other clients set a quantity to
  Half         \* 2^31: an int32 is in -Half .. Half - 1

ASSUME ScaleAssumption ==
  /\ AutoWrite \subseteq BOOLEAN
  /\ Half \in Nat \ {0}
  /\ \A r \in Requests : {r.desired, r.add, r.subtract} \subseteq Int
  /\ \A ps \in InitialPools :
       ps \in Seq([name : PoolNames, quantity : Nat, etcd : BOOLEAN])
  /\ Quantities \subseteq Nat

VARIABLES
  autoWrite, \* --allow-auto-write, set once when the server starts
  pools,    \* spec.rkeConfig.machinePools of the provisioning cluster
  pc,       \* where each operation stands
  request,  \* its parameters
  planned,  \* the patch its token binds
  patch,    \* the patch execute computed, showed and will send
  disturbed \* history: the pools were edited after execute read them

vars == <<autoWrite, pools, pc, request, planned, patch, disturbed>>

Int32(x) == ((x + Half) % (2 * Half)) - Half

-----------------------------------------------------------------------------
(* scaleClusterNodePoolPatch: the patch, or no patch when it refuses.      *)

NoPatch == [index |-> 0, size |-> 0]

Matches(r, pool) == r.pool \in {pool.name, PrefixedName[pool.name]}

PoolIndex(ps, r) == SelectInSeq(ps, LAMBDA pool : Matches(r, pool))

\* The request itself is refused, whatever the pools are.
RequestRefused(r) ==
  LET desired == Int32(r.desired)
      add == Int32(r.add)
      subtract == Int32(r.subtract) IN
  \/ desired < 0
  \/ desired = 0 /\ add = 0 /\ subtract = 0
  \/ add # 0 /\ subtract # 0

\* An amount overrides the desired size; int32 sums wrap around.
NewSize(r, quantity) ==
  IF Int32(r.add) # 0 THEN Int32(quantity + Int32(r.add))
  ELSE IF Int32(r.subtract) # 0 THEN Int32(quantity - Int32(r.subtract))
  ELSE Int32(r.desired)

\* (Defect: the quorum is protected only below two members.)
EtcdRefusedLate(old, new) == (new < 2 /\ new < old) \/ new > 7
EtcdRefused(old, new) ==
  \/ new < 3 /\ new < old
  \/ new > 7
  \/ new % 2 = 0

\* (Defect: only zero is tested for, a negative size goes through.)
SizeRefusedZeroOnly(size) == size = 0
SizeRefused(size) == size <= 0

Patch(ps, r) ==
  LET i == PoolIndex(ps, r)
      size == NewSize(r, ps[i].quantity)
      refused == \/ RequestRefused(r)
                 \/ i = 0
                 \/ ps[i].etcd /\ EtcdRefused(ps[i].quantity, size)
                 \/ SizeRefused(size) IN
  IF refused THEN NoPatch ELSE [index |-> i, size |-> size]

-----------------------------------------------------------------------------

Init ==
  /\ autoWrite \in AutoWrite
  /\ pools \in InitialPools
  /\ pc = [c \in Calls |-> "idle"]
  /\ request \in [Calls -> Requests]
  /\ planned = [c \in Calls |-> NoPatch]
  /\ patch = [c \in Calls |-> NoPatch]
  /\ disturbed = [c \in Calls |-> FALSE]

Goto(c, label) == pc' = [pc EXCEPT ![c] = label]

\* planChange: compute the patch and issue a token that binds it.
Plan(c) ==
  LET new == Patch(pools, request[c]) IN
  /\ pc[c] = "idle"
  /\ planned' = [planned EXCEPT ![c] = new]
  /\ Goto(c, IF new = NoPatch THEN "refused" ELSE "planned")
  /\ UNCHANGED <<autoWrite, pools, request, patch, disturbed>>

\* (Defect: the operation given to the gate carries no payload.)
TokenMatchesAny(c, new) == TRUE
TokenMatches(c, new) == autoWrite \/ planned[c] = new

\* executeChange up to the gate: compute the patch again, from the cluster as
\* it is now; in auto-write mode no plan is needed and nobody is asked.
Execute(c) ==
  LET new == Patch(pools, request[c]) IN
  /\ pc[c] = "planned" \/ (autoWrite /\ pc[c] = "idle")
  /\ patch' = [patch EXCEPT ![c] = new]
  /\ disturbed' = [disturbed EXCEPT ![c] = FALSE]
  /\ Goto(c, IF new = NoPatch THEN "refused"
             ELSE IF ~TokenMatches(c, new) THEN "mismatch"
             ELSE IF autoWrite THEN "approved" ELSE "asking")
  /\ UNCHANGED <<autoWrite, pools, request, planned>>

Answer(c) ==
  /\ pc[c] = "asking"
  /\ \E label \in {"approved", "cancelled"} : Goto(c, label)
  /\ UNCHANGED <<autoWrite, pools, request, planned, patch, disturbed>>

\* (Defect: the index of the patch counts from one.)
PatchedIndexOffByOne(c) == patch[c].index + 1
PatchedIndex(c) == patch[c].index

\* The patch is sent; replacing below a missing index fails on the server.
Apply(c) ==
  /\ pc[c] = "approved"
  /\ \/ /\ PatchedIndex(c) <= Len(pools)
        /\ pools' = [pools EXCEPT ![PatchedIndex(c)].quantity = patch[c].size]
        /\ Goto(c, "applied")
        /\ disturbed' = [d \in Calls |-> disturbed[d] \/ d # c]
     \/ /\ PatchedIndex(c) > Len(pools)
        /\ Goto(c, "failed")
        /\ UNCHANGED <<pools, disturbed>>
  /\ UNCHANGED <<autoWrite, request, planned, patch>>

\* Other clients of the Rancher API (UI, autoscaler) edit the cluster.
OthersScale ==
  /\ \E i \in 1..Len(pools), q \in Quantities :
       pools' = [pools EXCEPT ![i].quantity = q]
  /\ disturbed' = [c \in Calls |-> TRUE]
  /\ UNCHANGED <<autoWrite, pc, request, planned, patch>>

OthersRemovePool ==
  /\ \E i \in 1..Len(pools) : pools' = RemoveAt(pools, i)
  /\ disturbed' = [c \in Calls |-> TRUE]
  /\ UNCHANGED <<autoWrite, pc, request, planned, patch>>

Operation(c) ==
  \/ Plan(c)
  \/ Execute(c)
  \/ Answer(c)
  \/ Apply(c)

Next ==
  \/ \E c \in Calls : Operation(c)
  \/ OthersScale
  \/ OthersRemovePool

Spec == Init /\ [][Next]_vars

-----------------------------------------------------------------------------

\* Type correctness of the pools, the patches and the operations.
TypeOK ==
  /\ autoWrite \in BOOLEAN
  /\ pools \in Seq([name : PoolNames, quantity : Nat, etcd : BOOLEAN])
  /\ pc \in [Calls -> {"idle", "planned", "refused", "mismatch", "asking",
                       "cancelled", "approved", "applied", "failed"}]
  /\ request \in [Calls -> Requests]
  /\ {planned, patch} \subseteq [Calls -> [index : Nat, size : Nat]]
  /\ disturbed \in [Calls -> BOOLEAN]

\* What a patch does to the pools: some etcd pool shrinks below three.
BreaksQuorum(before, after) ==
  Len(before) = Len(after) /\ \E i \in 1..Len(before) :
    /\ before[i].etcd
    /\ after[i].quantity < before[i].quantity
    /\ after[i].quantity < 3

\* What the patch of a call changes is the pool it names.
NamedPoolOnly(c) ==
  \A i \in 1..Len(pools) : pools'[i] # pools[i] => Matches(request[c], pools[i])

\* Without auto-write the patch sent is the one the plan showed and the token
\* binds, even when the cluster changed in between: a different patch is a
\* mismatch and is never asked or sent.
SentAsPlanned ==
  \A c \in Calls : pc[c] \in {"asking", "approved", "applied"} /\ ~autoWrite
    => patch[c] = planned[c]

\* The rest of the inductive invariant: an undisturbed patch is the one that
\* the pools as they are would give.
SentFresh ==
  \A c \in Calls : pc[c] \in {"asking", "approved"} /\ ~disturbed[c] =>
    patch[c] = Patch(pools, request[c]) /\ patch[c] # NoPatch

\* The inductive invariant behind SentAsPlanned and SafeUndisturbed.
IInv == TypeOK /\ SentAsPlanned /\ SentFresh

\* As long as nobody edits the pools while the user decides, a patch changes
\* the named pool and no other, and takes no etcd pool below three members.
SafeUndisturbed ==
  [][\A c \in Calls : Apply(c) /\ ~disturbed[c] =>
       ~BreaksQuorum(pools, pools') /\ NamedPoolOnly(c)]_vars

\* The log of the refusal: scaling an etcd pool to less than three nodes is
\* refused to prevent the loss of quorum.  Here whatever others do.
QuorumKept ==
  [][\A c \in Calls : Apply(c) => ~BreaksQuorum(pools, pools')]_vars

=============================================================================
