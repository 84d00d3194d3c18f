----------------------- MODULE ScaleNodePoolProofs -----------------------
(***************************************************************************)
(* Scaling a node pool, for any number of operations, requests, clusters   *)
(* and other writers: what is sent is what was planned, and as long as     *)
(* nobody edits the pools it is safe.                                      *)
(***************************************************************************)
EXTENDS ScaleNodePool, SequenceTheorems, WellFoundedInduction, TLAPS

PoolRecord == [name : PoolNames, quantity : Nat, etcd : BOOLEAN]

\* A non-empty set of indices has a least one.
LEMMA LeastIndex ==
  ASSUME NEW I \in SUBSET Nat, I # {}
  PROVE  Min(I) \in I
<1> DEFINE R == {ss \in Nat \X Nat : ss[1] < ss[2]}
<1>1. IsWellFoundedOn(R, Nat)
  BY NatLessThanWellFounded DEF OpToRel
<1>2. \A i, j \in Nat : <<j, i>> \notin R => i <= j
  OBVIOUS
<1> HIDE DEF R
<1>3. PICK i \in I : \A j \in I : <<j, i>> \notin R
  BY <1>1, WFMin
<1>4. \A j \in I : i <= j
  BY <1>2, <1>3
<1> QED
  BY <1>4 DEF Min

\* The index found is that of a pool the request matches, or zero.
LEMMA IndexMatches ==
  ASSUME NEW ps \in Seq(PoolRecord), NEW r, PoolIndex(ps, r) # 0
  PROVE  PoolIndex(ps, r) \in 1..Len(ps) /\ Matches(r, ps[PoolIndex(ps, r)])
<1> DEFINE I == {i \in 1..Len(ps) : Matches(r, ps[i])}
<1>1. PoolIndex(ps, r) = IF I # {} THEN Min(I) ELSE 0
  BY DEF PoolIndex, SelectInSeq
<1>2. I \in SUBSET Nat /\ I # {}
  BY <1>1
<1>3. PoolIndex(ps, r) \in I
  BY <1>1, <1>2, LeastIndex
<1> QED
  BY <1>3

\* A cast to int32 and the sums of the sizes are integers.
LEMMA SizesAreIntegers ==
  ASSUME NEW r \in Requests, NEW quantity \in Int
  PROVE  NewSize(r, quantity) \in Int
<1>1. \A x \in Int : Int32(x) \in Int
  <2> TAKE x \in Int
  <2>1. 2 * Half \in Nat \ {0} /\ x + Half \in Int /\ Half \in Nat
    BY ScaleAssumption
  <2> DEFINE W == 2 * Half
  <2> DEFINE s == x + Half
  <2>2. W \in Nat \ {0} /\ s \in Int
    BY <2>1
  <2>3. Int32(x) = (s % W) - Half
    BY DEF Int32
  <2> HIDE DEF W, s
  <2>4. s % W \in Int
    BY <2>2
  <2> QED
    BY <2>1, <2>3, <2>4
<1>2. r.desired \in Int /\ r.add \in Int /\ r.subtract \in Int
  BY ScaleAssumption
<1>3. /\ Int32(r.add) \in Int /\ Int32(r.subtract) \in Int
      /\ Int32(r.desired) \in Int
  BY <1>1, <1>2
<1>4. /\ quantity + Int32(r.add) \in Int
      /\ quantity - Int32(r.subtract) \in Int
  BY <1>3
<1>5. /\ Int32(quantity + Int32(r.add)) \in Int
      /\ Int32(quantity - Int32(r.subtract)) \in Int
  BY <1>1, <1>4
<1> QED
  BY <1>3, <1>5 DEF NewSize

\* A patch has a natural index and size; when it is one, it is the patch of a
\* pool that the request names, and it does not break that pool's quorum.
LEMMA PatchIsSafe ==
  ASSUME NEW ps \in Seq(PoolRecord), NEW r \in Requests
  PROVE  LET new == Patch(ps, r) IN
         /\ new \in [index : Nat, size : Nat]
         /\ new # NoPatch =>
              /\ new.index \in 1..Len(ps)
              /\ Matches(r, ps[new.index])
              /\ ps[new.index].etcd /\ new.size < ps[new.index].quantity
                   => new.size >= 3
<1> DEFINE i == PoolIndex(ps, r)
<1> DEFINE size == NewSize(r, ps[i].quantity)
<1> DEFINE new == Patch(ps, r)
<1>1. CASE new = NoPatch
  BY <1>1 DEF NoPatch
<1>2. CASE new # NoPatch
  <2>1. /\ new = [index |-> i, size |-> size]
        /\ i # 0 /\ ~SizeRefused(size)
        /\ ~(ps[i].etcd /\ EtcdRefused(ps[i].quantity, size))
    BY <1>2 DEF Patch
  <2>2. i \in 1..Len(ps) /\ Matches(r, ps[i])
    BY <2>1, IndexMatches
  <2>3. ps[i] \in PoolRecord
    BY <2>2
  <2>4. ps[i].quantity \in Nat
    BY <2>3 DEF PoolRecord
  <2>5. size \in Int
    BY <2>4, SizesAreIntegers
  <2> HIDE DEF i, size, new
  <2>6. size \in Nat
    BY <2>1, <2>5 DEF SizeRefused
  <2>7. ps[i].etcd /\ size < ps[i].quantity => size >= 3
    BY <2>1, <2>4, <2>6 DEF EtcdRefused
  <2>8. new.index = i /\ new.size = size /\ new \in [index : Nat, size : Nat]
    BY <2>1, <2>2, <2>6
  <2>9. /\ new \in [index : Nat, size : Nat]
        /\ new.index \in 1..Len(ps)
        /\ Matches(r, ps[new.index])
        /\ ps[new.index].etcd /\ new.size < ps[new.index].quantity
             => new.size >= 3
    BY <2>2, <2>7, <2>8
  <2> QED
    BY <2>9 DEF new
<1> QED
  BY <1>1, <1>2

-----------------------------------------------------------------------------

\* The pools remain machine pools when one is resized or removed.
LEMMA ResizeTyped ==
  ASSUME NEW ps \in Seq(PoolRecord), NEW i \in Nat, NEW q \in Nat
  PROVE  [ps EXCEPT ![i].quantity = q] \in Seq(PoolRecord)
<1>1. CASE i \in 1..Len(ps)
  <2>1. ps[i] \in PoolRecord
    BY <1>1
  <2>2. [ps[i] EXCEPT !.quantity = q] \in PoolRecord
    BY <2>1 DEF PoolRecord
  <2>3. [ps EXCEPT ![i] = [ps[i] EXCEPT !.quantity = q]] \in Seq(PoolRecord)
    BY <1>1, <2>2, ExceptSeq
  <2>4. [ps EXCEPT ![i].quantity = q]
          = [ps EXCEPT ![i] = [ps[i] EXCEPT !.quantity = q]]
    OBVIOUS
  <2> QED
    BY <2>3, <2>4
<1>2. CASE i \notin 1..Len(ps)
  <2>1. [ps EXCEPT ![i].quantity = q] = ps
    BY <1>2, LenProperties
  <2> QED
    BY <2>1
<1> QED
  BY <1>1, <1>2

LEMMA RemoveTyped ==
  ASSUME NEW ps \in Seq(PoolRecord), NEW i \in 1..Len(ps)
  PROVE  RemoveAt(ps, i) \in Seq(PoolRecord)
<1>1. Len(ps) \in Nat /\ \A j \in 1..Len(ps) : ps[j] \in PoolRecord
  BY LenProperties
<1>2. SubSeq(ps, 1, i - 1) \in Seq(PoolRecord)
  BY <1>1, SubSeqProperties
<1>3. SubSeq(ps, i + 1, Len(ps)) \in Seq(PoolRecord)
  BY <1>1, SubSeqProperties
<1> QED
  BY <1>2, <1>3, ConcatProperties DEF RemoveAt

LEMMA ScaleInit == Init => IInv
<1> SUFFICES ASSUME Init PROVE IInv
  OBVIOUS
<1>1. TypeOK
  <2>1. pools \in Seq([name : PoolNames, quantity : Nat, etcd : BOOLEAN])
    BY ScaleAssumption DEF Init
  <2>2. autoWrite \in BOOLEAN
    BY ScaleAssumption DEF Init
  <2> QED
    BY <2>1, <2>2 DEF Init, TypeOK, NoPatch
<1>2. SentAsPlanned /\ SentFresh
  BY DEF Init, SentAsPlanned, SentFresh
<1> QED
  BY <1>1, <1>2 DEF IInv

LEMMA PatchTyped ==
  ASSUME TypeOK, NEW c \in Calls
  PROVE  Patch(pools, request[c]) \in [index : Nat, size : Nat]
<1>1. pools \in Seq(PoolRecord) /\ request[c] \in Requests
  BY DEF TypeOK, PoolRecord
<1> QED
  BY <1>1, PatchIsSafe

LEMMA PlanPreserves ==
  ASSUME IInv, NEW c \in Calls, Plan(c)
  PROVE  IInv'
<1> DEFINE new == Patch(pools, request[c])
<1>1. new \in [index : Nat, size : Nat]
  BY PatchTyped DEF IInv
<1> HIDE DEF new
<1>2. /\ pc[c] = "idle"
      /\ planned' = [planned EXCEPT ![c] = new]
      /\ pc' = [pc EXCEPT ![c] = IF new = NoPatch THEN "refused" ELSE "planned"]
      /\ UNCHANGED <<autoWrite, pools, request, patch, disturbed>>
  BY DEF Plan, Goto, new
<1>3. TypeOK'
  BY <1>1, <1>2 DEF IInv, TypeOK
<1>4. \A d \in Calls : d # c => pc'[d] = pc[d] /\ planned'[d] = planned[d]
  BY <1>2 DEF IInv, TypeOK
<1>5. pc'[c] \in {"refused", "planned"}
  BY <1>2 DEF IInv, TypeOK
<1>6. SentAsPlanned' /\ SentFresh'
  BY <1>2, <1>4, <1>5 DEF IInv, SentAsPlanned, SentFresh
<1> QED
  BY <1>3, <1>6 DEF IInv

LEMMA ExecutePreserves ==
  ASSUME IInv, NEW c \in Calls, Execute(c)
  PROVE  IInv'
<1> DEFINE new == Patch(pools, request[c])
<1> DEFINE label == IF new = NoPatch THEN "refused"
                    ELSE IF ~TokenMatches(c, new) THEN "mismatch"
                    ELSE IF autoWrite THEN "approved" ELSE "asking"
<1>1. new \in [index : Nat, size : Nat]
  BY PatchTyped DEF IInv
<1>2. /\ patch' = [patch EXCEPT ![c] = new]
      /\ disturbed' = [disturbed EXCEPT ![c] = FALSE]
      /\ pc' = [pc EXCEPT ![c] = label]
      /\ UNCHANGED <<autoWrite, pools, request, planned>>
  BY DEF Execute, Goto
<1>3. label \in {"refused", "mismatch", "approved", "asking"}
  OBVIOUS
<1>4. label \in {"approved", "asking"} =>
        new # NoPatch /\ (~autoWrite => planned[c] = new)
  BY DEF TokenMatches
<1>5. Patch(pools', request'[c]) = new
  BY <1>2
<1>6. \A d \in Calls : Patch(pools', request'[d]) = Patch(pools, request[d])
  BY <1>2
<1> HIDE DEF label, new
<1>7. TypeOK'
  BY <1>1, <1>2, <1>3 DEF IInv, TypeOK
<1>8. /\ pc'[c] = label /\ patch'[c] = new
      /\ \A d \in Calls : d # c =>
            pc'[d] = pc[d] /\ patch'[d] = patch[d] /\ disturbed'[d] = disturbed[d]
  BY <1>2 DEF IInv, TypeOK
<1>9. SentAsPlanned'
  BY <1>2, <1>3, <1>4, <1>8 DEF IInv, SentAsPlanned
<1>10. SentFresh'
  BY <1>3, <1>4, <1>5, <1>6, <1>8 DEF IInv, SentFresh
<1> QED
  BY <1>7, <1>9, <1>10 DEF IInv

LEMMA AnswerPreserves ==
  ASSUME IInv, NEW c \in Calls, Answer(c)
  PROVE  IInv'
<1>1. PICK label \in {"approved", "cancelled"} : pc' = [pc EXCEPT ![c] = label]
  BY DEF Answer, Goto
<1>2. /\ pc[c] = "asking"
      /\ UNCHANGED <<autoWrite, pools, request, planned, patch, disturbed>>
  BY DEF Answer
<1>3. TypeOK'
  BY <1>1, <1>2 DEF IInv, TypeOK
<1>4. pc'[c] = label /\ \A d \in Calls : d # c => pc'[d] = pc[d]
  BY <1>1 DEF IInv, TypeOK
<1>5. SentAsPlanned' /\ SentFresh'
  BY <1>2, <1>4 DEF IInv, SentAsPlanned, SentFresh
<1> QED
  BY <1>3, <1>5 DEF IInv

\* When a call patches, every other call becomes disturbed, and the call
\* itself is no longer to be sent.
LEMMA ApplyPreserves ==
  ASSUME IInv, NEW c \in Calls, Apply(c)
  PROVE  IInv'
<1>1. patch[c] \in [index : Nat, size : Nat] /\ pools \in Seq(PoolRecord)
  BY DEF IInv, TypeOK, PoolRecord
<1>2. /\ pc[c] = "approved"
      /\ UNCHANGED <<autoWrite, request, planned, patch>>
  BY DEF Apply
<1>3. CASE PatchedIndex(c) <= Len(pools)
  <2>1. /\ pools' = [pools EXCEPT ![patch[c].index].quantity = patch[c].size]
        /\ pc' = [pc EXCEPT ![c] = "applied"]
        /\ disturbed' = [d \in Calls |-> disturbed[d] \/ d # c]
    BY <1>1, <1>3 DEF Apply, Goto, PatchedIndex
  <2>2. pools' \in Seq(PoolRecord)
    BY <1>1, <2>1, ResizeTyped
  <2>3. disturbed' \in [Calls -> BOOLEAN]
    BY <2>1
  <2>4. TypeOK'
    BY <1>2, <2>1, <2>2, <2>3 DEF IInv, TypeOK, PoolRecord
  <2>5. /\ pc'[c] = "applied"
        /\ \A d \in Calls : d # c => pc'[d] = pc[d] /\ disturbed'[d]
    BY <2>1 DEF IInv, TypeOK
  <2>6. SentAsPlanned' /\ SentFresh'
    BY <1>2, <2>5 DEF IInv, SentAsPlanned, SentFresh
  <2> QED
    BY <2>4, <2>6 DEF IInv
<1>4. CASE ~(PatchedIndex(c) <= Len(pools))
  <2>1. /\ UNCHANGED <<pools, disturbed>>
        /\ pc' = [pc EXCEPT ![c] = "failed"]
    BY <1>4 DEF Apply, Goto
  <2>2. TypeOK'
    BY <1>2, <2>1 DEF IInv, TypeOK
  <2>3. pc'[c] = "failed" /\ \A d \in Calls : d # c => pc'[d] = pc[d]
    BY <2>1 DEF IInv, TypeOK
  <2>4. SentAsPlanned' /\ SentFresh'
    BY <1>2, <2>1, <2>3 DEF IInv, SentAsPlanned, SentFresh
  <2> QED
    BY <2>2, <2>4 DEF IInv
<1> QED
  BY <1>3, <1>4

\* Another client's edit disturbs every call.
LEMMA OthersPreserve ==
  ASSUME IInv, OthersScale \/ OthersRemovePool
  PROVE  IInv'
<1>1. /\ disturbed' = [c \in Calls |-> TRUE]
      /\ UNCHANGED <<autoWrite, pc, request, planned, patch>>
  BY DEF OthersScale, OthersRemovePool
<1>2. pools \in Seq(PoolRecord)
  BY DEF IInv, TypeOK, PoolRecord
<1>3. pools' \in Seq(PoolRecord)
  <2>1. CASE OthersScale
    <3>1. PICK i \in 1..Len(pools), q \in Quantities :
            pools' = [pools EXCEPT ![i].quantity = q]
      BY <2>1 DEF OthersScale
    <3>2. i \in Nat /\ q \in Nat
      BY <1>2, ScaleAssumption
    <3> QED
      BY <1>2, <3>1, <3>2, ResizeTyped
  <2>2. CASE OthersRemovePool
    BY <1>2, <2>2, RemoveTyped DEF OthersRemovePool
  <2> QED
    BY <2>1, <2>2
<1>4. TypeOK'
  BY <1>1, <1>3 DEF IInv, TypeOK, PoolRecord
<1>5. SentAsPlanned' /\ SentFresh'
  BY <1>1 DEF IInv, SentAsPlanned, SentFresh
<1> QED
  BY <1>4, <1>5 DEF IInv

LEMMA ScaleStep == IInv /\ [Next]_vars => IInv'
<1> SUFFICES ASSUME IInv, [Next]_vars PROVE IInv'
  OBVIOUS
<1>1. ASSUME NEW c \in Calls, Operation(c) PROVE IInv'
  BY <1>1, PlanPreserves, ExecutePreserves, AnswerPreserves, ApplyPreserves
     DEF Operation
<1>2. CASE OthersScale \/ OthersRemovePool
  BY <1>2, OthersPreserve
<1>3. CASE UNCHANGED vars
  BY <1>3 DEF vars, IInv, TypeOK, SentAsPlanned, SentFresh
<1> QED
  BY <1>1, <1>2, <1>3 DEF Next

\* A patch sent from pools nobody has edited changes the pool it names and
\* leaves every etcd pool its quorum.
LEMMA ApplyIsSafe ==
  ASSUME IInv, NEW c \in Calls, Apply(c), ~disturbed[c]
  PROVE  ~BreaksQuorum(pools, pools') /\ NamedPoolOnly(c)
<1> DEFINE n == patch[c].index
<1> DEFINE q == patch[c].size
<1>1. pools \in Seq(PoolRecord) /\ request[c] \in Requests
  BY DEF IInv, TypeOK, PoolRecord
<1>2. patch[c] = Patch(pools, request[c]) /\ patch[c] # NoPatch
  BY DEF IInv, SentFresh, Apply
<1>3. /\ patch[c] \in [index : Nat, size : Nat]
      /\ n \in 1..Len(pools) /\ Matches(request[c], pools[n])
      /\ pools[n].etcd /\ q < pools[n].quantity => q >= 3
  BY <1>1, <1>2, PatchIsSafe
<1>4. pools' = [pools EXCEPT ![n].quantity = q]
  BY <1>1, <1>3 DEF Apply, PatchedIndex
<1>5. pools[n] \in PoolRecord /\ q \in Nat
  BY <1>1, <1>3
<1>6. \A i \in 1..Len(pools) :
        pools'[i] = IF i = n THEN [pools[n] EXCEPT !.quantity = q] ELSE pools[i]
  BY <1>1, <1>3, <1>4, LenProperties
<1>7. pools'[n].quantity = q
  BY <1>3, <1>5, <1>6 DEF PoolRecord
<1> HIDE DEF n, q
<1>8. \A i \in 1..Len(pools) : i # n => pools'[i] = pools[i]
  BY <1>6
<1>9. NamedPoolOnly(c)
  BY <1>3, <1>8 DEF NamedPoolOnly
<1>10. ASSUME NEW i \in 1..Len(pools), pools[i].etcd,
              pools'[i].quantity < pools[i].quantity, pools'[i].quantity < 3
       PROVE  FALSE
  <2>1. CASE i = n
    BY <1>3, <1>5, <1>7, <1>10, <2>1
  <2>2. CASE i # n
    <3>1. pools[i] \in PoolRecord
      BY <1>1
    <3>2. pools[i].quantity \in Nat
      BY <3>1 DEF PoolRecord
    <3> QED
      BY <1>8, <1>10, <2>2, <3>2
  <2> QED
    BY <2>1, <2>2
<1>11. ~BreaksQuorum(pools, pools')
  BY <1>10 DEF BreaksQuorum
<1> QED
  BY <1>9, <1>11

-----------------------------------------------------------------------------

\* The variables keep their types; no size below zero, as a sum that left the
\* int32 range would be, becomes part of a patch (scaleClusterNodePoolPatch).
THEOREM ScaleTypeCorrect == Spec => []TypeOK
<1>1. IInv => TypeOK
  BY DEF IInv
<1> QED
  BY ScaleInit, ScaleStep, <1>1, PTL DEF Spec

\* The inductive invariant: until somebody edits the pools, the patch that a call
\* asks about and sends is the one the pools as they are would give.
THEOREM ScaleInvariant == Spec => []IInv
BY ScaleInit, ScaleStep, PTL DEF Spec

\* Without auto-write, the patch the user is asked about and the one sent is
\* the patch the plan showed, whatever others do to the cluster.
THEOREM PatchSentIsPlanned == Spec => []SentAsPlanned
<1>1. IInv => SentAsPlanned
  BY DEF IInv
<1> QED
  BY ScaleInit, ScaleStep, <1>1, PTL DEF Spec

\* A patch sent while nobody edited the pools changes the named pool alone and
\* keeps the quorum of the etcd pools, for every request and every cluster.
THEOREM UndisturbedIsSafe == Spec => SafeUndisturbed
<1>1. IInv /\ [Next]_vars =>
        [\A c \in Calls : Apply(c) /\ ~disturbed[c] =>
           ~BreaksQuorum(pools, pools') /\ NamedPoolOnly(c)]_vars
  BY ApplyIsSafe
<1> QED
  BY ScaleInit, ScaleStep, <1>1, PTL DEF Spec, SafeUndisturbed

==========================================================================
