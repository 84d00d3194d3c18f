-------------------------- MODULE MCScaleNodePool --------------------------
(***************************************************************************)
(* Small instances of scaleClusterNodePool: an etcd pool and a worker pool *)
(* on 4-bit integers (-8..7).  Desired sizes reach past the width, amounts *)
(* are positive, negative and zero; "cp" is the UI's name of pool "p" and, *)
(* in the last initial cluster, the plain name of another pool.            *)
(***************************************************************************)
EXTENDS ScaleNodePool, TLC

MCPrefixedName == ("p" :> "cp") @@ ("w" :> "cw") @@ ("cp" :> "ccp")

Pool(name, quantity, etcd) == [name |-> name, quantity |-> quantity, etcd |-> etcd]

MCInitialPools ==
  { <<Pool("w", 2, FALSE), Pool("p", 3, TRUE)>>,
    <<Pool("p", 1, TRUE), Pool("w", 1, FALSE)>>,
    <<Pool("p", 5, TRUE), Pool("cp", 2, FALSE)>>,
    <<>> }

Request(pool, desired, add, subtract) ==
  [pool |-> pool, desired |-> desired, add |-> add, subtract |-> subtract]

MCRequests ==
  { Request("p", 1, 0, 0), Request("cp", 3, 0, 0), Request("p", 19, 0, 0),
    Request("w", 4, 0, 0), Request("w", 0, 6, 0), Request("w", 0, 2, 0),
    Request("cp", 2, 0, 2), Request("p", 0, -2, 0), Request("p", 0, 0, 1),
    Request("p", 0, 0, 0), Request("w", 0, 1, 1), Request("w", -1, 0, 0) }

\* The parameters of the run about one kind of request.
MCDesired == { Request("p", 1, 0, 0), Request("p", 3, 0, 0) }

=============================================================================
