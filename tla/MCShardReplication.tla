------------------------ MODULE MCShardReplication ------------------------
(* Instances of ShardReplication: three nodes, replication factor three.     *)
EXTENDS ShardReplication, TLC

CONSTANTS n1, n2, n3, w0, w1, w2

ThreeNodes == {n1, n2, n3}
ThreeRing == <<n1, n2, n3>>

\* The cluster once w0, the first write, has been acknowledged: n3 handled it, and
\* it was lost on the way to n2.
AfterFirstWrite ==
    /\ map = [n \in Nodes |-> [owner |-> n1, epoch |-> 1, replicas |-> <<n2, n3>>]]
    /\ fence = [n \in Nodes |-> 1]
    /\ log = [n \in Nodes |-> IF n = n2 THEN EmptyLog ELSE RecordOwner(EmptyLog, w0)]
    /\ data = [n \in Nodes |-> IF n = n2 THEN [value |-> NoOp, has |-> {}]
                                ELSE [value |-> w0, has |-> {w0}]]
    /\ blocked = [n \in Nodes |-> FALSE]
    /\ det = [n \in Nodes |-> IdleDetector]
    /\ pc = [w \in Ops |-> IF w = w0 THEN "ok" ELSE "new"]
    /\ at = [w \in Ops |-> n1]
    /\ epoch = [w \in Ops |-> IF w = w0 THEN 1 ELSE 0]
    /\ seq = [w \in Ops |-> IF w = w0 THEN 1 ELSE 0]
    /\ h = [w \in Ops |-> IF w = w0 THEN n1 :> "none" @@ n2 :> "rejected" @@ n3 :> "applied"
                                     ELSE [n \in Nodes |-> "none"]]
    /\ doomed = {}
    /\ before = [n \in Nodes |-> {}]
    /\ dropped = [n \in Nodes |-> {}]

\* Two more writes in flight, which n3 may record in either order.
MCSpec == AfterFirstWrite /\ [][Next]_vars

\* The writes in flight are interchangeable; the nodes, placed on a ring, are not.
Interchangeable == Permutations({w1, w2})
=============================================================================
