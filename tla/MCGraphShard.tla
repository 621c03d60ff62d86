---------------------------- MODULE MCGraphShard ----------------------------
(* Small instances of GraphShard: two nodes and workloads of a few requests. *)
EXTENDS GraphShard, TLC

CONSTANTS a, b, w1, w2, w3, w4

MCNode == {a, b}

Op(kind, time) == [kind |-> kind, time |-> time]

\* w1 sets a property by the node's clock, w2 by an old event time and adds a
\* member, w3 writes another node and does not wait for durability, w4 deletes.
MCRequest ==
    (w1 :> [node |-> a, ops |-> <<Op("set", NoTime)>>, durable |-> TRUE]) @@
    (w2 :> [node |-> a, ops |-> <<Op("add", NoTime), Op("remove", 2)>>, durable |-> TRUE]) @@
    (w3 :> [node |-> b, ops |-> <<Op("set", NoTime), Op("edgeprop", NoTime)>>, durable |-> FALSE]) @@
    (w4 :> [node |-> a, ops |-> <<Op("delete", NoTime), Op("drop", NoTime)>>, durable |-> TRUE])

\* No faults, two nodes in memory, no inline flush, event times not ahead of the
\* wall clock; each workload lifts some of these.
Base ==
    [ids |-> {w1, w2}, max_ops |-> 9, max_nodes |-> 2, sleeps |-> 0, crashes |-> 0,
     power |-> FALSE, faults |-> 0, resends |-> 0, skew |-> 0,
     dedup |-> 2]

Crashes == [Base EXCEPT !.ids = {w1, w2, w3}, !.max_ops = 2, !.crashes = 2]
PowerLoss == [Base EXCEPT !.ids = {w1, w2}, !.crashes = 1, !.power = TRUE]
Sleeps == [Base EXCEPT !.ids = {w1, w2, w3}, !.sleeps = 2]
Evictions == [Base EXCEPT !.ids = {w1, w2, w3}, !.max_nodes = 1, !.sleeps = 2]
Faults == [Base EXCEPT !.ids = {w1, w4}, !.sleeps = 1, !.faults = 2]
Resends == [Base EXCEPT !.resends = 2, !.faults = 1]
Forgets == [Base EXCEPT !.resends = 1, !.dedup = 1]

MCPlan == {Crashes, PowerLoss, Sleeps, Evictions, Faults, Resends, Forgets}

\* Workloads of the disagreements: a sleep of one node after a write to the
\* other; a durable write that fills the buffer after a relaxed one.
TruncatePlan == {[Base EXCEPT !.ids = {w1, w3}, !.sleeps = 1]}
WakeupPlan == {[Base EXCEPT !.ids = {w1, w3}, !.max_ops = 2]}
=============================================================================
