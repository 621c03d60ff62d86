---------------------------- MODULE ControlPlane ----------------------------
(***************************************************************************)
(* The control plane of one node, Self, of a cluster without control-plane *)
(* raft (crates/nexora-zenoh/src/control.rs), with the tasks of its        *)
(* cluster manager that drive it (cluster.rs): the failure detector, the   *)
(* heartbeat sender, which rebalances when it learns of a node, and the    *)
(* administrator's add_node and remove_node.  The tasks share the map, its *)
(* durable snapshot, the router and the fence, and interleave wherever     *)
(* they await.  Nodes exchange no maps, so the others are an environment   *)
(* that is suspected or heard of at any time.                              *)
(*                                                                         *)
(* The flag writable is left out: no code reads it.  The fence also rises  *)
(* when a peer's write of a later epoch is admitted (ShardReplication);    *)
(* here it is the part of it that the maps this node publishes raise.      *)
(***************************************************************************)
EXTENDS Naturals, FiniteSets, Sequences, Functions

CONSTANTS
    Ring,         \* all nodes that ever exist, in sorted order
    Voters,       \* the configured members, Self among them
    Self,
    TotalShards,
    RF,           \* config.replication_factor
    Admin,        \* are nodes added and removed by an administrator
    MaxVersion    \* bound: versions of the map

ASSUME RingAssumption ==
    /\ Ring \in Seq(Range(Ring))
    /\ \A i, j \in 1..Len(Ring) : Ring[i] = Ring[j] => i = j
ASSUME VotersAssumption == Self \in Voters /\ Voters \subseteq Range(Ring)
ASSUME NumbersAssumption ==
    {TotalShards, RF, MaxVersion} \subseteq Nat \ {0}
ASSUME AdminAssumption == Admin \in BOOLEAN

Nodes == Range(Ring)
Shards == 0..(TotalShards - 1)

VARIABLES
    map,       \* the control plane's shard map
    store,     \* its durable snapshot
    router,    \* the router's copy of the map
    fence,     \* the epoch each shard is fenced at
    alive,     \* the nodes the control plane believes alive
    members,   \* the control plane's membership list
    known,     \* node_addrs: the nodes the heartbeat sender knows
    det,       \* the failure detector
    hb,        \* the heartbeat sender
    adm        \* the administrator's call

vars == <<map, store, router, fence, alive, members, known, det, hb, adm>>

-----------------------------------------------------------------------------
\* The elements of s that are in S, in their order: SelectSeq, which is recursive,
\* told by positions, so that proofs can use it.
Filter(s, S) ==
    LET kept == {i \in 1..Len(s) : s[i] \in S}
        Nth(k) == CHOOSE i \in kept : Cardinality({j \in kept : j <= i}) = k
    IN  [k \in 1..Cardinality(kept) |-> s[Nth(k)]]

\* ShardMap::new_distributed_rf: round robin over the sorted members, followers
\* clockwise on the ring, the replication factor clamped to 1..n.
Distributed(nodes, rf) ==
    LET sorted == Filter(Ring, nodes)
        n == Len(sorted)
        copies == IF rf > n THEN n ELSE rf
    IN  [s \in Shards |->
            [owner |-> sorted[(s % n) + 1],
             epoch |-> 1,
             replicas |-> [i \in 1..(copies - 1) |-> sorted[(((s % n) + i) % n) + 1]]]]

InitialMap == [version |-> 1, asg |-> Distributed(Voters, RF)]

Epochs(m) == [s \in Shards |-> m.asg[s].epoch]

\* with_shard_map: the members are the nodes the map names.
MembersOf(m) ==
    UNION {{m.asg[s].owner} \cup Range(m.asg[s].replicas) : s \in Shards}

\* quorum_healthy: a majority of the configured voters is believed alive.
QuorumHealthy ==
    2 * Cardinality(Voters \cap alive) > Cardinality(Voters)

\* persist_map, under the map's write lock; a failed save is logged and ignored.
Persist ==
    \E saved \in BOOLEAN : store' = IF saved THEN map' ELSE store

\* The shards whose owner a rebalance moves.
Moved(nodes, rf) ==
    LET target == Distributed(nodes, rf)
    IN  {s \in Shards : target[s].owner # map.asg[s].owner}

\* A fault: the moved shards keep their epoch.
RebalancedNoBump(nodes, rf) ==
    [version |-> IF Moved(nodes, rf) = {} THEN map.version ELSE map.version + 1,
     asg |-> [s \in Shards |->
                [owner |-> Distributed(nodes, rf)[s].owner,
                 epoch |-> map.asg[s].epoch,
                 replicas |-> Distributed(nodes, rf)[s].replicas]]]

\* The map a rebalance leaves: the target's owners and replicas, a new epoch where
\* the owner moved, a new version when some owner moved.
Rebalanced(nodes, rf) ==
    LET target == Distributed(nodes, rf)
        moved == Moved(nodes, rf)
    IN  [version |-> IF moved = {} THEN map.version ELSE map.version + 1,
         asg |-> [s \in Shards |->
                    [owner |-> target[s].owner,
                     epoch |-> IF s \in moved THEN map.asg[s].epoch + 1
                                              ELSE map.asg[s].epoch,
                     replicas |-> target[s].replicas]]]

\* rebalance_for_members: without a moved owner the replicas are still adopted, and
\* nothing is saved.
RebalanceForMembers(nodes, rf) ==
    /\ nodes # {}
    /\ Rebalanced(nodes, rf).version <= MaxVersion
    /\ map' = Rebalanced(nodes, rf)
    /\ IF Moved(nodes, rf) = {} THEN UNCHANGED store ELSE Persist

\* Stands for the map in the hands of a task that holds none.
NoMap == InitialMap

IdleDetector == [pc |-> "idle", snap |-> NoMap, todo |-> {}]

IdleHeartbeat == [pc |-> "idle", snap |-> NoMap, last |-> Voters]

IdleAdmin == [pc |-> "idle", snap |-> NoMap, node |-> Self]

Init ==
    /\ map = InitialMap
    /\ store = InitialMap
    /\ router = InitialMap
    /\ fence = Epochs(InitialMap)
    /\ alive = {}
    /\ members = MembersOf(InitialMap)
    /\ known = Voters
    /\ det = IdleDetector
    /\ hb = IdleHeartbeat
    /\ adm = IdleAdmin

\* ShardFence::observe_map: the fence of a shard only rises.
Observe(m) ==
    [s \in Shards |-> IF m.asg[s].epoch > fence[s] THEN m.asg[s].epoch ELSE fence[s]]

-----------------------------------------------------------------------------
(* The failure detector.                                                     *)

\* A fresh heartbeat, the node's own included.
MarkNodeAlive(n) ==
    /\ det.pc = "idle"
    /\ n \in known
    /\ alive' = alive \cup {n}
    /\ UNCHANGED <<map, store, router, fence, members, known, det, hb, adm>>

\* mark_node_failed, and the list of shards to fail over that it returns.
MarkNodeFailed(n) ==
    /\ det.pc = "idle"
    /\ n \in known \ {Self}
    /\ alive' = alive \ {n}
    /\ LET orphaned == {s \in Shards : map.asg[s].owner = n}
       IN  det' = [det EXCEPT !.pc = IF orphaned = {} THEN "idle" ELSE "failing",
                              !.todo = orphaned]
    /\ UNCHANGED <<map, store, router, fence, members, known, hb, adm>>

\* failover_shard_auto refuses without a healthy quorum.
FailoverRefused(s) ==
    /\ det.pc = "failing" /\ s \in det.todo
    /\ ~QuorumHealthy
    /\ det' = [det EXCEPT !.todo = @ \ {s}]
    /\ UNCHANGED <<map, store, router, fence, alive, members, known, hb, adm>>

\* A fault: the promoted node stays in its own replica list.
PromotedStaysReplica(asg, n) ==
    [owner |-> n, epoch |-> asg.epoch + 1, replicas |-> asg.replicas]

\* The promoted replica leaves the replica list.
Promoted(asg, n) ==
    [owner |-> n, epoch |-> asg.epoch + 1,
     replicas |-> Filter(asg.replicas, Nodes \ {n})]

\* failover_shard_auto under the map's lock: the first replica believed alive is
\* promoted; with none the shard loses its writable flag.  Either way the version
\* rises and the map is saved.
FailoverShardAuto(s) ==
    /\ det.pc = "failing" /\ s \in det.todo
    /\ QuorumHealthy
    /\ map.version < MaxVersion
    /\ LET live == Filter(map.asg[s].replicas, alive)
       IN  map' = [version |-> map.version + 1,
                   asg |-> IF live = <<>> THEN map.asg
                           ELSE [map.asg EXCEPT ![s] = Promoted(@, live[1])]]
    /\ Persist
    /\ det' = [pc |-> "pushing", snap |-> map', todo |-> det.todo \ {s}]
    /\ UNCHANGED <<router, fence, alive, members, known, hb, adm>>

\* The lock is released before the copy goes to the router.
PushToRouter ==
    /\ det.pc = "pushing"
    /\ router' = det.snap
    /\ det' = [det EXCEPT !.pc = "failing", !.snap = NoMap]
    /\ UNCHANGED <<map, store, fence, alive, members, known, hb, adm>>

\* A fault: the map is published while shards are left to fail over.
TakeMapEarly ==
    /\ det.pc = "failing"
    /\ det' = [det EXCEPT !.pc = "fencing", !.snap = map]
    /\ UNCHANGED <<map, store, router, fence, alive, members, known, hb, adm>>

\* After the last shard the detector reads the map to publish.
TakeMap ==
    /\ det.pc = "failing" /\ det.todo = {}
    /\ det' = [det EXCEPT !.pc = "fencing", !.snap = map]
    /\ UNCHANGED <<map, store, router, fence, alive, members, known, hb, adm>>

DetectorFences ==
    /\ det.pc = "fencing"
    /\ fence' = Observe(det.snap)
    /\ det' = [det EXCEPT !.pc = "routing"]
    /\ UNCHANGED <<map, store, router, alive, members, known, hb, adm>>

DetectorRoutes ==
    /\ det.pc = "routing"
    /\ router' = det.snap
    /\ det' = IdleDetector
    /\ UNCHANGED <<map, store, fence, alive, members, known, hb, adm>>

-----------------------------------------------------------------------------
(* The heartbeat sender.                                                     *)

\* A node is learned of, from its heartbeat or a gossip reply.
Gossip(n) ==
    /\ n \notin known
    /\ known' = known \cup {n}
    /\ UNCHANGED <<map, store, router, fence, alive, members, det, hb, adm>>

\* rebalance_impl up to the migration, when the membership changed.  last_members is
\* assigned when it returns; nothing reads it before that.
HeartbeatRebalance ==
    /\ hb.pc = "idle"
    /\ hb.last # known
    /\ RebalanceForMembers(known, RF)
    /\ hb' = IF Moved(known, RF) = {}
                THEN [hb EXCEPT !.last = known]
                ELSE [pc |-> "fencing", snap |-> map', last |-> known]
    /\ UNCHANGED <<router, fence, alive, members, known, det, adm>>

\* A fault: the heartbeat sender routes before it has fenced.
HeartbeatFencesNothing ==
    /\ hb.pc = "fencing"
    /\ hb' = [hb EXCEPT !.pc = "routing"]
    /\ UNCHANGED <<map, store, router, fence, alive, members, known, det, adm>>

\* rebalance_impl after the migration.
HeartbeatFences ==
    /\ hb.pc = "fencing"
    /\ fence' = Observe(hb.snap)
    /\ hb' = [hb EXCEPT !.pc = "routing"]
    /\ UNCHANGED <<map, store, router, alive, members, known, det, adm>>

HeartbeatRoutes ==
    /\ hb.pc = "routing"
    /\ router' = hb.snap
    /\ hb' = [hb EXCEPT !.pc = "idle", !.snap = NoMap]
    /\ UNCHANGED <<map, store, fence, alive, members, known, det, adm>>

-----------------------------------------------------------------------------
(* The administrator's calls, one at a time.                                 *)

\* ControlPlane::with_shard_map gives the control plane this replication factor,
\* whatever the configuration says.
ControlPlaneRF == 1

NoCall == adm.pc \in {"idle", "returned"}

\* ControlPlane::add_node up to the release of the membership lock.
AddNode(n) ==
    /\ Admin /\ NoCall
    /\ QuorumHealthy
    /\ n \notin members
    /\ members' = members \cup {n}
    /\ adm' = [adm EXCEPT !.pc = "added", !.node = n]
    /\ UNCHANGED <<map, store, router, fence, alive, known, det, hb>>

\* ControlPlane::remove_node, likewise.  The call that removes the last node fails
\* and leaves the list empty.
RemoveNode(n) ==
    /\ Admin /\ NoCall
    /\ QuorumHealthy
    /\ n \in members
    /\ members' = members \ {n}
    /\ adm' = [IdleAdmin EXCEPT !.pc = IF members = {n} THEN "idle" ELSE "removed"]
    /\ UNCHANGED <<map, store, router, fence, alive, known, det, hb>>

\* The rest of both: the map it returns is dropped by the cluster manager.
ControlPlaneRebalance ==
    /\ adm.pc \in {"added", "removed"}
    /\ RebalanceForMembers(members, ControlPlaneRF)
    /\ adm' = [adm EXCEPT !.pc = IF @ = "added" THEN "registering" ELSE "rebalancing"]
    /\ UNCHANGED <<router, fence, alive, members, known, det, hb>>

\* ClusterManager::add_node teaches the heartbeat sender the new node's address;
\* remove_node does not make it forget one.
RegisterNode ==
    /\ adm.pc = "registering"
    /\ known' = known \cup {adm.node}
    /\ adm' = [adm EXCEPT !.pc = "rebalancing"]
    /\ UNCHANGED <<map, store, router, fence, alive, members, det, hb>>

\* The call is over; "returned" tells add_node's from remove_node's.
Returned == [IdleAdmin EXCEPT !.pc = IF adm.node = Self THEN "idle" ELSE "returned"]

\* ClusterManager::rebalance over the control plane's members.
AdminRebalance ==
    /\ adm.pc = "rebalancing"
    /\ RebalanceForMembers(members, RF)
    /\ adm' = IF Moved(members, RF) = {}
                 THEN Returned
                 ELSE [adm EXCEPT !.pc = "fencing", !.snap = map']
    /\ UNCHANGED <<router, fence, alive, members, known, det, hb>>

AdminFences ==
    /\ adm.pc = "fencing"
    /\ fence' = Observe(adm.snap)
    /\ adm' = [adm EXCEPT !.pc = "routing"]
    /\ UNCHANGED <<map, store, router, alive, members, known, det, hb>>

AdminRoutes ==
    /\ adm.pc = "routing"
    /\ router' = adm.snap
    /\ adm' = Returned
    /\ UNCHANGED <<map, store, fence, alive, members, known, det, hb>>

-----------------------------------------------------------------------------
\* A fault: the map is derived from the configuration although a snapshot exists.
RestartCold ==
    /\ map' = InitialMap
    /\ router' = InitialMap
    /\ fence' = Epochs(InitialMap)
    /\ alive' = {}
    /\ members' = MembersOf(InitialMap)
    /\ known' = Voters
    /\ det' = IdleDetector
    /\ hb' = IdleHeartbeat
    /\ adm' = IdleAdmin
    /\ UNCHANGED store

\* A crash and ClusterManager::new and start: map, router and fence come from the
\* snapshot, the members from the map, the addresses from the configuration.
Restart ==
    /\ map' = store
    /\ router' = store
    /\ fence' = Epochs(store)
    /\ alive' = {}
    /\ members' = MembersOf(store)
    /\ known' = Voters
    /\ det' = IdleDetector
    /\ hb' = IdleHeartbeat
    /\ adm' = IdleAdmin
    /\ UNCHANGED store

Detector ==
    \/ \E n \in Nodes : MarkNodeAlive(n) \/ MarkNodeFailed(n)
    \/ \E s \in Shards : FailoverRefused(s) \/ FailoverShardAuto(s)
    \/ PushToRouter \/ TakeMap \/ DetectorFences \/ DetectorRoutes

Heartbeat ==
    \/ \E n \in Nodes : Gossip(n)
    \/ HeartbeatRebalance \/ HeartbeatFences \/ HeartbeatRoutes

Administrator ==
    \/ \E n \in Nodes : AddNode(n) \/ RemoveNode(n)
    \/ ControlPlaneRebalance \/ RegisterNode
    \/ AdminRebalance \/ AdminFences \/ AdminRoutes

Next == Detector \/ Heartbeat \/ Administrator \/ Restart

Spec == Init /\ [][Next]_vars

-----------------------------------------------------------------------------
Maps == [version : 1..MaxVersion,
         asg : [Shards -> [owner : Nodes, epoch : 1..MaxVersion,
                           replicas : UNION {[1..k -> Nodes] : k \in 0..(RF - 1)}]]]

\* Types, and what the tasks' program counters say of their local state: the detector
\* has shards left only while it fails them over, and the heartbeat sender rebalances
\* over nodes it knows.
TypeOK ==
    /\ {map, store, router, det.snap, hb.snap, adm.snap} \subseteq Maps
    /\ fence \in [Shards -> 1..MaxVersion]
    /\ alive \subseteq Nodes
    /\ members \subseteq Nodes
    /\ Voters \subseteq known /\ known \subseteq Nodes
    /\ det.pc \in {"idle", "failing", "pushing", "fencing", "routing"}
    /\ det.todo \subseteq Shards
    /\ det.todo # {} => det.pc \in {"failing", "pushing"}
    /\ hb.pc \in {"idle", "fencing", "routing"}
    /\ hb.last \subseteq known
    /\ adm.pc \in {"idle", "added", "removed", "registering", "rebalancing",
                   "fencing", "routing", "returned"}
    /\ adm.node \in Nodes

\* A copy m of the map names no epoch the control plane has not reached, and the
\* same owner where it names the control plane's epoch.
NeverAhead(m) ==
    \A s \in Shards :
        /\ m.asg[s].epoch <= map.asg[s].epoch
        /\ m.asg[s].epoch = map.asg[s].epoch => m.asg[s].owner = map.asg[s].owner

\* Where a task holds a map that it is about to publish.
Publishing == {"pushing", "fencing", "routing"}

\* One owner per epoch on this node: the durable snapshot, the map the router routes
\* by and the maps the tasks are about to publish may all be stale, across failovers,
\* rebalances, failed saves and restarts, but where one names the epoch of the
\* authoritative map it names its owner.
CopiesNeverAhead ==
    /\ NeverAhead(store) /\ NeverAhead(router)
    /\ det.pc \in Publishing => NeverAhead(det.snap)
    /\ hb.pc \in Publishing => NeverAhead(hb.snap)
    /\ adm.pc \in Publishing => NeverAhead(adm.snap)

\* The fence rejects the stragglers of every owner the router's map has deposed
\* ("Advance the fence first", cluster.rs), whichever tasks overwrite the router with
\* whichever maps, except between a failover's push to the router and the detector's
\* own fencing.
FenceCoversRouter ==
    det.pc \in {"idle", "routing"} => \A s \in Shards : router.asg[s].epoch <= fence[s]

\* An owner is replaced only under a higher epoch and a higher version
\* (shard_map.rs: "must increase on each change"), by whichever task; the one way
\* back is a restart that finds a snapshot whose last save had failed.
OwnershipFenced ==
    [][\/ \A s \in Shards :
            /\ map'.asg[s].epoch >= map.asg[s].epoch
            /\ map'.asg[s].owner # map.asg[s].owner =>
                  map'.asg[s].epoch > map.asg[s].epoch /\ map'.version > map.version
       \/ map' = store /\ store.version < map.version]_vars

\* The maps are well formed (TypeOK), and no shard lists a node twice among its
\* copies, the owner included, in the map or in a copy of it: rebalances over any
\* membership and failovers in any order keep the distinctness that counting replicas
\* for a quorum rests on.
CopiesDistinct ==
    /\ TypeOK
    /\ \A m \in {map, store, router} : \A s \in Shards :
           LET copies == <<m.asg[s].owner>> \o m.asg[s].replicas
           IN  \A i, j \in 1..Len(copies) : copies[i] = copies[j] => i = j

\* The last documented step of ClusterManager::add_node, "Publish the new ShardMap to
\* the router": once a call has returned and no task is about to publish, the
\* router routes to the control plane's owners.
AddNodePublishes ==
    adm.pc = "returned" /\ det.pc = "idle" /\ hb.pc = "idle" =>
        \A s \in Shards : router.asg[s].owner = map.asg[s].owner
=============================================================================
