------------------------ MODULE ControlPlaneProofs ------------------------
(***************************************************************************)
(* Proofs about ControlPlane, for every ring, set of voters, number of     *)
(* shards, replication factor and bound on the versions: no copy of the    *)
(* shard map contradicts the control plane's, ownership moves only under a *)
(* higher epoch, the fence covers the router's map outside a failover, and *)
(* a shard's owner and replicas are distinct nodes in every map.           *)
(***************************************************************************)
EXTENDS ControlPlane, TLAPS, FiniteSetTheorems, WellFoundedInduction, NaturalsInduction

\* A map with a version, and an assignment with an epoch to every shard.
Numbered(m) == m.version \in Nat /\ \A s \in Shards : m.asg[s].epoch \in Nat

IsMap(m) == Numbered(m) /\ DOMAIN m.asg = Shards /\ m.asg = [s \in DOMAIN m.asg |-> m.asg[s]]

\* The fields of the tasks' states.
Shape ==
    /\ IsMap(map) /\ IsMap(store) /\ IsMap(router)
    /\ IsMap(det.snap) /\ IsMap(hb.snap) /\ IsMap(adm.snap)
    /\ fence = [s \in Shards |-> fence[s]]
    /\ \A s \in Shards : fence[s] \in Nat
    /\ det = [pc |-> det.pc, snap |-> det.snap, todo |-> det.todo]
    /\ det.todo \subseteq Shards
    /\ hb = [pc |-> hb.pc, snap |-> hb.snap, last |-> hb.last]
    /\ adm = [pc |-> adm.pc, snap |-> adm.snap, node |-> adm.node]

SameOwners(m) ==
    \A s \in Shards : m.asg[s].epoch = map.asg[s].epoch /\ m.asg[s].owner = map.asg[s].owner

\* The snapshot is the map up to its replicas, or of an earlier version.
SnapshotLags == store.version <= map.version /\ (store.version = map.version => SameOwners(store))

\* The inductive invariant.
IInv == Shape /\ CopiesNeverAhead /\ SnapshotLags

\* What every step but a restart does to the map.
Advances ==
    /\ IsMap(map')
    /\ map'.version >= map.version
    /\ \A s \in Shards :
        /\ map'.asg[s].epoch >= map.asg[s].epoch
        /\ map'.asg[s].epoch = map.asg[s].epoch => map'.asg[s].owner = map.asg[s].owner
    /\ map'.version = map.version =>
        \A s \in Shards : /\ map'.asg[s].epoch = map.asg[s].epoch
                          /\ map'.asg[s].owner = map.asg[s].owner

\* A rebalance over any nodes moves owners only with their epochs and the version.
LEMMA RebalanceAdvances ==
    ASSUME NEW nodes, NEW rf, Shape, RebalanceForMembers(nodes, rf)
    PROVE  Advances /\ (store' = store \/ store' = map')
<1> DEFINE D == Distributed(nodes, rf)
           R == Rebalanced(nodes, rf)
<1>1. map' = R
  BY DEF RebalanceForMembers
<1>2. /\ R.version = IF Moved(nodes, rf) = {} THEN map.version ELSE map.version + 1
      /\ \A s \in Shards :
            /\ R.asg[s].owner = D[s].owner
            /\ R.asg[s].epoch = IF s \in Moved(nodes, rf) THEN map.asg[s].epoch + 1
                                                          ELSE map.asg[s].epoch
      /\ R.asg = [s \in Shards |-> R.asg[s]]
  BY DEF Rebalanced
<1>3. \A s \in Shards : s \notin Moved(nodes, rf) => D[s].owner = map.asg[s].owner
  BY DEF Moved
<1>4. Advances
  <2> HIDE DEF D, R
  <2>1. Numbered(map)
    BY DEF Shape, IsMap
  <2>2. \A s \in Shards : /\ R.asg[s].epoch \in Nat
                          /\ R.asg[s].epoch >= map.asg[s].epoch
                          /\ R.asg[s].epoch = map.asg[s].epoch => R.asg[s].owner = map.asg[s].owner
    BY <1>2, <1>3, <2>1 DEF Numbered
  <2>3. R.version \in Nat /\ R.version >= map.version
    BY <1>2, <2>1 DEF Numbered
  <2>4. R.version = map.version => Moved(nodes, rf) = {}
    BY <1>2, <2>1 DEF Numbered
  <2>5. R.version = map.version =>
           \A s \in Shards : R.asg[s].epoch = map.asg[s].epoch /\ R.asg[s].owner = map.asg[s].owner
    BY <1>2, <1>3, <2>4
  <2>6. IsMap(R)
    BY <1>2, <2>2, <2>3 DEF IsMap, Numbered
  <2> QED BY <1>1, <2>2, <2>3, <2>5, <2>6 DEF Advances
<1>5. store' = store \/ store' = map'
  BY DEF RebalanceForMembers, Persist
<1> QED BY <1>4, <1>5

\* A failover, with or without a replica to promote, likewise.
LEMMA FailoverAdvances ==
    ASSUME NEW s \in Shards, Shape, FailoverShardAuto(s)
    PROVE  Advances /\ (store' = store \/ store' = map')
<1>0. SUFFICES Advances
  BY DEF FailoverShardAuto, Persist
<1>1. PICK n : map' = [version |-> map.version + 1,
                       asg |-> [map.asg EXCEPT ![s] = Promoted(map.asg[s], n)]]
               \/ map' = [version |-> map.version + 1, asg |-> map.asg]
  BY DEF FailoverShardAuto
<1>2. CASE map' = [version |-> map.version + 1,
                   asg |-> [map.asg EXCEPT ![s] = Promoted(map.asg[s], n)]]
  <2>1. map'.version = map.version + 1
    BY <1>2
  <2>2. Promoted(map.asg[s], n).epoch = map.asg[s].epoch + 1
    BY DEF Promoted
  <2>3. \A t \in Shards : map'.asg[t] = IF t = s THEN Promoted(map.asg[s], n) ELSE map.asg[t]
    BY <1>2 DEF Shape, IsMap
  <2>4. map'.asg = [t \in Shards |-> map'.asg[t]]
    BY <1>2 DEF Shape, IsMap
  <2>5. Numbered(map)
    BY DEF Shape, IsMap
  <2>6. \A t \in Shards : /\ map'.asg[t].epoch \in Nat
                          /\ map'.asg[t].epoch >= map.asg[t].epoch
                          /\ map'.asg[t].epoch = map.asg[t].epoch => map'.asg[t].owner = map.asg[t].owner
    BY <2>2, <2>3, <2>5 DEF Numbered
  <2>7. map'.version \in Nat /\ map'.version > map.version
    BY <2>1, <2>5 DEF Numbered
  <2>8. IsMap(map')
    BY <2>4, <2>6, <2>7 DEF IsMap, Numbered
  <2> QED BY <2>5, <2>6, <2>7, <2>8 DEF Advances, Numbered
<1>3. CASE map' = [version |-> map.version + 1, asg |-> map.asg]
  BY <1>3 DEF Advances, Shape, IsMap, Numbered
<1> QED BY <1>1, <1>2, <1>3

\* A step that leaves the map alone.
LEMMA UnchangedAdvances ==
    ASSUME Shape, map' = map
    PROVE  Advances
<1>1. IsMap(map')
  BY DEF Shape, IsMap, Numbered
<1>2. Numbered(map)
  BY DEF Shape, IsMap
<1> QED BY <1>1, <1>2 DEF Advances, Numbered

\* A copy that was not ahead of the map is not ahead of the map that follows it.
LEMMA StaysBehind ==
    ASSUME NEW m, IsMap(m), IsMap(map), Advances, NeverAhead(m)
    PROVE  \A s \in Shards :
              /\ m.asg[s].epoch <= map'.asg[s].epoch
              /\ m.asg[s].epoch = map'.asg[s].epoch => m.asg[s].owner = map'.asg[s].owner
<1>1. Numbered(m) /\ Numbered(map) /\ Numbered(map')
  BY DEF IsMap, Advances
<1> QED BY <1>1 DEF Advances, Numbered, NeverAhead

\* The map derived from the configuration is one.
LEMMA InitialIsMap == IsMap(InitialMap)
<1>1. /\ InitialMap.version = 1
      /\ InitialMap.asg = Distributed(Voters, RF)
  BY DEF InitialMap
<1>2. /\ DOMAIN Distributed(Voters, RF) = Shards
      /\ Distributed(Voters, RF) = [s \in Shards |-> Distributed(Voters, RF)[s]]
      /\ \A s \in Shards : Distributed(Voters, RF)[s].epoch = 1
  BY DEF Distributed
<1> QED BY <1>1, <1>2 DEF IsMap, Numbered

-----------------------------------------------------------------------------
\* A task keeps the map it is about to publish, takes the control plane's, or holds
\* one that it will not publish.
TaskSteps(t) ==
    /\ IsMap(t'.snap)
    /\ \/ t'.pc \notin Publishing
       \/ t.pc \in Publishing /\ t'.snap = t.snap
       \/ t'.snap = map'

\* The map a task holds in order to publish it.
Held(m) ==
    \/ det.pc \in Publishing /\ m = det.snap
    \/ hb.pc \in Publishing /\ m = hb.snap
    \/ adm.pc \in Publishing /\ m = adm.snap

TasksKeepFields ==
    /\ det' = [pc |-> det'.pc, snap |-> det'.snap, todo |-> det'.todo]
    /\ det'.todo \subseteq Shards
    /\ hb' = [pc |-> hb'.pc, snap |-> hb'.snap, last |-> hb'.last]
    /\ adm' = [pc |-> adm'.pc, snap |-> adm'.snap, node |-> adm'.node]

\* What every step but a restart does: the map advances, and whatever is saved,
\* routed by or fenced comes from it or from a map some task holds.
Publishes ==
    /\ Advances
    /\ store' = store \/ store' = map'
    /\ router' = router \/ \E m : Held(m) /\ router' = m
    /\ fence' = fence \/ \E m : Held(m) /\ fence' = Observe(m)
    /\ TaskSteps(det) /\ TaskSteps(hb) /\ TaskSteps(adm)
    /\ TasksKeepFields

\* The map is not ahead of itself.
LEMMA MapNotAhead ==
    ASSUME NEW m, Numbered(m)
    PROVE  \A s \in Shards : m.asg[s].epoch <= m.asg[s].epoch
BY DEF Numbered

\* Such a step preserves the invariant.
LEMMA PublishesPreserves ==
    ASSUME IInv, Publishes
    PROVE  IInv'
<1> DEFINE Behind(m) == \A s \in Shards :
              /\ m.asg[s].epoch <= map'.asg[s].epoch
              /\ m.asg[s].epoch = map'.asg[s].epoch => m.asg[s].owner = map'.asg[s].owner
<1>1. Shape /\ CopiesNeverAhead /\ SnapshotLags /\ Advances
  BY DEF IInv, Publishes
<1>2. IsMap(map) /\ IsMap(map') /\ Numbered(map) /\ Numbered(map')
  BY <1>1 DEF Shape, Advances, IsMap
<1>3. ASSUME NEW m, IsMap(m), NeverAhead(m) PROVE Behind(m)
  BY <1>1, <1>2, <1>3, StaysBehind
<1>4. Behind(map')
  BY <1>2, MapNotAhead
<1>5. \A m : Held(m) => IsMap(m) /\ NeverAhead(m)
  BY <1>1 DEF Held, Shape, CopiesNeverAhead
<1>6. IsMap(store') /\ Behind(store')
  <2>1. IsMap(store) /\ NeverAhead(store)
    BY <1>1 DEF Shape, CopiesNeverAhead
  <2> QED BY <2>1, <1>2, <1>3, <1>4 DEF Publishes
<1>7. IsMap(router') /\ Behind(router')
  <2>1. IsMap(router) /\ NeverAhead(router)
    BY <1>1 DEF Shape, CopiesNeverAhead
  <2> QED BY <2>1, <1>3, <1>5 DEF Publishes
<1>8. /\ IsMap(det'.snap) /\ (det'.pc \in Publishing => Behind(det'.snap))
      /\ IsMap(hb'.snap) /\ (hb'.pc \in Publishing => Behind(hb'.snap))
      /\ IsMap(adm'.snap) /\ (adm'.pc \in Publishing => Behind(adm'.snap))
  BY <1>3, <1>4, <1>5 DEF Publishes, TaskSteps, Held
<1>9. fence' = [s \in Shards |-> fence'[s]] /\ \A s \in Shards : fence'[s] \in Nat
  <2>1. fence = [s \in Shards |-> fence[s]] /\ \A s \in Shards : fence[s] \in Nat
    BY <1>1 DEF Shape
  <2>2. ASSUME NEW m, Held(m), fence' = Observe(m) PROVE <1>9!:
    <3>1. Numbered(m)
      BY <2>2, <1>5, Zenon DEF IsMap
    <3> QED BY <2>1, <2>2, <3>1 DEF Observe, Numbered
  <2> QED BY <2>1, <2>2 DEF Publishes
<1>10. SnapshotLags'
  <2>1. Numbered(store)
    BY <1>1 DEF Shape, IsMap
  <2>2. CASE store' = map'
    BY <1>2, <2>2 DEF SnapshotLags, SameOwners, Numbered
  <2>3. CASE store' = store
    BY <1>1, <1>2, <2>1, <2>3 DEF SnapshotLags, SameOwners, Advances, Numbered
  <2> QED BY <2>2, <2>3 DEF Publishes
<1>11. Shape'
  BY <1>2, <1>6, <1>7, <1>8, <1>9 DEF Shape, Publishes, TasksKeepFields
<1>12. CopiesNeverAhead'
  BY <1>6, <1>7, <1>8 DEF CopiesNeverAhead, NeverAhead, Publishing
<1> QED BY <1>10, <1>11, <1>12 DEF IInv

\* Every step but a restart is of that kind.
LEMMA StepPublishes ==
    ASSUME Shape, Detector \/ Heartbeat \/ Administrator
    PROVE  Publishes
<1> USE DEF Publishing
<1>0. IsMap(map) /\ IsMap(NoMap) /\ IsMap(det.snap) /\ IsMap(hb.snap) /\ IsMap(adm.snap)
  BY InitialIsMap DEF Shape, NoMap
<1>1. map' = map => Advances /\ IsMap(map')
  BY UnchangedAdvances DEF Advances
<1>2. UNCHANGED det => TaskSteps(det)
  BY <1>0 DEF TaskSteps
<1>3. UNCHANGED hb => TaskSteps(hb)
  BY <1>0 DEF TaskSteps
<1>4. UNCHANGED adm => TaskSteps(adm)
  BY <1>0 DEF TaskSteps
<1>5. ASSUME NEW n \in Nodes, MarkNodeAlive(n) PROVE Publishes
  BY <1>1, <1>2, <1>3, <1>4, <1>5 DEF MarkNodeAlive, Publishes, TasksKeepFields, Shape
<1>6. ASSUME NEW n \in Nodes, MarkNodeFailed(n) PROVE Publishes
  <2>1. TaskSteps(det) /\ det' = [pc |-> det'.pc, snap |-> det'.snap, todo |-> det'.todo]
                       /\ det'.todo \subseteq Shards
    BY <1>0, <1>6, Zenon DEF MarkNodeFailed, TaskSteps, Shape
  <2> QED BY <2>1, <1>1, <1>3, <1>4, <1>6 DEF MarkNodeFailed, Publishes, TasksKeepFields, Shape
<1>7. ASSUME NEW s \in Shards, FailoverRefused(s) PROVE Publishes
  <2>1. TaskSteps(det) /\ det' = [pc |-> det'.pc, snap |-> det'.snap, todo |-> det'.todo]
                       /\ det'.todo \subseteq Shards
    BY <1>0, <1>7 DEF FailoverRefused, TaskSteps, Shape
  <2> QED BY <2>1, <1>1, <1>3, <1>4, <1>7 DEF FailoverRefused, Publishes, TasksKeepFields, Shape
<1>8. ASSUME NEW s \in Shards, FailoverShardAuto(s) PROVE Publishes
  <2>1. Advances /\ (store' = store \/ store' = map') /\ IsMap(map')
    BY <1>8, FailoverAdvances DEF Advances
  <2>2. det' = [pc |-> "pushing", snap |-> map', todo |-> det.todo \ {s}]
    BY <1>8 DEF FailoverShardAuto
  <2>3. TaskSteps(det) /\ det' = [pc |-> det'.pc, snap |-> det'.snap, todo |-> det'.todo]
                       /\ det'.todo \subseteq Shards
    BY <2>1, <2>2 DEF TaskSteps, Shape
  <2> QED BY <2>1, <2>3, <1>3, <1>4, <1>8 DEF FailoverShardAuto, Publishes, TasksKeepFields, Shape
<1>9. ASSUME PushToRouter \/ TakeMap \/ DetectorFences \/ DetectorRoutes PROVE Publishes
  <2>1. TaskSteps(det) /\ det' = [pc |-> det'.pc, snap |-> det'.snap, todo |-> det'.todo]
                       /\ det'.todo \subseteq Shards
    <3>1. CASE PushToRouter
      BY <1>0, <3>1, Zenon DEF PushToRouter, TaskSteps, Shape
    <3>2. CASE TakeMap
      BY <1>0, <3>2, Zenon DEF TakeMap, TaskSteps, Shape
    <3>3. CASE DetectorFences
      BY <1>0, <3>3 DEF DetectorFences, TaskSteps, Shape
    <3>4. CASE DetectorRoutes
      BY <1>0, <3>4 DEF DetectorRoutes, IdleDetector, TaskSteps, Shape
    <3> QED BY <1>9, <3>1, <3>2, <3>3, <3>4
  <2>2. map' = map /\ store' = store /\ UNCHANGED <<hb, adm>>
    BY <1>9 DEF PushToRouter, TakeMap, DetectorFences, DetectorRoutes
  <2>3. router' = router \/ (det.pc \in Publishing /\ router' = det.snap)
    BY <1>9 DEF PushToRouter, TakeMap, DetectorFences, DetectorRoutes
  <2>4. fence' = fence \/ (det.pc \in Publishing /\ fence' = Observe(det.snap))
    BY <1>9 DEF PushToRouter, TakeMap, DetectorFences, DetectorRoutes
  <2> QED BY <2>1, <2>2, <2>3, <2>4, <1>1, <1>3, <1>4 DEF Publishes, TasksKeepFields, Shape, Held
<1>10. ASSUME NEW n \in Nodes, Gossip(n) PROVE Publishes
  BY <1>1, <1>2, <1>3, <1>4, <1>10 DEF Gossip, Publishes, TasksKeepFields, Shape
<1>11. ASSUME HeartbeatRebalance PROVE Publishes
  <2>1. Advances /\ (store' = store \/ store' = map') /\ IsMap(map')
    BY <1>11, RebalanceAdvances DEF HeartbeatRebalance, Advances
  <2>2. \/ hb' = [hb EXCEPT !.last = known] /\ hb.pc = "idle"
        \/ hb' = [pc |-> "fencing", snap |-> map', last |-> known]
    BY <1>11 DEF HeartbeatRebalance
  <2>3. /\ TaskSteps(hb)
        /\ hb' = [pc |-> hb'.pc, snap |-> hb'.snap, last |-> hb'.last]
    BY <2>1, <2>2, <1>0 DEF TaskSteps, Shape
  <2> QED BY <2>1, <2>3, <1>2, <1>4, <1>11 DEF HeartbeatRebalance, Publishes, TasksKeepFields, Shape
<1>12. ASSUME HeartbeatFences \/ HeartbeatRoutes PROVE Publishes
  <2>1. /\ TaskSteps(hb)
        /\ hb' = [pc |-> hb'.pc, snap |-> hb'.snap, last |-> hb'.last]
    BY <1>0, <1>12, Zenon DEF HeartbeatFences, HeartbeatRoutes, TaskSteps, Shape
  <2>2. map' = map /\ store' = store /\ UNCHANGED <<det, adm>>
    BY <1>12 DEF HeartbeatFences, HeartbeatRoutes
  <2>3. router' = router \/ (hb.pc \in Publishing /\ router' = hb.snap)
    BY <1>12 DEF HeartbeatFences, HeartbeatRoutes
  <2>4. fence' = fence \/ (hb.pc \in Publishing /\ fence' = Observe(hb.snap))
    BY <1>12 DEF HeartbeatFences, HeartbeatRoutes
  <2> QED BY <2>1, <2>2, <2>3, <2>4, <1>1, <1>2, <1>4 DEF Publishes, TasksKeepFields, Shape, Held
<1>13. ASSUME NEW n \in Nodes, AddNode(n) \/ RemoveNode(n) PROVE Publishes
  <2>1. TaskSteps(adm) /\ adm' = [pc |-> adm'.pc, snap |-> adm'.snap, node |-> adm'.node]
    BY <1>0, <1>13, Zenon DEF AddNode, RemoveNode, IdleAdmin, TaskSteps, Shape
  <2>2. map' = map /\ UNCHANGED <<store, router, fence, det, hb>>
    BY <1>13 DEF AddNode, RemoveNode
  <2> QED BY <2>1, <2>2, <1>1, <1>2, <1>3 DEF Publishes, TasksKeepFields, Shape
<1>14. ASSUME ControlPlaneRebalance \/ AdminRebalance PROVE Publishes
  <2>1. Advances /\ (store' = store \/ store' = map') /\ IsMap(map')
    BY <1>14, RebalanceAdvances DEF ControlPlaneRebalance, AdminRebalance, Advances
  <2>2. TaskSteps(adm) /\ adm' = [pc |-> adm'.pc, snap |-> adm'.snap, node |-> adm'.node]
    BY <2>1, <1>0, <1>14, Zenon DEF ControlPlaneRebalance, AdminRebalance, Returned, IdleAdmin,
                            TaskSteps, Shape
  <2>3. UNCHANGED <<router, fence, det, hb>>
    BY <1>14 DEF ControlPlaneRebalance, AdminRebalance
  <2> QED BY <2>1, <2>2, <2>3, <1>2, <1>3 DEF Publishes, TasksKeepFields, Shape
<1>15. ASSUME RegisterNode \/ AdminFences \/ AdminRoutes PROVE Publishes
  <2>1. TaskSteps(adm) /\ adm' = [pc |-> adm'.pc, snap |-> adm'.snap, node |-> adm'.node]
    BY <1>0, <1>15 DEF RegisterNode, AdminFences, AdminRoutes, Returned, IdleAdmin,
                       TaskSteps, Shape
  <2>2. map' = map /\ store' = store /\ UNCHANGED <<det, hb>>
    BY <1>15 DEF RegisterNode, AdminFences, AdminRoutes
  <2>3. router' = router \/ (adm.pc \in Publishing /\ router' = adm.snap)
    BY <1>15 DEF RegisterNode, AdminFences, AdminRoutes
  <2>4. fence' = fence \/ (adm.pc \in Publishing /\ fence' = Observe(adm.snap))
    BY <1>15 DEF RegisterNode, AdminFences, AdminRoutes
  <2> QED BY <2>1, <2>2, <2>3, <2>4, <1>1, <1>2, <1>3 DEF Publishes, TasksKeepFields, Shape, Held
<1> QED
  BY <1>5, <1>6, <1>7, <1>8, <1>9, <1>10, <1>11, <1>12, <1>13, <1>14, <1>15
  DEF Detector, Heartbeat, Administrator

-----------------------------------------------------------------------------
\* A restart loads the snapshot everywhere.
LEMMA RestartPreserves ==
    ASSUME IInv, Restart
    PROVE  IInv'
<1>1. /\ map' = store /\ store' = store /\ router' = store
      /\ fence' = [s \in Shards |-> store.asg[s].epoch]
      /\ det' = IdleDetector /\ hb' = IdleHeartbeat /\ adm' = IdleAdmin
  BY DEF Restart, Epochs
<1>2. IsMap(store) /\ Numbered(store)
  BY DEF IInv, Shape, IsMap
<1>3. IsMap(NoMap)
  BY InitialIsMap DEF NoMap
<1>4. Shape'
  BY <1>1, <1>2, <1>3 DEF Shape, Numbered, IdleDetector, IdleHeartbeat, IdleAdmin
<1>5. CopiesNeverAhead'
  BY <1>1, <1>2 DEF CopiesNeverAhead, NeverAhead, Numbered, Publishing,
                    IdleDetector, IdleHeartbeat, IdleAdmin
<1>6. SnapshotLags'
  BY <1>1, <1>2 DEF SnapshotLags, SameOwners, Numbered
<1> QED BY <1>4, <1>5, <1>6 DEF IInv

\* Initially every copy is the map.
LEMMA InitHolds == Init => IInv
<1> SUFFICES ASSUME Init PROVE IInv
  OBVIOUS
<1>1. /\ map = InitialMap /\ store = InitialMap /\ router = InitialMap
      /\ fence = [s \in Shards |-> InitialMap.asg[s].epoch]
      /\ det = IdleDetector /\ hb = IdleHeartbeat /\ adm = IdleAdmin
  BY DEF Init, Epochs
<1>2. IsMap(InitialMap) /\ Numbered(InitialMap) /\ IsMap(NoMap)
  BY InitialIsMap DEF IsMap, NoMap
<1>3. Shape
  BY <1>1, <1>2 DEF Shape, Numbered, IdleDetector, IdleHeartbeat, IdleAdmin
<1>4. CopiesNeverAhead
  BY <1>1, <1>2 DEF CopiesNeverAhead, NeverAhead, Numbered, Publishing,
                    IdleDetector, IdleHeartbeat, IdleAdmin
<1>5. SnapshotLags
  BY <1>1, <1>2 DEF SnapshotLags, SameOwners, Numbered
<1> QED BY <1>3, <1>4, <1>5 DEF IInv

\* The invariant is inductive.
LEMMA Inductive == IInv /\ [Next]_vars => IInv'
<1> SUFFICES ASSUME IInv, [Next]_vars PROVE IInv'
  OBVIOUS
<1>1. CASE Detector \/ Heartbeat \/ Administrator
  BY <1>1, StepPublishes, PublishesPreserves DEF IInv
<1>2. CASE Restart
  BY <1>2, RestartPreserves
<1>3. CASE UNCHANGED vars
  BY <1>3 DEF vars, IInv, Shape, IsMap, Numbered, CopiesNeverAhead, NeverAhead,
              SnapshotLags, SameOwners
<1> QED BY <1>1, <1>2, <1>3 DEF Next

\* For every ring, voters, shards and replication factor: the snapshot, the router's
\* map and the maps in the hands of the tasks never name another owner at the epoch
\* of the control plane's map, nor a later epoch.
THEOREM CopiesAreBehind == Spec => []CopiesNeverAhead
<1>1. IInv => CopiesNeverAhead
  BY DEF IInv
<1> QED BY InitHolds, Inductive, <1>1, PTL DEF Spec

\* For the same constants: failovers and rebalances move a shard only under a higher
\* epoch and version, and a restart goes back only past a save that failed.
THEOREM OwnershipMovesFenced == Spec => OwnershipFenced
<1> DEFINE A == \/ \A s \in Shards :
                     /\ map'.asg[s].epoch >= map.asg[s].epoch
                     /\ map'.asg[s].owner # map.asg[s].owner =>
                           map'.asg[s].epoch > map.asg[s].epoch /\ map'.version > map.version
                \/ map' = store /\ store.version < map.version
<1>1. ASSUME IInv, [Next]_vars PROVE [A]_vars
  <2>1. Numbered(map) /\ Numbered(store)
    BY <1>1 DEF IInv, Shape, IsMap
  <2>2. CASE Detector \/ Heartbeat \/ Administrator
    <3>1. Advances
      BY <1>1, <2>2, StepPublishes DEF IInv, Publishes
    <3>2. Numbered(map')
      BY <3>1 DEF Advances, IsMap
    <3> QED BY <2>1, <3>1, <3>2 DEF Advances, Numbered
  <2>3. CASE Restart
    <3>1. map' = store
      BY <2>3 DEF Restart
    <3>2. CASE store.version < map.version
      BY <3>1, <3>2
    <3>3. CASE store.version = map.version
      BY <1>1, <2>1, <3>1, <3>3 DEF IInv, SnapshotLags, SameOwners, Numbered
    <3>4. store.version <= map.version
      BY <1>1 DEF IInv, SnapshotLags
    <3> QED BY <2>1, <3>2, <3>3, <3>4 DEF Numbered
  <2>4. CASE UNCHANGED vars
    BY <2>4
  <2> QED BY <1>1, <2>2, <2>3, <2>4 DEF Next
<1> QED BY InitHolds, Inductive, <1>1, PTL DEF Spec, OwnershipFenced

-----------------------------------------------------------------------------
Covers(m) == \A s \in Shards : m.asg[s].epoch <= fence[s]

\* FenceCoversRouter made inductive: a task about to route has raised the fence to
\* its map, and while the detector is about to fence, its map makes up for the push
\* that went ahead of the fence.
FenceInv ==
    /\ FenceCoversRouter
    /\ det.pc = "routing" => Covers(det.snap)
    /\ hb.pc = "routing" => Covers(hb.snap)
    /\ adm.pc = "routing" => Covers(adm.snap)
    /\ det.pc = "fencing" =>
          \A s \in Shards : \/ router.asg[s].epoch <= fence[s]
                            \/ router.asg[s].epoch <= det.snap.asg[s].epoch
    /\ det.pc \in {"idle", "failing", "pushing", "fencing", "routing"}

\* Observing a map covers it, and uncovers nothing.
LEMMA ObserveCovers ==
    ASSUME NEW m, Shape, IsMap(m), fence' = Observe(m)
    PROVE  \A s \in Shards : /\ fence[s] \in Nat /\ fence'[s] \in Nat
                             /\ fence[s] <= fence'[s] /\ m.asg[s].epoch <= fence'[s]
<1>1. Numbered(m) /\ \A s \in Shards : fence[s] \in Nat
  BY DEF IsMap, Shape
<1> QED BY <1>1 DEF Observe, Numbered

\* A step that neither routes nor fences, nor brings a task to do so.
Quiet ==
    /\ UNCHANGED <<router, fence>>
    /\ det'.pc \in {"idle", "failing", "pushing", "fencing", "routing"}
    /\ det'.pc = "idle" => det.pc = "idle"
    /\ det'.pc \in {"fencing", "routing"} => det'.pc = det.pc /\ det'.snap = det.snap
    /\ hb'.pc = "routing" => hb.pc = "routing" /\ hb'.snap = hb.snap
    /\ adm'.pc = "routing" => adm.pc = "routing" /\ adm'.snap = adm.snap

\* Such a step leaves the fence where it was needed.
LEMMA QuietPreserves ==
    ASSUME FenceInv, Quiet
    PROVE  FenceInv'
BY DEF FenceInv, Quiet, FenceCoversRouter, Covers

\* A step in which the fence rises.
LEMMA FencingPreserves ==
    ASSUME NEW m, IInv, FenceInv, IsMap(m), fence' = Observe(m), router' = router,
           det'.pc \in {"idle", "failing", "pushing", "fencing", "routing"},
           \/ UNCHANGED det
           \/ det.pc = "fencing" /\ m = det.snap /\ det'.pc = "routing" /\ det'.snap = m,
           hb'.pc = "routing" => hb'.snap = m \/ UNCHANGED hb,
           adm'.pc = "routing" => adm'.snap = m \/ UNCHANGED adm
    PROVE  FenceInv'
<1>1. \A s \in Shards : /\ fence[s] \in Nat /\ fence'[s] \in Nat
                        /\ fence[s] <= fence'[s] /\ m.asg[s].epoch <= fence'[s]
  BY ObserveCovers DEF IInv
<1>2. /\ \A s \in Shards : router.asg[s].epoch \in Nat
      /\ \A s \in Shards : det.snap.asg[s].epoch \in Nat
      /\ \A s \in Shards : hb.snap.asg[s].epoch \in Nat
      /\ \A s \in Shards : adm.snap.asg[s].epoch \in Nat
  BY DEF IInv, Shape, IsMap, Numbered
<1>3. FenceCoversRouter'
  BY <1>1, <1>2 DEF FenceInv, FenceCoversRouter
<1>4. det'.pc = "routing" => Covers(det.snap)'
  BY <1>1, <1>2 DEF FenceInv, Covers
<1>5. hb'.pc = "routing" => Covers(hb.snap)'
  BY <1>1, <1>2 DEF FenceInv, Covers
<1>6. adm'.pc = "routing" => Covers(adm.snap)'
  BY <1>1, <1>2 DEF FenceInv, Covers
<1>7. det'.pc = "fencing" =>
          \A s \in Shards : \/ router'.asg[s].epoch <= fence'[s]
                            \/ router'.asg[s].epoch <= det'.snap.asg[s].epoch
  BY <1>1, <1>2 DEF FenceInv
<1> QED BY <1>3, <1>4, <1>5, <1>6, <1>7 DEF FenceInv

\* A step in which a task routes by a map that the fence covers.
LEMMA RoutingPreserves ==
    ASSUME NEW m, FenceInv, Covers(m), fence' = fence, router' = m,
           UNCHANGED det \/ det'.pc = "idle",
           hb'.pc = "routing" => UNCHANGED hb,
           adm'.pc = "routing" => UNCHANGED adm
    PROVE  FenceInv'
BY DEF FenceInv, FenceCoversRouter, Covers

\* The invariant on the fence is inductive.
LEMMA FenceInductive == IInv /\ FenceInv /\ [Next]_vars => FenceInv'
<1> SUFFICES ASSUME IInv, FenceInv, [Next]_vars PROVE FenceInv'
  OBVIOUS
<1>0. /\ IsMap(det.snap) /\ IsMap(hb.snap) /\ IsMap(adm.snap)
      /\ det = [pc |-> det.pc, snap |-> det.snap, todo |-> det.todo]
      /\ hb = [pc |-> hb.pc, snap |-> hb.snap, last |-> hb.last]
      /\ adm = [pc |-> adm.pc, snap |-> adm.snap, node |-> adm.node]
      /\ det.pc \in {"idle", "failing", "pushing", "fencing", "routing"}
  BY DEF IInv, Shape, FenceInv
<1>1. ASSUME NEW n \in Nodes, MarkNodeAlive(n) \/ MarkNodeFailed(n) PROVE FenceInv'
  <2> Quiet
    BY <1>0, <1>1, Zenon DEF MarkNodeAlive, MarkNodeFailed, Quiet
  <2> QED BY QuietPreserves
<1>2. ASSUME NEW s \in Shards, FailoverRefused(s) \/ FailoverShardAuto(s) PROVE FenceInv'
  <2> Quiet
    BY <1>0, <1>2 DEF FailoverRefused, FailoverShardAuto, Quiet
  <2> QED BY QuietPreserves
<1>3. CASE PushToRouter
  <2>1. det'.pc = "failing" /\ UNCHANGED <<fence, hb, adm>>
    BY <1>0, <1>3 DEF PushToRouter
  <2> QED BY <2>1 DEF FenceInv, FenceCoversRouter, Covers
<1>4. CASE TakeMap
  <2>1. det'.pc = "fencing" /\ det'.snap = map /\ UNCHANGED <<router, fence, hb, adm>>
    BY <1>0, <1>4 DEF TakeMap
  <2>2. \A s \in Shards : router.asg[s].epoch <= map.asg[s].epoch
    BY DEF IInv, CopiesNeverAhead, NeverAhead
  <2> QED BY <2>1, <2>2 DEF FenceInv, FenceCoversRouter, Covers
<1>5. CASE DetectorFences
  <2>1. /\ fence' = Observe(det.snap) /\ router' = router /\ det.pc = "fencing"
        /\ det'.pc = "routing" /\ det'.snap = det.snap /\ UNCHANGED <<hb, adm>>
    BY <1>0, <1>5 DEF DetectorFences
  <2> QED BY <1>0, <2>1, FencingPreserves
<1>6. CASE DetectorRoutes
  <2>1. /\ Covers(det.snap) /\ fence' = fence /\ router' = det.snap
        /\ det'.pc = "idle" /\ UNCHANGED <<hb, adm>>
    BY <1>6 DEF DetectorRoutes, IdleDetector, FenceInv
  <2> QED BY <2>1, RoutingPreserves
<1>7. ASSUME NEW n \in Nodes, Gossip(n) PROVE FenceInv'
  <2> Quiet
    BY <1>0, <1>7 DEF Gossip, Quiet
  <2> QED BY QuietPreserves
<1>8. CASE HeartbeatRebalance
  <2> Quiet
    BY <1>0, <1>8 DEF HeartbeatRebalance, Quiet
  <2> QED BY QuietPreserves
<1>9. CASE HeartbeatFences
  <2>1. fence' = Observe(hb.snap) /\ router' = router /\ hb'.snap = hb.snap /\ UNCHANGED <<det, adm>>
    BY <1>0, <1>9 DEF HeartbeatFences
  <2> QED BY <1>0, <2>1, FencingPreserves
<1>10. CASE HeartbeatRoutes
  <2>1. /\ Covers(hb.snap) /\ fence' = fence /\ router' = hb.snap
        /\ hb'.pc = "idle" /\ UNCHANGED <<det, adm>>
    BY <1>0, <1>10 DEF HeartbeatRoutes, FenceInv
  <2> QED BY <2>1, RoutingPreserves
<1>11. ASSUME NEW n \in Nodes, AddNode(n) \/ RemoveNode(n) PROVE FenceInv'
  <2> Quiet
    BY <1>0, <1>11, Zenon DEF AddNode, RemoveNode, IdleAdmin, Quiet
  <2> QED BY QuietPreserves
<1>12. CASE ControlPlaneRebalance \/ RegisterNode \/ AdminRebalance
  <2> Quiet
    BY <1>0, <1>12, Zenon DEF ControlPlaneRebalance, RegisterNode, AdminRebalance, Returned,
                       IdleAdmin, Quiet
  <2> QED BY QuietPreserves
<1>13. CASE AdminFences
  <2>1. fence' = Observe(adm.snap) /\ router' = router /\ adm'.snap = adm.snap /\ UNCHANGED <<det, hb>>
    BY <1>0, <1>13 DEF AdminFences
  <2> QED BY <1>0, <2>1, FencingPreserves
<1>14. CASE AdminRoutes
  <2>1. /\ Covers(adm.snap) /\ fence' = fence /\ router' = adm.snap
        /\ adm'.pc # "routing" /\ UNCHANGED <<det, hb>>
    BY <1>0, <1>14 DEF AdminRoutes, Returned, IdleAdmin, FenceInv
  <2> QED BY <2>1, RoutingPreserves
<1>15. CASE Restart
  <2>1. /\ router' = store /\ fence' = [s \in Shards |-> store.asg[s].epoch]
        /\ det'.pc = "idle" /\ hb'.pc = "idle" /\ adm'.pc = "idle"
    BY <1>15 DEF Restart, Epochs, IdleDetector, IdleHeartbeat, IdleAdmin
  <2>2. \A s \in Shards : store.asg[s].epoch \in Nat
    BY DEF IInv, Shape, IsMap, Numbered
  <2> QED BY <2>1, <2>2 DEF FenceInv, FenceCoversRouter
<1>16. CASE UNCHANGED vars
  <2> Quiet
    BY <1>0, <1>16 DEF vars, Quiet
  <2> QED BY QuietPreserves
<1> QED
  BY <1>1, <1>2, <1>3, <1>4, <1>5, <1>6, <1>7, <1>8, <1>9, <1>10, <1>11, <1>12, <1>13,
     <1>14, <1>15, <1>16
  DEF Next, Detector, Heartbeat, Administrator

\* For every ring, voters, shards and replication factor: outside a failover of this
\* node's detector, the fence is at least at the epochs the router routes by.
THEOREM FenceCovers == Spec => []FenceCoversRouter
<1>1. Init => FenceInv
  <2> SUFFICES ASSUME Init PROVE FenceInv
    OBVIOUS
  <2>1. /\ router = InitialMap /\ fence = [s \in Shards |-> InitialMap.asg[s].epoch]
        /\ det.pc = "idle" /\ hb.pc = "idle" /\ adm.pc = "idle"
    BY DEF Init, Epochs, IdleDetector, IdleHeartbeat, IdleAdmin
  <2>2. \A s \in Shards : InitialMap.asg[s].epoch \in Nat
    BY InitialIsMap DEF IsMap, Numbered
  <2> QED BY <2>1, <2>2 DEF FenceInv, FenceCoversRouter
<1>2. FenceInv => FenceCoversRouter
  BY DEF FenceInv
<1> QED BY InitHolds, Inductive, FenceInductive, <1>1, <1>2, PTL DEF Spec

-----------------------------------------------------------------------------
(* The copies of a shard are distinct.                                     *)

\* A set of naturals that is not empty has a least element.
LEMMA LeastNat ==
    ASSUME NEW S, S \subseteq Nat, S # {}
    PROVE  \E m \in S : \A y \in S : m <= y
<1>1. PICK m \in S : \A y \in S : ~(<<y, m>> \in OpToRel(<, Nat))
  BY NatLessThanWellFounded, WFMin, Zenon
<1>2. \A y \in S : ~(y < m)
  BY <1>1, Zenon DEF OpToRel
<1> QED
  BY <1>2

\* The positions of K up to i.
UpTo(K, i) == {j \in K : j <= i}

\* How many there are grows by one at each of them.
LEMMA CountFacts ==
    ASSUME NEW n \in Nat, NEW K, \A j \in K : j \in Nat /\ 1 <= j /\ j <= n
    PROVE  /\ IsFiniteSet(K) /\ Cardinality(K) \in Nat /\ Cardinality(K) <= n
           /\ Cardinality(UpTo(K, 0)) = 0 /\ UpTo(K, n) = K
           /\ \A i \in Nat :
                /\ Cardinality(UpTo(K, i)) \in Nat
                /\ Cardinality(UpTo(K, i + 1)) =
                      Cardinality(UpTo(K, i)) + (IF i + 1 \in K THEN 1 ELSE 0)
<1>1. IsFiniteSet(K) /\ Cardinality(K) \in Nat /\ Cardinality(K) <= n
  <2>1. IsFiniteSet(1..n) /\ Cardinality(1..n) = n
    BY FS_Interval
  <2>2. K \in SUBSET (1..n)
    OBVIOUS
  <2> QED
    BY <2>1, <2>2, FS_Subset, FS_CardinalityType, Zenon
<1>2. UpTo(K, 0) = {} /\ UpTo(K, n) = K
  BY DEF UpTo
<1>3. Cardinality(UpTo(K, 0)) = 0
  BY <1>2, FS_EmptySet, Zenon
<1>4. ASSUME NEW i \in Nat
      PROVE  /\ Cardinality(UpTo(K, i)) \in Nat
             /\ Cardinality(UpTo(K, i + 1)) =
                   Cardinality(UpTo(K, i)) + (IF i + 1 \in K THEN 1 ELSE 0)
  <2>1. IsFiniteSet(UpTo(K, i)) /\ Cardinality(UpTo(K, i)) \in Nat
    <3>1. UpTo(K, i) \in SUBSET K
      BY DEF UpTo
    <3> QED
      BY <1>1, <3>1, FS_Subset, FS_CardinalityType
  <2>2. CASE i + 1 \in K
    <3>1. UpTo(K, i + 1) = UpTo(K, i) \cup {i + 1} /\ i + 1 \notin UpTo(K, i)
      BY <2>2 DEF UpTo
    <3>2. Cardinality(UpTo(K, i) \cup {i + 1}) = Cardinality(UpTo(K, i)) + 1
      BY <2>1, <3>1, FS_AddElement
    <3> QED
      BY <2>1, <2>2, <3>1, <3>2
  <2>3. CASE i + 1 \notin K
    <3>1. UpTo(K, i + 1) = UpTo(K, i)
      BY <2>3 DEF UpTo
    <3> QED
      BY <2>1, <2>3, <3>1
  <2> QED
    BY <2>2, <2>3
<1> QED
  BY <1>1, <1>2, <1>3, <1>4

\* The k-th of a finite set of positions: there are k of them up to it.
LEMMA NthExists ==
    ASSUME NEW n \in Nat, NEW K, \A j \in K : j \in Nat /\ 1 <= j /\ j <= n,
           NEW k \in Nat, 1 <= k, k <= Cardinality(K)
    PROVE  \E i \in K : Cardinality(UpTo(K, i)) = k
<1>1. PICK c : c = [i \in Nat |-> Cardinality(UpTo(K, i))]
  BY Zenon
<1>2. /\ c[0] = 0 /\ c[n] = Cardinality(K)
      /\ \A i \in Nat : c[i] \in Nat /\ c[i + 1] = c[i] + (IF i + 1 \in K THEN 1 ELSE 0)
  BY <1>1, CountFacts
<1>3. PICK i \in Nat : c[i] >= k /\ \A y \in Nat : c[y] >= k => i <= y
  <2> DEFINE T == {y \in Nat : c[y] >= k}
  <2>1. T \subseteq Nat /\ T # {}
    BY <1>2
  <2>2. PICK i \in T : \A y \in T : i <= y
    BY <2>1, LeastNat, Zenon
  <2> QED
    BY <2>2
<1>4. i # 0
  BY <1>2, <1>3
<1>5. i - 1 \in Nat /\ ~(c[i - 1] >= k) /\ c[i] = c[i - 1] + (IF i \in K THEN 1 ELSE 0)
  <2>1. PICK j \in Nat : i = j + 1
    BY <1>4
  <2>2. ~(c[j] >= k) /\ c[i] = c[j] + (IF i \in K THEN 1 ELSE 0)
    BY <1>2, <1>3, <2>1
  <2> QED
    BY <2>1, <2>2
<1>6. i \in K /\ c[i] = k
  BY <1>2, <1>3, <1>5
<1> QED
  BY <1>1, <1>6

\* What Filter keeps: elements of the sequence that are in the set, distinct if the
\* sequence's are.
LEMMA FilterFacts ==
    ASSUME NEW s, Len(s) \in Nat, NEW S
    PROVE  /\ Len(Filter(s, S)) \in Nat
           /\ Len(Filter(s, S)) <= Len(s)
           /\ Filter(s, S) = [k \in 1..Len(Filter(s, S)) |-> Filter(s, S)[k]]
           /\ \A k \in 1..Len(Filter(s, S)) :
                 Filter(s, S)[k] \in S /\ \E i \in 1..Len(s) : Filter(s, S)[k] = s[i]
           /\ (\A i, j \in 1..Len(s) : s[i] = s[j] => i = j) =>
                 \A k, l \in 1..Len(Filter(s, S)) : Filter(s, S)[k] = Filter(s, S)[l] => k = l
<1> DEFINE K == {i \in 1..Len(s) : s[i] \in S}
           n == Cardinality(K)
           Nth(k) == CHOOSE i \in K : Cardinality({j \in K : j <= i}) = k
           pos == [k \in 1..n |-> Nth(k)]
<1>0. \A j \in K : j \in Nat /\ 1 <= j /\ j <= Len(s)
  OBVIOUS
<1>1. n \in Nat /\ n <= Len(s)
  <2> HIDE DEF K
  <2> QED
    BY <1>0, CountFacts
<1>2. Filter(s, S) = [k \in 1..n |-> s[Nth(k)]]
  BY DEF Filter
<1>3. \A k \in 1..n : Nth(k) \in K /\ Cardinality({j \in K : j <= Nth(k)}) = k
  <2> SUFFICES ASSUME NEW k \in 1..n
               PROVE  Nth(k) \in K /\ Cardinality({j \in K : j <= Nth(k)}) = k
    BY Zenon
  <2> HIDE DEF K
  <2>1. \E i \in K : Cardinality(UpTo(K, i)) = k
    BY <1>0, <1>1, NthExists
  <2> QED
    BY <2>1, Zenon DEF UpTo
<1>4. \A k \in 1..n : pos[k] = Nth(k)
  BY Zenon
<1>5. \A k \in 1..n : pos[k] \in 1..Len(s) /\ s[pos[k]] \in S /\ Filter(s, S)[k] = s[pos[k]]
  <2>1. \A i \in K : i \in 1..Len(s) /\ s[i] \in S
    OBVIOUS
  <2> HIDE DEF K, Nth, pos
  <2> QED
    BY <1>2, <1>3, <1>4, <2>1, Zenon
<1>6. \A k, l \in 1..n : pos[k] = pos[l] => k = l
  <2> HIDE DEF K, Nth, pos
  <2> QED
    BY <1>3, <1>4, Zenon
<1>7. Len(Filter(s, S)) = n
  <2> HIDE DEF K, Nth
  <2> QED
    BY <1>1, <1>2
<1> HIDE DEF K, Nth, pos, n
<1>8. \A k \in 1..n : Filter(s, S)[k] \in S /\ \E i \in 1..Len(s) : Filter(s, S)[k] = s[i]
  BY <1>5
<1>9. ASSUME \A i, j \in 1..Len(s) : s[i] = s[j] => i = j
      PROVE  \A k, l \in 1..n : Filter(s, S)[k] = Filter(s, S)[l] => k = l
  BY <1>5, <1>6, <1>9
<1>10. Filter(s, S) = [k \in 1..n |-> Filter(s, S)[k]]
  BY <1>2
<1> QED
  BY <1>1, <1>7, <1>8, <1>9, <1>10

\* Filter keeps something when the sequence has an element in the set.
LEMMA FilterNonEmpty ==
    ASSUME NEW s, Len(s) \in Nat, NEW S, NEW x \in 1..Len(s), s[x] \in S
    PROVE  Len(Filter(s, S)) >= 1
<1> DEFINE K == {i \in 1..Len(s) : s[i] \in S}
           n == Cardinality(K)
           Nth(k) == CHOOSE i \in K : Cardinality({j \in K : j <= i}) = k
<1>1. x \in K /\ \A j \in K : j \in Nat /\ 1 <= j /\ j <= Len(s)
  OBVIOUS
<1>2. n \in Nat /\ n # 0
  <2> HIDE DEF K
  <2>1. IsFiniteSet(K) /\ Cardinality(K) \in Nat
    BY <1>1, CountFacts, Zenon
  <2> QED
    BY <1>1, <2>1, FS_EmptySet
<1>3. Filter(s, S) = [k \in 1..n |-> s[Nth(k)]]
  BY DEF Filter
<1>4. Len(Filter(s, S)) = n
  <2> HIDE DEF K, Nth
  <2> QED
    BY <1>2, <1>3
<1> HIDE DEF K, n
<1> QED
  BY <1>2, <1>4

\* The sorted members: distinct nodes, at least one.
LEMMA SortedMembers ==
    ASSUME NEW nodes, nodes \subseteq Nodes, nodes # {}
    PROVE  /\ Len(Filter(Ring, nodes)) \in Nat /\ Len(Filter(Ring, nodes)) >= 1
           /\ \A k \in 1..Len(Filter(Ring, nodes)) : Filter(Ring, nodes)[k] \in Nodes
           /\ \A k, l \in 1..Len(Filter(Ring, nodes)) :
                 Filter(Ring, nodes)[k] = Filter(Ring, nodes)[l] => k = l
<1>1. Len(Ring) \in Nat /\ \A i, j \in 1..Len(Ring) : Ring[i] = Ring[j] => i = j
  BY RingAssumption
<1>2. \A n \in Nodes : \E i \in 1..Len(Ring) : Ring[i] = n
  BY RingAssumption DEF Nodes, Range
<1>3. \A i \in 1..Len(Ring) : Ring[i] \in Nodes
  BY RingAssumption DEF Nodes, Range
<1>4. Len(Filter(Ring, nodes)) >= 1
  BY <1>1, <1>2, FilterNonEmpty
<1>5. Len(Filter(Ring, nodes)) \in Nat
  BY <1>1, FilterFacts
<1>6. \A k \in 1..Len(Filter(Ring, nodes)) :
         \E i \in 1..Len(Ring) : Filter(Ring, nodes)[k] = Ring[i]
  BY <1>1, FilterFacts
<1>7. \A k, l \in 1..Len(Filter(Ring, nodes)) :
         Filter(Ring, nodes)[k] = Filter(Ring, nodes)[l] => k = l
  BY <1>1, FilterFacts
<1> QED
  BY <1>3, <1>4, <1>5, <1>6, <1>7

\* Positions counted around a ring of n from a.
LEMMA AroundTheRing ==
    ASSUME NEW n \in Nat, n >= 1, NEW a \in Nat, a < n, NEW i \in Nat, i < n
    PROVE  (a + i) % n = IF a + i < n THEN a + i ELSE a + i - n
<1>1. PICK x \in Nat : x = a + i /\ x < 2 * n
  OBVIOUS
<1>2. PICK q \in Nat, r \in Nat : q = x \div n /\ r = x % n /\ r < n
  OBVIOUS
<1>3. x = n * q + r
  BY <1>2
<1>4. q = 0 \/ q = 1
  <2>1. q >= 2 => n * q >= 2 * n
    OBVIOUS
  <2> QED
    BY <1>1, <1>2, <1>3, <2>1
<1>5. CASE q = 0
  BY <1>1, <1>2, <1>3, <1>5
<1>6. CASE q = 1
  BY <1>1, <1>2, <1>3, <1>6
<1> QED
  BY <1>4, <1>5, <1>6

\* An assignment under a map of version v: nodes that are all distinct, no more than
\* the replication factor, and an epoch the version has reached.
GoodAsg(a, v) ==
    /\ a = [owner |-> a.owner, epoch |-> a.epoch, replicas |-> a.replicas]
    /\ a.owner \in Nodes
    /\ a.epoch \in Nat /\ 1 <= a.epoch /\ a.epoch <= v
    /\ Len(a.replicas) \in Nat /\ Len(a.replicas) < RF
    /\ a.replicas = [i \in 1..Len(a.replicas) |-> a.replicas[i]]
    /\ \A i \in 1..Len(a.replicas) : a.replicas[i] \in Nodes /\ a.replicas[i] # a.owner
    /\ \A i, j \in 1..Len(a.replicas) : a.replicas[i] = a.replicas[j] => i = j

GoodMap(m) ==
    /\ m = [version |-> m.version, asg |-> m.asg]
    /\ m.version \in Nat /\ 1 <= m.version /\ m.version <= MaxVersion
    /\ m.asg = [s \in Shards |-> m.asg[s]]
    /\ \A s \in Shards : GoodAsg(m.asg[s], m.version)

\* Round robin gives a shard distinct nodes, whatever the members.
LEMMA DistributedGood ==
    ASSUME NEW nodes, nodes \subseteq Nodes, nodes # {},
           NEW rf \in Nat, 1 <= rf, rf <= RF, NEW s \in Shards
    PROVE  GoodAsg(Distributed(nodes, rf)[s], 1)
<1>0. PICK q : q = Filter(Ring, nodes)
  OBVIOUS
<1>1. PICK n \in Nat : n = Len(q)
  BY <1>0, SortedMembers
<1>2. /\ n >= 1
      /\ \A k \in 1..n : q[k] \in Nodes
      /\ \A k, l \in 1..n : q[k] = q[l] => k = l
  BY <1>0, <1>1, SortedMembers
<1>3. PICK c \in Nat : c = (IF rf > n THEN n ELSE rf) /\ 1 <= c /\ c <= n /\ c <= rf
  BY <1>2
<1>4. PICK a \in Nat : a = s % n /\ a < n
  BY <1>2, NumbersAssumption DEF Shards
<1>5. PICK d : d = Distributed(nodes, rf)[s]
  OBVIOUS
<1>6. d = [owner |-> q[a + 1], epoch |-> 1,
           replicas |-> [i \in 1..(c - 1) |-> q[((a + i) % n) + 1]]]
  BY <1>0, <1>1, <1>3, <1>4, <1>5, Zenon DEF Distributed
<1>7. \A i \in 1..(c - 1) : (a + i) % n = IF a + i < n THEN a + i ELSE a + i - n
  <2> SUFFICES ASSUME NEW i \in 1..(c - 1)
               PROVE  (a + i) % n = IF a + i < n THEN a + i ELSE a + i - n
    OBVIOUS
  <2>1. i \in Nat /\ i < n
    BY <1>3
  <2> QED
    BY <1>2, <1>4, <2>1, AroundTheRing, Zenon
<1>8. \A i \in 1..(c - 1) : /\ ((a + i) % n) + 1 \in 1..n
                            /\ ((a + i) % n) + 1 # a + 1
                            /\ \A j \in 1..(c - 1) :
                                  ((a + i) % n) + 1 = ((a + j) % n) + 1 => i = j
  <2> DEFINE w == [i \in 1..(c - 1) |-> (a + i) % n]
  <2>1. \A i \in 1..(c - 1) : w[i] = IF a + i < n THEN a + i ELSE a + i - n
    BY <1>7
  <2>2. \A i \in 1..(c - 1) : w[i] = (a + i) % n
    OBVIOUS
  <2> HIDE DEF w
  <2>3. \A i \in 1..(c - 1) : w[i] + 1 \in 1..n /\ w[i] + 1 # a + 1
    BY <1>2, <1>3, <1>4, <2>1
  <2>4. \A i, j \in 1..(c - 1) : w[i] + 1 = w[j] + 1 => i = j
    BY <1>2, <1>3, <1>4, <2>1
  <2> QED
    BY <2>2, <2>3, <2>4, Zenon
<1>9. /\ d.owner = q[a + 1] /\ d.epoch = 1
      /\ d.replicas = [i \in 1..(c - 1) |-> q[((a + i) % n) + 1]]
      /\ d = [owner |-> d.owner, epoch |-> d.epoch, replicas |-> d.replicas]
  BY <1>6
<1>10. Len(d.replicas) = c - 1 /\ c - 1 \in Nat /\ c - 1 < RF
  BY <1>3, <1>9, NumbersAssumption
<1>11. a + 1 \in 1..n
  BY <1>4
<1>12. d.owner \in Nodes
  BY <1>2, <1>9, <1>11
<1>13. \A i \in 1..(c - 1) : d.replicas[i] \in Nodes /\ d.replicas[i] # d.owner
  BY <1>2, <1>8, <1>9, <1>11
<1>14. \A i, j \in 1..(c - 1) : d.replicas[i] = d.replicas[j] => i = j
  BY <1>2, <1>8, <1>9
<1>15. d.replicas = [i \in 1..(c - 1) |-> d.replicas[i]]
  BY <1>9
<1>16. GoodAsg(d, 1)
  BY <1>9, <1>10, <1>12, <1>13, <1>14, <1>15 DEF GoodAsg
<1> QED
  BY <1>5, <1>16

\* A higher version keeps an assignment good.
LEMMA GoodUnderLater ==
    ASSUME NEW a, NEW v \in Nat, NEW w \in Nat, v <= w, GoodAsg(a, v)
    PROVE  GoodAsg(a, w)
  BY DEF GoodAsg

\* The map derived from the configuration is good.
LEMMA InitialGood == GoodMap(InitialMap)
<1>1. Voters \subseteq Nodes /\ Voters # {}
  BY VotersAssumption DEF Nodes
<1>2. RF \in Nat /\ 1 <= RF /\ 1 <= MaxVersion /\ MaxVersion \in Nat
  BY NumbersAssumption
<1>3. \A s \in Shards : GoodAsg(Distributed(Voters, RF)[s], 1)
  BY <1>1, <1>2, DistributedGood
<1>4. Distributed(Voters, RF) = [s \in Shards |-> Distributed(Voters, RF)[s]]
  BY DEF Distributed
<1>5. /\ InitialMap.version = 1 /\ InitialMap.asg = Distributed(Voters, RF)
      /\ InitialMap = [version |-> InitialMap.version, asg |-> InitialMap.asg]
  BY DEF InitialMap
<1> HIDE DEF InitialMap
<1> QED
  BY <1>2, <1>3, <1>4, <1>5 DEF GoodMap

\* A rebalance over members leaves a good map.
LEMMA RebalanceGood ==
    ASSUME NEW nodes, nodes \subseteq Nodes, NEW rf \in Nat, 1 <= rf, rf <= RF,
           GoodMap(map), RebalanceForMembers(nodes, rf)
    PROVE  GoodMap(map') /\ (store' = store \/ store' = map')
<1>1. /\ nodes # {} /\ map' = Rebalanced(nodes, rf)
      /\ Rebalanced(nodes, rf).version <= MaxVersion
      /\ store' = store \/ store' = map'
  BY DEF RebalanceForMembers, Persist
<1>2. PICK d : d = Distributed(nodes, rf)
  OBVIOUS
<1>3. \A s \in Shards : GoodAsg(d[s], 1)
  BY <1>1, <1>2, DistributedGood
<1>4. PICK M : M = Moved(nodes, rf)
  OBVIOUS
<1>5. PICK r : r = Rebalanced(nodes, rf)
  OBVIOUS
<1>6. r = [version |-> IF M = {} THEN map.version ELSE map.version + 1,
           asg |-> [s \in Shards |->
                      [owner |-> d[s].owner,
                       epoch |-> IF s \in M THEN map.asg[s].epoch + 1 ELSE map.asg[s].epoch,
                       replicas |-> d[s].replicas]]]
  BY <1>2, <1>4, <1>5 DEF Rebalanced
<1>7. /\ r = [version |-> r.version, asg |-> r.asg]
      /\ r.version = (IF M = {} THEN map.version ELSE map.version + 1)
      /\ r.asg = [s \in Shards |-> r.asg[s]]
  BY <1>6
<1>8. map.version \in Nat /\ 1 <= map.version
  BY DEF GoodMap
<1>9. r.version \in Nat /\ 1 <= r.version /\ r.version <= MaxVersion
  BY <1>1, <1>5, <1>7, <1>8
<1>10. ASSUME NEW s \in Shards
       PROVE  GoodAsg(r.asg[s], r.version)
  <2>1. PICK a : a = r.asg[s]
    OBVIOUS
  <2>2. /\ a.owner = d[s].owner /\ a.replicas = d[s].replicas
        /\ a.epoch = (IF s \in M THEN map.asg[s].epoch + 1 ELSE map.asg[s].epoch)
        /\ a = [owner |-> a.owner, epoch |-> a.epoch, replicas |-> a.replicas]
    BY <1>6, <2>1
  <2>3. /\ map.asg[s].epoch \in Nat /\ 1 <= map.asg[s].epoch
        /\ map.asg[s].epoch <= map.version
    BY Zenon DEF GoodMap, GoodAsg
  <2>4. s \in M => M # {}
    OBVIOUS
  <2>5. a.epoch \in Nat /\ 1 <= a.epoch /\ a.epoch <= r.version
    BY <1>7, <1>8, <2>2, <2>3, <2>4
  <2>6. GoodAsg(d[s], 1)
    BY <1>3
  <2>7. GoodAsg(a, r.version)
    BY <2>2, <2>5, <2>6 DEF GoodAsg
  <2> QED
    BY <2>1, <2>7
<1>11. GoodMap(r)
  BY <1>7, <1>9, <1>10 DEF GoodMap
<1> QED
  BY <1>1, <1>5, <1>11

\* A promotion takes the new owner out of the replicas.
LEMMA PromotedGood ==
    ASSUME NEW a, NEW v \in Nat, GoodAsg(a, v), NEW n \in Nodes
    PROVE  GoodAsg(Promoted(a, n), v + 1)
<1>1. PICK q : q = Filter(a.replicas, Nodes \ {n})
  OBVIOUS
<1>2. PICK b : b = Promoted(a, n)
  OBVIOUS
<1>3. /\ b.owner = n /\ b.epoch = a.epoch + 1 /\ b.replicas = q
      /\ b = [owner |-> b.owner, epoch |-> b.epoch, replicas |-> b.replicas]
  BY <1>1, <1>2 DEF Promoted
<1>4. /\ Len(a.replicas) \in Nat /\ Len(a.replicas) < RF
      /\ \A i, j \in 1..Len(a.replicas) : a.replicas[i] = a.replicas[j] => i = j
      /\ a.epoch \in Nat /\ 1 <= a.epoch /\ a.epoch <= v
  BY DEF GoodAsg
<1>5. /\ Len(q) \in Nat /\ Len(q) <= Len(a.replicas)
      /\ q = [i \in 1..Len(q) |-> q[i]]
      /\ \A i \in 1..Len(q) : q[i] \in Nodes \ {n}
      /\ \A i, j \in 1..Len(q) : q[i] = q[j] => i = j
  <2>1. PICK p : p = a.replicas
    OBVIOUS
  <2>2. Len(p) \in Nat /\ \A i, j \in 1..Len(p) : p[i] = p[j] => i = j
    BY <1>4, <2>1
  <2>3. /\ Len(Filter(p, Nodes \ {n})) \in Nat /\ Len(Filter(p, Nodes \ {n})) <= Len(p)
        /\ Filter(p, Nodes \ {n}) =
              [i \in 1..Len(Filter(p, Nodes \ {n})) |-> Filter(p, Nodes \ {n})[i]]
    BY <2>2, FilterFacts, Zenon
  <2>4. \A i \in 1..Len(Filter(p, Nodes \ {n})) : Filter(p, Nodes \ {n})[i] \in Nodes \ {n}
    BY <2>2, FilterFacts
  <2>5. \A i, j \in 1..Len(Filter(p, Nodes \ {n})) :
           Filter(p, Nodes \ {n})[i] = Filter(p, Nodes \ {n})[j] => i = j
    BY <2>2, FilterFacts
  <2> QED
    BY <1>1, <2>1, <2>3, <2>4, <2>5, Zenon
<1>6. Len(q) < RF
  BY <1>4, <1>5, NumbersAssumption
<1>7. b.epoch \in Nat /\ 1 <= b.epoch /\ b.epoch <= v + 1
  BY <1>3, <1>4
<1>8. GoodAsg(b, v + 1)
  BY <1>3, <1>5, <1>6, <1>7 DEF GoodAsg
<1> QED
  BY <1>2, <1>8

\* A failover leaves a good map.
LEMMA FailoverGood ==
    ASSUME NEW s \in Shards, GoodMap(map), alive \subseteq Nodes, FailoverShardAuto(s)
    PROVE  GoodMap(map') /\ (store' = store \/ store' = map')
<1>1. /\ map.version < MaxVersion
      /\ store' = store \/ store' = map'
  BY DEF FailoverShardAuto, Persist
<1>2. /\ map.version \in Nat /\ 1 <= map.version /\ MaxVersion \in Nat
      /\ map.asg = [t \in Shards |-> map.asg[t]]
      /\ \A t \in Shards : GoodAsg(map.asg[t], map.version)
  BY NumbersAssumption DEF GoodMap
<1>3. \A t \in Shards : GoodAsg(map.asg[t], map.version + 1)
  BY <1>2, GoodUnderLater
<1>4. PICK live : live = Filter(map.asg[s].replicas, alive)
  OBVIOUS
<1>5. map' = [version |-> map.version + 1,
              asg |-> IF live = <<>> THEN map.asg
                      ELSE [map.asg EXCEPT ![s] = Promoted(map.asg[s], live[1])]]
  BY <1>4 DEF FailoverShardAuto
<1>6. CASE live = <<>>
  <2>1. /\ map' = [version |-> map'.version, asg |-> map'.asg]
        /\ map'.version = map.version + 1 /\ map'.asg = map.asg
    BY <1>5, <1>6
  <2> QED
    BY <1>1, <1>2, <1>3, <2>1 DEF GoodMap
<1>7. CASE live # <<>>
  <2>1. Len(map.asg[s].replicas) \in Nat
    BY <1>2 DEF GoodAsg
  <2>2. /\ Len(live) \in Nat /\ live = [i \in 1..Len(live) |-> live[i]]
        /\ \A i \in 1..Len(live) : live[i] \in alive
    BY <1>4, <2>1, FilterFacts
  <2>3. Len(live) # 0
    BY <1>7, <2>2
  <2>4. live[1] \in Nodes
    BY <2>2, <2>3
  <2>5. PICK b : b = Promoted(map.asg[s], live[1])
    OBVIOUS
  <2>6. GoodAsg(b, map.version + 1)
    BY <1>2, <2>4, <2>5, PromotedGood
  <2>7. /\ map' = [version |-> map'.version, asg |-> map'.asg]
        /\ map'.version = map.version + 1 /\ map'.asg = [map.asg EXCEPT ![s] = b]
    BY <1>5, <1>7, <2>5
  <2>8. /\ map'.asg = [t \in Shards |-> map'.asg[t]]
        /\ \A t \in Shards : map'.asg[t] = IF t = s THEN b ELSE map.asg[t]
    BY <1>2, <2>7
  <2>9. \A t \in Shards : GoodAsg(map'.asg[t], map.version + 1)
    BY <1>3, <2>6, <2>8
  <2> QED
    BY <1>1, <1>2, <2>7, <2>8, <2>9 DEF GoodMap
<1> QED
  BY <1>1, <1>6, <1>7

-----------------------------------------------------------------------------
\* Every map in the control plane's hands is good.
MapsGood ==
    /\ GoodMap(map) /\ GoodMap(store) /\ GoodMap(router)
    /\ GoodMap(det.snap) /\ GoodMap(hb.snap) /\ GoodMap(adm.snap)

FenceInRange == \A s \in Shards : 1 <= fence[s] /\ fence[s] <= MaxVersion

\* The rest of TypeOK.
TasksTyped ==
    /\ alive \subseteq Nodes
    /\ members \subseteq Nodes
    /\ Voters \subseteq known /\ known \subseteq Nodes
    /\ det.pc \in {"idle", "failing", "pushing", "fencing", "routing"}
    /\ det.todo \subseteq Shards
    /\ det.todo # {} => det.pc \in {"failing", "pushing"}
    /\ hb.pc \in {"idle", "fencing", "routing"}
    /\ hb.last \subseteq known
    /\ adm.pc \in {"idle", "added", "removed", "registering", "rebalancing",
                   "fencing", "routing", "returned"}
    /\ adm.node \in Nodes

\* The inductive invariant.
DistinctInv == MapsGood /\ FenceInRange /\ TasksTyped

\* The nodes a good map names.
LEMMA MembersAreNodes ==
    ASSUME NEW m, GoodMap(m)
    PROVE  MembersOf(m) \subseteq Nodes
<1>1. ASSUME NEW s \in Shards
      PROVE  {m.asg[s].owner} \cup Range(m.asg[s].replicas) \subseteq Nodes
  <2>1. GoodAsg(m.asg[s], m.version)
    BY DEF GoodMap
  <2>2. PICK a : a = m.asg[s]
    OBVIOUS
  <2>3. DOMAIN a.replicas = 1..Len(a.replicas)
    BY <2>1, <2>2 DEF GoodAsg
  <2> QED
    BY <2>1, <2>2, <2>3 DEF GoodAsg, Range
<1> QED
  BY <1>1 DEF MembersOf

\* The epochs of a good map are in the fence's range.
LEMMA EpochsInRange ==
    ASSUME NEW m, GoodMap(m)
    PROVE  \A s \in Shards : /\ m.asg[s].epoch \in Nat
                             /\ 1 <= m.asg[s].epoch /\ m.asg[s].epoch <= MaxVersion
<1> SUFFICES ASSUME NEW s \in Shards
             PROVE  /\ m.asg[s].epoch \in Nat
                    /\ 1 <= m.asg[s].epoch /\ m.asg[s].epoch <= MaxVersion
  OBVIOUS
<1>1. /\ m.version \in Nat /\ m.version <= MaxVersion
      /\ m.asg[s].epoch \in Nat /\ 1 <= m.asg[s].epoch /\ m.asg[s].epoch <= m.version
  BY Zenon DEF GoodMap, GoodAsg
<1> QED
  BY <1>1, NumbersAssumption

\* Fencing at a good map keeps the fence in range.
LEMMA ObserveInRange ==
    ASSUME NEW m, GoodMap(m), FenceInRange, fence' = Observe(m)
    PROVE  FenceInRange'
  BY EpochsInRange DEF FenceInRange, Observe

\* A step that takes its maps from those at hand, or leaves a good one.
LEMMA MapsStayGood ==
    ASSUME MapsGood, GoodMap(map'),
           store' = store \/ store' = map',
           router' \in {router, store, det.snap, hb.snap, adm.snap},
           det'.snap \in {det.snap, map', NoMap},
           hb'.snap \in {hb.snap, map', NoMap},
           adm'.snap \in {adm.snap, map', NoMap}
    PROVE  MapsGood'
<1>1. GoodMap(NoMap)
  BY InitialGood DEF NoMap
<1>2. GoodMap(store') /\ GoodMap(router')
  BY DEF MapsGood
<1>3. GoodMap(det'.snap) /\ GoodMap(hb'.snap) /\ GoodMap(adm'.snap)
  BY <1>1 DEF MapsGood
<1> QED
  BY <1>2, <1>3 DEF MapsGood

\* The detector's steps.
LEMMA DetectorKeeps ==
    ASSUME Shape, DistinctInv, Detector
    PROVE  DistinctInv'
<1> USE DEF DistinctInv
<1>0. GoodMap(map) /\ GoodMap(det.snap)
  BY DEF MapsGood
<1>1. ASSUME NEW n \in Nodes, MarkNodeAlive(n) PROVE DistinctInv'
  BY <1>1 DEF MarkNodeAlive, MapsGood, FenceInRange, TasksTyped
<1>2. ASSUME NEW n \in Nodes, MarkNodeFailed(n) PROVE DistinctInv'
  <2>1. TasksTyped'
    BY <1>2 DEF MarkNodeFailed, TasksTyped, Shape
  <2> QED
    BY <1>2, <2>1 DEF MarkNodeFailed, MapsGood, FenceInRange, Shape
<1>3. ASSUME NEW s \in Shards, FailoverRefused(s) PROVE DistinctInv'
  BY <1>3 DEF FailoverRefused, MapsGood, FenceInRange, TasksTyped, Shape
<1>4. ASSUME NEW s \in Shards, FailoverShardAuto(s) PROVE DistinctInv'
  <2>1. GoodMap(map') /\ (store' = store \/ store' = map')
    BY <1>0, <1>4, FailoverGood DEF TasksTyped
  <2>2. /\ UNCHANGED <<router, fence, alive, members, known, hb, adm>>
        /\ det'.snap = map' /\ det'.pc = "pushing" /\ det'.todo \subseteq det.todo
    BY <1>4 DEF FailoverShardAuto
  <2>3. MapsGood'
    BY <2>1, <2>2, MapsStayGood
  <2> QED
    BY <2>2, <2>3 DEF FenceInRange, TasksTyped
<1>5. ASSUME PushToRouter PROVE DistinctInv'
  <2>1. MapsGood'
    BY <1>0, <1>5, MapsStayGood DEF PushToRouter, Shape
  <2> QED
    BY <1>5, <2>1 DEF PushToRouter, FenceInRange, TasksTyped, Shape
<1>6. ASSUME TakeMap PROVE DistinctInv'
  <2>1. MapsGood'
    BY <1>0, <1>6, MapsStayGood DEF TakeMap, Shape
  <2> QED
    BY <1>6, <2>1 DEF TakeMap, FenceInRange, TasksTyped, Shape
<1>7. ASSUME DetectorFences PROVE DistinctInv'
  <2>1. FenceInRange'
    BY <1>0, <1>7, ObserveInRange DEF DetectorFences
  <2> QED
    BY <1>7, <2>1 DEF DetectorFences, MapsGood, TasksTyped, Shape
<1>8. ASSUME DetectorRoutes PROVE DistinctInv'
  <2>1. MapsGood'
    BY <1>0, <1>8, MapsStayGood DEF DetectorRoutes, IdleDetector
  <2> QED
    BY <1>8, <2>1 DEF DetectorRoutes, IdleDetector, FenceInRange, TasksTyped
<1> QED
  BY <1>1, <1>2, <1>3, <1>4, <1>5, <1>6, <1>7, <1>8 DEF Detector

\* The heartbeat sender's steps.
LEMMA HeartbeatKeeps ==
    ASSUME Shape, DistinctInv, Heartbeat
    PROVE  DistinctInv'
<1> USE DEF DistinctInv
<1>0. GoodMap(map) /\ GoodMap(hb.snap) /\ known \subseteq Nodes
  BY DEF MapsGood, TasksTyped
<1>1. ASSUME NEW n \in Nodes, Gossip(n) PROVE DistinctInv'
  BY <1>1 DEF Gossip, MapsGood, FenceInRange, TasksTyped
<1>2. ASSUME HeartbeatRebalance PROVE DistinctInv'
  <2>1. RF \in Nat /\ 1 <= RF /\ RF <= RF
    BY NumbersAssumption
  <2>2. GoodMap(map') /\ (store' = store \/ store' = map')
    BY <1>0, <1>2, <2>1, RebalanceGood DEF HeartbeatRebalance
  <2>3. /\ UNCHANGED <<router, fence, alive, members, known, det, adm>>
        /\ hb'.snap \in {hb.snap, map'} /\ hb'.last = known
        /\ hb'.pc \in {hb.pc, "fencing"}
    BY <1>2 DEF HeartbeatRebalance, Shape
  <2>4. MapsGood'
    BY <2>2, <2>3, MapsStayGood
  <2> QED
    BY <2>3, <2>4 DEF FenceInRange, TasksTyped
<1>3. ASSUME HeartbeatFences PROVE DistinctInv'
  <2>1. FenceInRange'
    BY <1>0, <1>3, ObserveInRange DEF HeartbeatFences
  <2> QED
    BY <1>3, <2>1 DEF HeartbeatFences, MapsGood, TasksTyped, Shape
<1>4. ASSUME HeartbeatRoutes PROVE DistinctInv'
  <2>1. MapsGood'
    BY <1>0, <1>4, MapsStayGood DEF HeartbeatRoutes, Shape
  <2> QED
    BY <1>4, <2>1 DEF HeartbeatRoutes, FenceInRange, TasksTyped, Shape
<1> QED
  BY <1>1, <1>2, <1>3, <1>4 DEF Heartbeat

\* The administrator's steps.
LEMMA AdministratorKeeps ==
    ASSUME Shape, DistinctInv, Administrator
    PROVE  DistinctInv'
<1> USE DEF DistinctInv
<1>0. GoodMap(map) /\ GoodMap(adm.snap) /\ members \subseteq Nodes /\ Self \in Nodes
  BY VotersAssumption DEF MapsGood, TasksTyped, Nodes
<1>n. RF \in Nat /\ 1 <= RF /\ RF <= RF /\ 1 \in Nat /\ 1 <= 1
  BY NumbersAssumption
<1>i. IdleAdmin.snap = NoMap /\ IdleAdmin.node = Self
  BY DEF IdleAdmin
<1>r. Returned.snap = NoMap /\ Returned.node = Self /\ Returned.pc \in {"idle", "returned"}
  BY DEF Returned, IdleAdmin
<1>1. ASSUME NEW n \in Nodes, AddNode(n) PROVE DistinctInv'
  BY <1>1 DEF AddNode, MapsGood, FenceInRange, TasksTyped, Shape
<1>2. ASSUME NEW n \in Nodes, RemoveNode(n) PROVE DistinctInv'
  <2>1. /\ UNCHANGED <<map, store, router, fence, alive, known, det, hb>>
        /\ members' \subseteq members
        /\ adm'.snap = NoMap /\ adm'.node = Self /\ adm'.pc \in {"idle", "removed"}
    BY <1>2 DEF RemoveNode, IdleAdmin
  <2>2. MapsGood'
    BY <1>0, <2>1, MapsStayGood
  <2> QED
    BY <1>0, <2>1, <2>2 DEF FenceInRange, TasksTyped
<1>3. ASSUME ControlPlaneRebalance PROVE DistinctInv'
  <2>1. GoodMap(map') /\ (store' = store \/ store' = map')
    BY <1>0, <1>3, <1>n, RebalanceGood DEF ControlPlaneRebalance, ControlPlaneRF
  <2>2. /\ UNCHANGED <<router, fence, alive, members, known, det, hb>>
        /\ adm'.snap = adm.snap /\ adm'.node = adm.node
        /\ adm'.pc \in {"registering", "rebalancing"}
    BY <1>3 DEF ControlPlaneRebalance, Shape
  <2>3. MapsGood'
    BY <2>1, <2>2, MapsStayGood
  <2> QED
    BY <2>2, <2>3 DEF FenceInRange, TasksTyped
<1>4. ASSUME RegisterNode PROVE DistinctInv'
  BY <1>4 DEF RegisterNode, MapsGood, FenceInRange, TasksTyped, Shape
<1>5. ASSUME AdminRebalance PROVE DistinctInv'
  <2>1. GoodMap(map') /\ (store' = store \/ store' = map')
    BY <1>0, <1>5, <1>n, RebalanceGood DEF AdminRebalance
  <2>2. /\ UNCHANGED <<router, fence, alive, members, known, det, hb>>
        /\ adm'.snap \in {map', NoMap} /\ adm'.node \in {adm.node, Self}
        /\ adm'.pc \in {"idle", "returned", "fencing"}
    BY <1>5, <1>r DEF AdminRebalance, Shape
  <2>3. MapsGood'
    BY <2>1, <2>2, MapsStayGood
  <2> QED
    BY <1>0, <2>2, <2>3 DEF FenceInRange, TasksTyped
<1>6. ASSUME AdminFences PROVE DistinctInv'
  <2>1. FenceInRange'
    BY <1>0, <1>6, ObserveInRange DEF AdminFences
  <2> QED
    BY <1>6, <2>1 DEF AdminFences, MapsGood, TasksTyped, Shape
<1>7. ASSUME AdminRoutes PROVE DistinctInv'
  <2>1. MapsGood'
    BY <1>0, <1>7, <1>r, MapsStayGood DEF AdminRoutes
  <2> QED
    BY <1>0, <1>7, <1>r, <2>1 DEF AdminRoutes, FenceInRange, TasksTyped
<1> QED
  BY <1>1, <1>2, <1>3, <1>4, <1>5, <1>6, <1>7 DEF Administrator

\* A start, with whatever good map it begins from.
LEMMA StartKeeps ==
    ASSUME NEW m, GoodMap(m),
           map' = m, router' = m, store' = m, fence' = Epochs(m), alive' = {},
           members' = MembersOf(m), known' = Voters,
           det' = IdleDetector, hb' = IdleHeartbeat, adm' = IdleAdmin
    PROVE  DistinctInv'
<1>1. GoodMap(NoMap)
  BY InitialGood DEF NoMap
<1>2. MapsGood'
  BY <1>1 DEF MapsGood, IdleDetector, IdleHeartbeat, IdleAdmin
<1>3. FenceInRange'
  BY EpochsInRange DEF FenceInRange, Epochs
<1>4. MembersOf(m) \subseteq Nodes /\ Voters \subseteq Nodes /\ Self \in Nodes
  BY MembersAreNodes, VotersAssumption DEF Nodes
<1>5. TasksTyped'
  BY <1>4 DEF TasksTyped, IdleDetector, IdleHeartbeat, IdleAdmin
<1> QED
  BY <1>2, <1>3, <1>5 DEF DistinctInv

LEMMA InitDistinct == Init => DistinctInv
<1> SUFFICES ASSUME Init PROVE DistinctInv
  OBVIOUS
<1>1. GoodMap(InitialMap) /\ GoodMap(NoMap)
  BY InitialGood DEF NoMap
<1>2. MapsGood
  BY <1>1 DEF Init, MapsGood, IdleDetector, IdleHeartbeat, IdleAdmin
<1>3. FenceInRange
  BY <1>1, EpochsInRange DEF Init, FenceInRange, Epochs
<1>4. MembersOf(InitialMap) \subseteq Nodes /\ Voters \subseteq Nodes /\ Self \in Nodes
  BY <1>1, MembersAreNodes, VotersAssumption DEF Nodes
<1>5. TasksTyped
  BY <1>4 DEF Init, TasksTyped, IdleDetector, IdleHeartbeat, IdleAdmin
<1> QED
  BY <1>2, <1>3, <1>5 DEF DistinctInv

LEMMA DistinctInductive == Shape /\ DistinctInv /\ [Next]_vars => DistinctInv'
<1> SUFFICES ASSUME Shape, DistinctInv, [Next]_vars PROVE DistinctInv'
  OBVIOUS
<1>1. CASE Detector
  BY <1>1, DetectorKeeps
<1>2. CASE Heartbeat
  BY <1>2, HeartbeatKeeps
<1>3. CASE Administrator
  BY <1>3, AdministratorKeeps
<1>4. CASE Restart
  <2>1. GoodMap(store)
    BY DEF DistinctInv, MapsGood
  <2> QED
    BY <1>4, <2>1, StartKeeps DEF Restart
<1>5. CASE UNCHANGED vars
  BY <1>5 DEF vars, DistinctInv, MapsGood, FenceInRange, TasksTyped
<1> QED
  BY <1>1, <1>2, <1>3, <1>4, <1>5 DEF Next

\* A good map is well formed.
LEMMA GoodIsMap ==
    ASSUME NEW m, GoodMap(m)
    PROVE  m \in Maps
<1>1. ASSUME NEW s \in Shards
      PROVE  m.asg[s] \in [owner : Nodes, epoch : 1..MaxVersion,
                           replicas : UNION {[1..k -> Nodes] : k \in 0..(RF - 1)}]
  <2>1. PICK a : a = m.asg[s]
    OBVIOUS
  <2>2. GoodAsg(a, m.version)
    BY <2>1 DEF GoodMap
  <2>3. Len(a.replicas) \in 0..(RF - 1)
    BY <2>2, NumbersAssumption DEF GoodAsg
  <2>4. a.replicas \in [1..Len(a.replicas) -> Nodes]
    BY <2>2 DEF GoodAsg
  <2>5. a.epoch \in 1..MaxVersion
    BY <2>1, EpochsInRange, NumbersAssumption
  <2>6. a.replicas \in UNION {[1..k -> Nodes] : k \in 0..(RF - 1)}
    BY <2>3, <2>4
  <2>7. a.owner \in Nodes /\ a = [owner |-> a.owner, epoch |-> a.epoch, replicas |-> a.replicas]
    BY <2>2 DEF GoodAsg
  <2> HIDE DEF GoodAsg
  <2> QED
    BY <2>1, <2>5, <2>6, <2>7
<1>2. /\ m = [version |-> m.version, asg |-> m.asg]
      /\ m.version \in 1..MaxVersion
      /\ m.asg = [s \in Shards |-> m.asg[s]]
  BY NumbersAssumption DEF GoodMap
<1> QED
  BY <1>1, <1>2 DEF Maps

\* The copies of a good map's shard, in one sequence, are distinct.
LEMMA GoodIsDistinct ==
    ASSUME NEW m, GoodMap(m), NEW s \in Shards,
           NEW i \in 1..Len(<<m.asg[s].owner>> \o m.asg[s].replicas),
           NEW j \in 1..Len(<<m.asg[s].owner>> \o m.asg[s].replicas),
           (<<m.asg[s].owner>> \o m.asg[s].replicas)[i] =
              (<<m.asg[s].owner>> \o m.asg[s].replicas)[j]
    PROVE  i = j
<1>1. PICK o, r : o = m.asg[s].owner /\ r = m.asg[s].replicas
  BY Zenon
<1>2. /\ Len(r) \in Nat /\ o \in Nodes /\ r \in [1..Len(r) -> Nodes]
      /\ \A k \in 1..Len(r) : r[k] # o
      /\ \A k, l \in 1..Len(r) : r[k] = r[l] => k = l
  BY <1>1, Zenon DEF GoodMap, GoodAsg
<1>3. r \in Seq(Nodes) /\ <<o>> \in Seq(Nodes)
  BY <1>2
<1>4. /\ Len(<<o>> \o r) = 1 + Len(r)
      /\ (<<o>> \o r)[1] = o
      /\ \A k \in 2..(1 + Len(r)) : (<<o>> \o r)[k] = r[k - 1]
  BY <1>3
<1>5. i \in 1..(1 + Len(r)) /\ j \in 1..(1 + Len(r)) /\ (<<o>> \o r)[i] = (<<o>> \o r)[j]
  BY <1>1, <1>4
<1>6. CASE i = 1 /\ j # 1
  BY <1>2, <1>4, <1>5, <1>6
<1>7. CASE j = 1 /\ i # 1
  BY <1>2, <1>4, <1>5, <1>7
<1>8. CASE i # 1 /\ j # 1
  <2>1. i - 1 \in 1..Len(r) /\ j - 1 \in 1..Len(r) /\ r[i - 1] = r[j - 1]
    BY <1>2, <1>4, <1>5, <1>8
  <2> QED
    BY <1>2, <1>5, <2>1
<1> QED
  BY <1>6, <1>7, <1>8

LEMMA DistinctFollows == Shape /\ DistinctInv => CopiesDistinct
<1> SUFFICES ASSUME Shape, DistinctInv PROVE CopiesDistinct
  OBVIOUS
<1>1. {map, store, router, det.snap, hb.snap, adm.snap} \subseteq Maps
  BY GoodIsMap DEF DistinctInv, MapsGood
<1>2. fence \in [Shards -> 1..MaxVersion]
  BY NumbersAssumption DEF DistinctInv, FenceInRange, Shape
<1>3. TypeOK
  BY <1>1, <1>2 DEF TypeOK, DistinctInv, TasksTyped
<1>4. GoodMap(map) /\ GoodMap(store) /\ GoodMap(router)
  BY DEF DistinctInv, MapsGood
<1>5. ASSUME NEW m \in {map, store, router}, NEW s \in Shards
      PROVE  \A i, j \in 1..Len(<<m.asg[s].owner>> \o m.asg[s].replicas) :
                (<<m.asg[s].owner>> \o m.asg[s].replicas)[i] =
                   (<<m.asg[s].owner>> \o m.asg[s].replicas)[j] => i = j
  <2>1. GoodMap(m)
    BY <1>4
  <2> QED
    BY <2>1, GoodIsDistinct
<1> QED
  BY <1>3, <1>5 DEF CopiesDistinct

\* For every ring, set of voters, number of shards and replication factor: rebalances
\* over any membership (new_distributed_rf), failovers in any order, failed saves and
\* restarts keep every shard's owner and replicas distinct nodes, in the map, its
\* snapshot and the router's copy.
THEOREM CopiesAreDistinct == Spec => []CopiesDistinct
<1>1. IInv => Shape
  BY DEF IInv
<1> QED
  BY <1>1, InitHolds, Inductive, InitDistinct, DistinctInductive, DistinctFollows, PTL DEF Spec
=============================================================================
