-------------------------- MODULE ShardReplication --------------------------
(***************************************************************************)
(* One shard of a cluster without control-plane raft: the owner's write    *)
(* path (nexora-app/src/handlers.rs), the follower's fenced-write handler  *)
(* (graph_service_adapter.rs) with its fence and replication log, and the  *)
(* failure detector of every node (cluster.rs) with failover_shard_auto    *)
(* (control.rs), the catch-up barrier and the incremental state transfer.  *)
(*                                                                         *)
(* All writes set the same property, so their order of application shows.  *)
(* A step is what runs between two awaits.  Every node keeps a map of its  *)
(* own and moves it by its own suspicions; maps are never exchanged.       *)
(***************************************************************************)
EXTENDS ShardLog, Sequences

CONSTANTS
    Nodes,
    Ring,        \* the nodes in sorted order: owner of the shard, then followers
    NoOp,        \* the property is not set
    MaxEpoch,    \* bound: failovers a node goes through
    Forwarding,  \* do clients also write through nodes that are not the owner
    ApplyMayFail \* may the graph refuse a write

ASSUME NodesAssumption == IsFiniteSet(Nodes)
ASSUME RingAssumption ==
    /\ Ring \in Seq(Nodes) /\ Len(Ring) >= 2
    /\ \A i, j \in 1..Len(Ring) : Ring[i] = Ring[j] => i = j
ASSUME MaxEpochAssumption == MaxEpoch \in Nat \ {0}
ASSUME NoOpAssumption == NoOp \notin Ops \cup Nodes
ASSUME FlagsAssumption == {Forwarding, ApplyMayFail} \subseteq BOOLEAN

VARIABLES
    map,      \* each node's assignment of the shard, in control plane and router
    fence,    \* each node's ShardFence mark
    log,      \* each node's replication log
    data,     \* each node's graph: the property and the writes it reflects
    blocked,  \* each node's catch-up barrier
    det,      \* each node's failure detector
    pc,       \* where each write is
    at,       \* the node each write executes on as owner
    epoch,    \* epoch stamped on each write
    seq,      \* seq assigned to each write
    h,        \* each follower's handler of each write
    doomed,   \* history: writes sent when every follower had fenced their epoch
    before,   \* history: for each node, the writes committed when it was promoted
    dropped   \* history: for each node, the writes its log refused as too old

nodeVars == <<map, fence, log, data, blocked, det>>
writeVars == <<pc, at, epoch, seq, h>>
history == <<doomed, before, dropped>>
vars == <<nodeVars, writeVars, history>>

Owner0 == Head(Ring)

\* A fault: any owner replicates to the other nodes of the ring.
FollowersOfAnyOwner(n) == {Ring[i] : i \in 1..Len(Ring)} \ {n}

\* The replica writer's set is seeded at construction, for owned shards only.
Followers(n) == IF n = Owner0 THEN {Ring[i] : i \in 2..Len(Ring)} ELSE {}

RequiredAcks(n) == ((1 + Cardinality(Followers(n))) \div 2) + 1

IdleDetector == [pc |-> "idle", source |-> NoOp, from |-> 0,
                 ops |-> {}, snap |-> [value |-> NoOp, has |-> {}]]

ApplyTo(d, op) == [value |-> op, has |-> d.has \cup {op}]

Init ==
    /\ map = [n \in Nodes |-> [owner |-> Owner0, epoch |-> 1, replicas |-> Tail(Ring)]]
    /\ fence = [n \in Nodes |-> 1]
    /\ log = [n \in Nodes |-> EmptyLog]
    /\ data = [n \in Nodes |-> [value |-> NoOp, has |-> {}]]
    /\ blocked = [n \in Nodes |-> FALSE]
    /\ det = [n \in Nodes |-> IdleDetector]
    /\ pc = [w \in Ops |-> "new"]
    /\ at = [w \in Ops |-> Owner0]
    /\ epoch = [w \in Ops |-> 0]
    /\ seq = [w \in Ops |-> 0]
    /\ h = [w \in Ops |-> [n \in Nodes |-> "none"]]
    /\ doomed = {}
    /\ before = [n \in Nodes |-> {}]
    /\ dropped = [n \in Nodes |-> {}]

-----------------------------------------------------------------------------
\* Client writes.

\* set_property on a node that owns the shard in its own map and is not
\* reconciling.  A refused request leaves no trace and may be retried.
StartWrite(n, w) ==
    /\ pc[w] = "new" /\ map[n].owner = n /\ ~blocked[n]
    /\ pc' = [pc EXCEPT ![w] = "checked"]
    /\ at' = [at EXCEPT ![w] = n]
    /\ UNCHANGED <<nodeVars, epoch, seq, h, history>>

\* try_route_remote: the write goes to the owner in n's map.
ForwardWrite(n, w) ==
    /\ Forwarding
    /\ pc[w] = "new" /\ map[n].owner # n
    /\ pc' = [pc EXCEPT ![w] = "routed"]
    /\ at' = [at EXCEPT ![w] = map[n].owner]
    /\ UNCHANGED <<nodeVars, epoch, seq, h, history>>

\* That node runs its plain SetProperty arm: it applies the write and answers.
RemoteApplies(w) ==
    /\ pc[w] = "routed"
    /\ pc' = [pc EXCEPT ![w] = "ok"]
    /\ data' = [data EXCEPT ![at[w]] = ApplyTo(@, w)]
    /\ UNCHANGED <<map, fence, log, blocked, det, at, epoch, seq, h, history>>

\* The request or its answer is lost, or the graph refuses the write.
RemoteFails(w) ==
    /\ pc[w] = "routed"
    /\ pc' = [pc EXCEPT ![w] = "failed"]
    /\ \/ data' = [data EXCEPT ![at[w]] = ApplyTo(@, w)]
       \/ UNCHANGED data
    /\ UNCHANGED <<map, fence, log, blocked, det, at, epoch, seq, h, history>>

\* The local set_property.
ApplyLocally(w) ==
    /\ pc[w] = "checked"
    /\ pc' = [pc EXCEPT ![w] = "applied"]
    /\ data' = [data EXCEPT ![at[w]] = ApplyTo(@, w)]
    /\ UNCHANGED <<map, fence, log, blocked, det, at, epoch, seq, h, history>>

\* The set_property fails, or the read of the properties after it: the second
\* leaves a write on the owner that is neither replicated nor acknowledged.
LocalError(w) ==
    /\ ApplyMayFail /\ pc[w] \in {"checked", "applied"}
    /\ pc' = [pc EXCEPT ![w] = "failed"]
    /\ UNCHANGED <<nodeVars, at, epoch, seq, h, history>>

\* replicate_write with no replica set: CommittedLocal, nothing is logged.
CommitLocally(w) ==
    /\ pc[w] = "applied" /\ Followers(at[w]) = {}
    /\ pc' = [pc EXCEPT ![w] = "ok"]
    /\ epoch' = [epoch EXCEPT ![w] = map[at[w]].epoch]
    /\ UNCHANGED <<nodeVars, at, seq, h, history>>

\* replicate_write: read the epoch, record in the owner's log, send.
Replicate(w) ==
    LET n == at[w]
    IN  /\ pc[w] = "applied" /\ Followers(n) # {}
        /\ pc' = [pc EXCEPT ![w] = "sent"]
        /\ epoch' = [epoch EXCEPT ![w] = map[n].epoch]
        /\ seq' = [seq EXCEPT ![w] = NextSeq(log[n])]
        /\ log' = [log EXCEPT ![n] = RecordOwner(@, w)]
        /\ h' = [h EXCEPT ![w] =
                    [f \in Nodes |-> IF f \in Followers(n) THEN "wire" ELSE "none"]]
        /\ doomed' = IF \A f \in Followers(n) : fence[f] > map[n].epoch
                     THEN doomed \cup {w} ELSE doomed
        /\ UNCHANGED <<map, fence, data, blocked, det, at, before, dropped>>

\* quorum_write counts the followers that answered Ok.
Commit(w) ==
    /\ pc[w] = "sent"
    /\ 1 + Cardinality({f \in Nodes : h[w][f] = "applied"}) >= RequiredAcks(at[w])
    /\ pc' = [pc EXCEPT ![w] = "ok"]
    /\ UNCHANGED <<nodeVars, at, epoch, seq, h, history>>

\* Too few acks when write_timeout elapses: replies may be late or lost.
GiveUp(w) ==
    /\ pc[w] = "sent"
    /\ pc' = [pc EXCEPT ![w] = "failed"]
    /\ UNCHANGED <<nodeVars, at, epoch, seq, h, history>>

-----------------------------------------------------------------------------
\* The FencedWrite arm of a follower's handler: three awaits.

\* A fault: the mark is set, never compared.
AdmitAny(w, f) ==
    /\ h[w][f] = "wire"
    /\ fence' = [fence EXCEPT ![f] = epoch[w]]
    /\ h' = [h EXCEPT ![w][f] = "admitted"]
    /\ UNCHANGED <<map, log, data, blocked, det, pc, at, epoch, seq, history>>

\* ShardFence::admit.
Admit(w, f) ==
    /\ h[w][f] = "wire" /\ epoch[w] >= fence[f]
    /\ fence' = [fence EXCEPT ![f] = epoch[w]]
    /\ h' = [h EXCEPT ![w][f] = "admitted"]
    /\ UNCHANGED <<map, log, data, blocked, det, pc, at, epoch, seq, history>>

Fenced(w, f) ==
    /\ h[w][f] = "wire" /\ epoch[w] < fence[f]
    /\ h' = [h EXCEPT ![w][f] = "rejected"]
    /\ UNCHANGED <<nodeVars, pc, at, epoch, seq, history>>

\* A breaker skips the follower, or the request is lost.
Lose(w, f) ==
    /\ h[w][f] = "wire"
    /\ h' = [h EXCEPT ![w][f] = "rejected"]
    /\ UNCHANGED <<nodeVars, pc, at, epoch, seq, history>>

Record(w, f) ==
    /\ h[w][f] = "admitted"
    /\ log' = [log EXCEPT ![f] = RecordReplica(@, seq[w], w)]
    /\ h' = [h EXCEPT ![w][f] = "recorded"]
    /\ dropped' = [dropped EXCEPT ![f] =
                      IF seq[w] > log[f].high_water THEN @ ELSE @ \cup {w}]
    /\ UNCHANGED <<map, fence, data, blocked, det, pc, at, epoch, seq, doomed, before>>

\* apply_inner.
ApplyReplica(w, f) ==
    /\ h[w][f] = "recorded"
    /\ data' = [data EXCEPT ![f] = ApplyTo(@, w)]
    /\ h' = [h EXCEPT ![w][f] = "applied"]
    /\ UNCHANGED <<map, fence, log, blocked, det, pc, at, epoch, seq, history>>

ApplyFails(w, f) ==
    /\ ApplyMayFail /\ h[w][f] = "recorded"
    /\ h' = [h EXCEPT ![w][f] = "rejected"]
    /\ UNCHANGED <<nodeVars, pc, at, epoch, seq, history>>

-----------------------------------------------------------------------------
\* The failure detector of a node.

\* The index i is that of the first replica in the set.
IsFirst(i, replicas, set) ==
    replicas[i] \in set /\ \A j \in 1..(i - 1) : replicas[j] \notin set

\* s is the replica that n, promoted, asks for the missing writes: the first of
\* the pre-failover replicas that is neither n nor the dead owner, if any.
IsSource(s, n, dead, replicas) ==
    \/ \E j \in 1..Len(replicas) : s = replicas[j] /\ IsFirst(j, replicas, Nodes \ {n, dead})
    \/ s = NoOp /\ \A j \in 1..Len(replicas) : replicas[j] \in {n, dead}

\* The replicas but the i-th, which becomes the owner.
Without(replicas, i) ==
    SubSeq(replicas, 1, i - 1) \o SubSeq(replicas, i + 1, Len(replicas))

\* n's heartbeats from the owner are stale, and it believes that alive, a
\* majority of the voters, is up: failover_shard_auto promotes the first live
\* replica and pushes the map to the router.  (Without a live replica only
\* writable changes, which no write path reads.)
FailoverShard(n) ==
    LET old == map[n]
    IN  /\ det[n].pc = "idle" /\ old.owner # n /\ old.epoch < MaxEpoch
        /\ \E alive \in SUBSET (Nodes \ {old.owner}), i \in 1..Len(old.replicas) :
              /\ n \in alive /\ 2 * Cardinality(alive) > Cardinality(Nodes)
              /\ IsFirst(i, old.replicas, alive)
              /\ map' = [map EXCEPT ![n] =
                    [owner |-> old.replicas[i], epoch |-> old.epoch + 1,
                     replicas |-> Without(old.replicas, i)]]
              /\ \E s \in Nodes \cup {NoOp} :
                    /\ IF old.replicas[i] = n THEN IsSource(s, n, old.owner, old.replicas)
                                              ELSE s = NoOp
                    /\ det' = [det EXCEPT ![n].pc = "promoted", ![n].source = s]
        /\ before' = [before EXCEPT ![n] = {w \in Ops : pc[w] = "ok"}]
        /\ UNCHANGED <<fence, log, data, blocked, writeVars, doomed, dropped>>

\* fence.observe_map, after the router already has the map.
ObserveMap(n) ==
    /\ det[n].pc = "promoted"
    /\ fence' = [fence EXCEPT ![n] = IF map[n].epoch > @ THEN map[n].epoch ELSE @]
    /\ det' = [det EXCEPT ![n] = IF @.source = NoOp THEN IdleDetector
                                 ELSE [@ EXCEPT !.pc = "fenced"]]
    /\ UNCHANGED <<map, log, data, blocked, writeVars, history>>

\* A fault: from_seq is taken for the first seq that is missing.
BeginCatchUpLate(n) ==
    /\ det[n].pc = "fenced"
    /\ det' = [det EXCEPT ![n].pc = "fetching", ![n].from = NextSeq(log[n])]
    /\ blocked' = [blocked EXCEPT ![n] = TRUE]
    /\ UNCHANGED <<map, fence, log, data, writeVars, history>>

\* The node's own high-water mark, then CatchUpBarrier::begin.
BeginCatchUp(n) ==
    /\ det[n].pc = "fenced"
    /\ det' = [det EXCEPT ![n].pc = "fetching", ![n].from = log[n].high_water]
    /\ blocked' = [blocked EXCEPT ![n] = TRUE]
    /\ UNCHANGED <<map, fence, log, data, writeVars, history>>

\* ExportDelta at the source: UpToDate, a delta, or TooOld.
FetchDelta(n) ==
    LET src == log[det[n].source]
        from == det[n].from
    IN  /\ det[n].pc = "fetching"
        /\ \/ /\ UpToDate(src, from)
              /\ det' = [det EXCEPT ![n].pc = "done"]
           \/ /\ Incremental(src, from)
              /\ det' = [det EXCEPT ![n].pc = "replaying", ![n].ops = Delta(src, from)]
           \/ /\ TooOld(src, from)
              /\ det' = [det EXCEPT ![n].pc = "snapshotting"]
        /\ UNCHANGED <<map, fence, log, data, blocked, writeVars, history>>

\* ExportShard at the source, when the delta fell out of the log's window.
FetchSnapshot(n) ==
    /\ det[n].pc = "snapshotting"
    /\ det' = [det EXCEPT ![n].pc = "installing", ![n].snap = data[det[n].source]]
    /\ UNCHANGED <<map, fence, log, data, blocked, writeVars, history>>

\* One delta op, executed on this node as a plain, unlogged SetProperty.
ReplayOp(n) ==
    /\ det[n].pc = "replaying"
    /\ \E e \in det[n].ops :
          /\ \A x \in det[n].ops : e.seq <= x.seq
          /\ data' = [data EXCEPT ![n] = ApplyTo(@, e.op)]
          /\ det' = [det EXCEPT ![n].ops = @ \ {e},
                       ![n].pc = IF det[n].ops = {e} THEN "done" ELSE @]
    /\ UNCHANGED <<map, fence, log, blocked, writeVars, history>>

\* The properties of the snapshot.  An unset property is not in it.
InstallSnapshot(n) ==
    /\ det[n].pc = "installing"
    /\ data' = [data EXCEPT ![n] =
          [value |-> IF det[n].snap.value = NoOp THEN @.value ELSE det[n].snap.value,
           has |-> @.has \cup det[n].snap.has]]
    /\ det' = [det EXCEPT ![n].pc = "done"]
    /\ UNCHANGED <<map, fence, log, blocked, writeVars, history>>

Reconciling(n) == det[n].pc \in {"fetching", "replaying", "snapshotting", "installing"}

\* A fault: an error leaves the guarded block before the barrier is lifted.
AbortKeepsBarrier(n) ==
    /\ Reconciling(n)
    /\ det' = [det EXCEPT ![n] = IdleDetector]
    /\ UNCHANGED <<map, fence, log, data, blocked, writeVars, history>>

\* A fetch or an apply fails: logged, not retried, and the guard reopens.
AbortCatchUp(n) ==
    /\ Reconciling(n)
    /\ blocked' = [blocked EXCEPT ![n] = FALSE]
    /\ det' = [det EXCEPT ![n] = IdleDetector]
    /\ UNCHANGED <<map, fence, log, data, writeVars, history>>

\* CatchUpBarrier::end after a successful catch-up.
EndCatchUp(n) ==
    /\ det[n].pc = "done"
    /\ blocked' = [blocked EXCEPT ![n] = FALSE]
    /\ det' = [det EXCEPT ![n] = IdleDetector]
    /\ UNCHANGED <<map, fence, log, data, writeVars, history>>

-----------------------------------------------------------------------------
Write(w) ==
    \/ RemoteApplies(w) \/ RemoteFails(w) \/ ApplyLocally(w) \/ LocalError(w)
    \/ CommitLocally(w) \/ Replicate(w) \/ Commit(w) \/ GiveUp(w)
    \/ \E n \in Nodes : StartWrite(n, w) \/ ForwardWrite(n, w)

Handle(w, f) ==
    \/ Admit(w, f) \/ Fenced(w, f) \/ Lose(w, f) \/ Record(w, f)
    \/ ApplyReplica(w, f) \/ ApplyFails(w, f)

\* What the detector's task does once a failover has started.
CatchUp(n) ==
    \/ ObserveMap(n) \/ BeginCatchUp(n) \/ FetchDelta(n) \/ FetchSnapshot(n)
    \/ ReplayOp(n) \/ InstallSnapshot(n) \/ AbortCatchUp(n) \/ EndCatchUp(n)

\* The bounded workload is over and nothing is in flight.
Quiescent ==
    /\ \A w \in Ops : pc[w] \in {"ok", "failed"}
    /\ \A w \in Ops, f \in Nodes : h[w][f] \in {"none", "applied", "rejected"}
    /\ \A n \in Nodes : det[n].pc = "idle"

Next ==
    \/ \E w \in Ops : Write(w)
    \/ \E w \in Ops, f \in Nodes : Handle(w, f)
    \/ \E n \in Nodes : FailoverShard(n) \/ CatchUp(n)
    \/ Quiescent /\ UNCHANGED vars

Spec == Init /\ [][Next]_vars

\* The runtime polls the detector's task, whose RPCs are bounded by timeouts.
FairSpec == Spec /\ \A n \in Nodes : WF_vars(CatchUp(n))

-----------------------------------------------------------------------------
Data == [value : Ops \cup {NoOp}, has : SUBSET Ops]

\* Types; every log is well formed, and a node's barrier is up exactly while its
\* detector catches up.
TypeOK ==
    /\ map \in [Nodes -> [owner : Nodes, epoch : 1..MaxEpoch, replicas : Seq(Nodes)]]
    /\ fence \in [Nodes -> 1..MaxEpoch]
    /\ \A n \in Nodes : WellFormed(log[n])
    /\ data \in [Nodes -> Data]
    /\ blocked \in [Nodes -> BOOLEAN]
    /\ \A n \in Nodes : blocked[n] <=> Reconciling(n) \/ det[n].pc = "done"
    /\ pc \in [Ops -> {"new", "routed", "checked", "applied", "sent", "ok", "failed"}]
    /\ at \in [Ops -> Nodes]
    /\ epoch \in [Ops -> 0..MaxEpoch]
    /\ seq \in [Ops -> Nat]
    /\ h \in [Ops -> [Nodes -> {"none", "wire", "admitted", "recorded",
                                "applied", "rejected"}]]
    /\ doomed \subseteq Ops
    /\ before \in [Nodes -> SUBSET Ops]
    /\ dropped \in [Nodes -> SUBSET Ops]

\* A seq names one write on every node, whoever is owner: "all replicas share
\* one seq space" (replication_log.rs), which makes a follower's high-water mark
\* comparable with another's.
SeqNamesOneWrite ==
    \A m, n \in Nodes : \A e \in log[m].entries, x \in log[n].entries :
        e.seq = x.seq => e.op = x.op

\* A write sent when every follower had already fenced its owner's epoch is never
\* acknowledged: the deposed owner cannot commit.
DeposedNeverCommits == \A w \in doomed : pc[w] # "ok"

\* A write that was replicated and acknowledged before a promotion can be missing
\* from the promoted node's graph after a successful catch-up only through a hole:
\* the node's mark has passed the write (it has it to apply, or missed it), or the
\* log it caught up from refused the write because a later one came first.  Types
\* included.
PromotionLosesOnlyHoles ==
    /\ TypeOK
    /\ \A n \in Nodes : det[n].pc = "done" =>
           \A w \in before[n] : seq[w] > 0 =>
               \/ w \in data[n].has
               \/ seq[w] <= log[n].high_water
               \/ w \in dropped[det[n].source]

\* The same without exceptions: catch-up reconciles the promoted node with the
\* writes it missed.
PromotionKeepsCommitted ==
    \A n \in Nodes : det[n].pc = "done" =>
        \A w \in before[n] : w \in data[n].has \/ h[w][n] = "recorded"

\* The replay of a catch-up never overwrites a client's write that the promoted
\* node has accepted as owner.
ReplayNeverClobbers ==
    [][\A n \in Nodes :
         /\ det[n].pc \in {"replaying", "installing"} /\ det[n]' # det[n]
         /\ data[n].value # NoOp /\ at[data[n].value] = n
         => data[n].value' = data[n].value]_vars
=============================================================================
