----------------------------- MODULE GraphShard -----------------------------
(***************************************************************************)
(* One shard of the graph service: the node tasks with their mailboxes,    *)
(* the write-ahead log they share with its group-commit flusher, the       *)
(* shard's write lock under which nodes are woken and put to sleep, the    *)
(* read projection, and the persistence agent.  Clients send a request on  *)
(* a mailbox handle cloned under the lock and used after it is released.   *)
(* A crash keeps the fsynced part of the log and, if the machine stops,    *)
(* only what the persistence agent had flushed.                            *)
(***************************************************************************)
EXTENDS WriteAheadLog, NodeState, FiniteSetsExt, SequencesExt

CONSTANTS
    Node,          \* the nodes of the shard
    Request,       \* requests: id -> [node, ops, durable]
    Plan,          \* workloads; each run follows one of them
    ChannelSize,   \* channel_size: capacity of a mailbox
    StartTime      \* the wall clock when the shard starts

ASSUME ShardBoundsAssumption ==
    /\ ChannelSize \in Nat \ {0}
    /\ StartTime \in Nat

Id == DOMAIN Request

VARIABLES
    plan,     \* the workload: which requests, and bounds on sleeps and faults
    wal,      \* the write-ahead log
    task,     \* node -> its task; meaningful for nodes in memory
    nodes,    \* the nodes in memory: the keys of GraphShard.nodes
    proj,     \* node -> the published read state
    store,    \* node -> what the persistence agent holds
    stable,   \* node -> what of it survives a machine crash
    lock,     \* the holder of the shard's write lock and its progress
    req,      \* request -> where it is
    now,      \* wall clock; never behind a node's own clock
    replay,   \* after a restart: the nodes whose log records are yet to be treated
    count,    \* how many sleeps, crashes, faults and resends have happened
    applied,  \* history: request -> times its events were applied
    acked,    \* history: node -> the events of its acknowledged durable commits
    raced     \* history: nodes that committed between snapshot and sleep

vars == <<plan, wal, task, nodes, proj, store, stable, lock, req, now, replay,
          count, applied, acked, raced>>

NoCommit == [id |-> NoValue]
Free == [op |-> "free"]
Running == replay = {}

\* A task as spawn_with_full_state creates it.
NewTask(st, clock) ==
    [st |-> st, journal |-> << >>, clock |-> clock, box |-> << >>, pend |-> NoCommit,
     seen |-> << >>]

Absent == [member |-> "absent"]

Init ==
    /\ plan \in Plan
    /\ wal = OpenWal(<< >>)
    /\ task = [n \in Node |-> NewTask(EmptyState, NoTime)]
    /\ nodes = {}
    /\ proj = [n \in Node |-> Absent]
    /\ store = [n \in Node |-> EmptyStore]
    /\ stable = [n \in Node |-> EmptyStore]
    /\ lock = Free
    /\ req = [r \in Id |-> "new"]
    /\ now = StartTime
    /\ replay = {}
    /\ count = [sleeps |-> 0, crashes |-> 0, faults |-> 0, resends |-> 0]
    /\ applied = [r \in Id |-> 0]
    /\ acked = [n \in Node |-> {}]
    /\ raced = {}

\* Tasks holding a watch receiver: from the append to the end of the commit.
Receivers == {n \in nodes : task[n].pend # NoCommit}

Counted(what) == [count EXCEPT ![what] = @ + 1]

Fault == count.faults < plan.faults /\ count' = Counted("faults")

-----------------------------------------------------------------------------
(* Clients: route, then send outside the lock.                             *)

\* Both paths of route end with a clone of the mailbox handle: the fast path
\* when the lock is free and the node in memory, the slow path after waking.
RouteFast(r) ==
    /\ Running
    /\ r \in plan.ids
    /\ req[r] = "new"
    /\ lock = Free
    /\ Request[r].node \in nodes
    /\ \A i \in DOMAIN Request[r].ops : Request[r].ops[i].time <= now + plan.skew
    /\ req' = [req EXCEPT ![r] = "routed"]
    /\ UNCHANGED <<plan, wal, task, nodes, proj, store, stable, lock, now, replay,
                   count, applied, acked, raced>>

\* The slow path takes the write lock.  enforce_memory_limit first sleeps a
\* node when the shard is full: any node may be the coldest one.
RouteSlow(r) ==
    /\ Running
    /\ r \in plan.ids
    /\ req[r] = "new"
    /\ lock = Free
    /\ Request[r].node \notin nodes
    /\ \A i \in DOMAIN Request[r].ops : Request[r].ops[i].time <= now + plan.skew
    /\ \/ /\ Cardinality(nodes) < plan.max_nodes
          /\ lock' = [op |-> "wake", waker |-> r]
          /\ UNCHANGED count
       \/ /\ Cardinality(nodes) >= plan.max_nodes
          /\ count.sleeps < plan.sleeps
          /\ \E n \in nodes : lock' = [op |-> "ask", node |-> n, waker |-> r]
          /\ count' = Counted("sleeps")
    /\ UNCHANGED <<plan, wal, task, nodes, proj, store, stable, req, now, replay,
                   applied, acked, raced>>

\* wake_node once there is room: rebuild the state, spawn the task, publish.
WakeNode ==
    /\ Running
    /\ lock.op = "wake"
    /\ LET n     == Request[lock.waker].node
           st    == Recovered(store[n])
           clock == Max({now, RecoveredMaxTime(store[n]) + 1})
       IN  /\ task' = [task EXCEPT ![n] = NewTask(st, clock)]
           /\ nodes' = nodes \cup {n}
           /\ proj' = [proj EXCEPT ![n] = st]
           /\ now' = Max({now, clock})
    /\ req' = [req EXCEPT ![lock.waker] = "routed"]
    /\ lock' = Free
    /\ UNCHANGED <<plan, wal, store, stable, replay, count, applied, acked, raced>>

HasRoom(n) == Len(task[n].box) < ChannelSize

Deliver(n, cmd) == task' = [task EXCEPT ![n].box = Append(@, cmd)]

Send(r) ==
    /\ Running
    /\ req[r] = "routed"
    /\ HasRoom(Request[r].node)
    /\ Deliver(Request[r].node, r)
    /\ req' = [req EXCEPT ![r] = "queued"]
    /\ UNCHANGED <<plan, wal, nodes, proj, store, stable, lock, now, replay,
                   count, applied, acked, raced>>

\* A caller that got an answer or an error sends the same request id again.
Resend(r) ==
    /\ Running
    /\ req[r] \in {"acked", "failed"}
    /\ count.resends < plan.resends
    /\ req' = [req EXCEPT ![r] = "new"]
    /\ count' = Counted("resends")
    /\ UNCHANGED <<plan, wal, task, nodes, proj, store, stable, lock, now, replay,
                   applied, acked, raced>>

\* A lookup in the persistence agent fails: route returns the error.
WakeFails ==
    /\ Running
    /\ lock.op = "wake"
    /\ Fault
    /\ req' = [req EXCEPT ![lock.waker] = "failed"]
    /\ lock' = Free
    /\ UNCHANGED <<plan, wal, task, nodes, proj, store, stable, now, replay, applied,
                   acked, raced>>

-----------------------------------------------------------------------------
(* The node task: one command at a time, in mailbox order.                 *)

Idle(n) == n \in nodes /\ task[n].pend = NoCommit /\ task[n].box # << >>
Command(n) == Head(task[n].box)
PopBox(n) == [task[n] EXCEPT !.box = Tail(@)]

\* handle_mutate finds the request id among its receipts: it answers from the
\* cache and makes the receipt the newest.
TaskDedup(n) ==
    /\ Idle(n)
    /\ Contains(task[n].seen, Command(n))
    /\ task' = [task EXCEPT ![n] =
           [PopBox(n) EXCEPT !.seen = Append(Remove(@, Command(n)), Command(n))]]
    /\ req' = [req EXCEPT ![Command(n)] = "acked"]
    /\ UNCHANGED <<plan, wal, nodes, proj, store, stable, lock, now, replay, count,
                   applied, acked, raced>>

Fresh(n) == Idle(n) /\ Command(n) \in Id /\ ~Contains(task[n].seen, Command(n))

Outcome(n) ==
    CommitOperations(task[n].st, task[n].clock, Request[Command(n)].ops, Command(n))

\* commit_operations up to the append and the subscription made under the same
\* lock.  The new state is kept aside until the commit completes.
TaskAppend(n) ==
    /\ Fresh(n)
    /\ \E out \in {Outcome(n)} :
           /\ task' = [task EXCEPT ![n] =
                  [PopBox(n) EXCEPT
                      !.clock = out.clock,
                      !.pend = [id |-> Command(n), seq |-> wal.next, st |-> out.st,
                                events |-> out.events]]]
           /\ wal' = AppendWal(wal, [type |-> "events", node |-> n,
                                     events |-> out.events],
                               Receivers, plan.max_ops)
           /\ now' = Max({now, out.clock})
    /\ UNCHANGED <<plan, nodes, proj, store, stable, lock, req, replay, count, applied,
                   acked, raced>>

\* The append fails and so does the request; a DeleteNode has already set the
\* tombstone in memory.
TaskAppendFails(n) ==
    /\ Fresh(n)
    /\ Fault
    /\ task' = [task EXCEPT ![n] =
           [PopBox(n) EXCEPT !.clock = Outcome(n).clock,
                             !.st.deleted = Outcome(n).st.deleted]]
    /\ wal' = AppendFailsWal(wal)
    /\ now' = Max({now, Outcome(n).clock})
    /\ req' = [req EXCEPT ![Command(n)] = "failed"]
    /\ UNCHANGED <<plan, nodes, proj, store, stable, lock, replay, applied, acked,
                   raced>>

\* Mutant: the receipt cache is never trimmed.
RememberAll(seen, id) == Append(seen, id)

\* Mutant: the cache is trimmed when it reaches its capacity.
RememberTooFew(seen, id) ==
    LET all == Append(seen, id)
    IN  IF Len(all) >= plan.dedup
          THEN SubSeq(all, Len(all) \div 2 + 1, Len(all)) ELSE all

\* The receipt cache after a commit: beyond its capacity it loses its older half.
Remember(seen, id) ==
    LET all == Append(seen, id)
    IN  IF Len(all) > plan.dedup
          THEN SubSeq(all, Len(all) \div 2 + 1, Len(all)) ELSE all

\* The phases of a sleep after the snapshot has been copied.
PastSnapshot == {"persist", "snapshot", "checkpoint", "stop", "stopping"}

\* The rest of commit_operations: wait for the watermark if the receipt is to
\* be durable, then apply, journal, publish and answer.
TaskCommit(n) ==
    /\ n \in nodes
    /\ task[n].pend # NoCommit
    /\ LET pend == task[n].pend
       IN  /\ Request[pend.id].durable => wal.durable >= pend.seq
           /\ task' = [task EXCEPT ![n].st = pend.st,
                                   ![n].journal = @ \o pend.events,
                                   ![n].pend = NoCommit,
                                   ![n].seen = Remember(@, pend.id)]
           /\ proj' = [proj EXCEPT ![n] = pend.st]
           /\ req' = [req EXCEPT ![pend.id] = "acked"]
           /\ applied' = [applied EXCEPT ![pend.id] = @ + 1]
           /\ acked' = IF Request[pend.id].durable
                         THEN [acked EXCEPT ![n] = @ \cup ToSet(pend.events)]
                         ELSE acked
    /\ raced' = IF lock.op \in PastSnapshot /\ lock.node = n THEN raced \cup {n}
                ELSE raced
    /\ UNCHANGED <<plan, wal, nodes, store, stable, lock, now, replay, count>>

\* SnapshotState copies state and journal; the journal stays in memory.
TaskSnapshot(n) ==
    /\ Idle(n)
    /\ Command(n) = "snapshot"
    /\ task' = [task EXCEPT ![n] = PopBox(n)]
    /\ lock' = [op |-> "persist", node |-> n, waker |-> lock.waker,
                st |-> task[n].st, journal |-> task[n].journal]
    /\ UNCHANGED <<plan, wal, nodes, proj, store, stable, req, now, replay, count,
                   applied, acked, raced>>

\* GoToSleep ends the loop.  What is still in the mailbox is dropped with the
\* receiver, and a later send on a cloned handle fails: both callers see an error.
TaskExit(n) ==
    /\ Idle(n)
    /\ Command(n) = "sleep"
    /\ task' = [task EXCEPT ![n].box = << >>]
    /\ req' = [r \in Id |->
           IF Request[r].node = n /\ req[r] \in {"routed", "queued"} THEN "failed"
           ELSE req[r]]
    /\ lock' = [lock EXCEPT !.op = "remove"]
    /\ UNCHANGED <<plan, wal, nodes, proj, store, stable, now, replay, count, applied,
                   acked, raced>>

-----------------------------------------------------------------------------
(* sleep_node, under the shard's write lock.                               *)

\* sleep_node, evict_idle_nodes, flush_shard and shutdown pick a node in memory.
StartSleep(n) ==
    /\ Running
    /\ lock = Free
    /\ n \in nodes
    /\ count.sleeps < plan.sleeps
    /\ count' = Counted("sleeps")
    /\ lock' = [op |-> "ask", node |-> n, waker |-> NoValue]
    /\ UNCHANGED <<plan, wal, task, nodes, proj, store, stable, req, now, replay,
                   applied, acked, raced>>

AskSnapshot ==
    /\ lock.op = "ask"
    /\ HasRoom(lock.node)
    /\ Deliver(lock.node, "snapshot")
    /\ lock' = [lock EXCEPT !.op = "wait"]
    /\ UNCHANGED <<plan, wal, nodes, proj, store, stable, req, now, replay, count,
                   applied, acked, raced>>

PersistJournal ==
    /\ lock.op = "persist"
    /\ store' = [store EXCEPT ![lock.node] = PersistEvents(@, lock.journal)]
    /\ lock' = [lock EXCEPT !.op = "snapshot"]
    /\ UNCHANGED <<plan, wal, task, nodes, proj, stable, req, now, replay, count,
                   applied, acked, raced>>

\* The snapshot carries the later of the newest journalled time and the wall
\* clock; flush_durable then makes every earlier write of the agent durable.
SnapshotTime(journal) == Max({now} \cup {journal[i].time : i \in DOMAIN journal})

SaveSnapshot ==
    /\ lock.op = "snapshot"
    /\ store' = [store EXCEPT ![lock.node] =
                    PersistSnapshot(@, SnapshotTime(lock.journal), lock.st)]
    /\ stable' = store'
    /\ lock' = [lock EXCEPT !.op = "checkpoint"]
    /\ UNCHANGED <<plan, wal, task, nodes, proj, req, now, replay, count, applied, acked,
                   raced>>

WriteCheckpoint ==
    /\ lock.op = "checkpoint"
    /\ wal' = AppendWal(wal, [type |-> "checkpoint", node |-> lock.node], Receivers,
                        plan.max_ops)
    /\ lock' = [lock EXCEPT !.op = "stop"]
    /\ UNCHANGED <<plan, task, nodes, proj, store, stable, req, now, replay, count,
                   applied, acked, raced>>

StopTask ==
    /\ lock.op = "stop"
    /\ HasRoom(lock.node)
    /\ Deliver(lock.node, "sleep")
    /\ lock' = [lock EXCEPT !.op = "stopping"]
    /\ UNCHANGED <<plan, wal, nodes, proj, store, stable, req, now, replay, count,
                   applied, acked, raced>>

\* Mutant: the projection keeps a node that was put to sleep.
FinishSleepPublished ==
    /\ lock.op = "remove"
    /\ nodes' = nodes \ {lock.node}
    /\ wal' = TruncateWal(wal)
    /\ lock' = IF lock.waker = NoValue THEN Free
               ELSE [op |-> "wake", waker |-> lock.waker]
    /\ UNCHANGED <<plan, task, proj, store, stable, req, now, replay, count, applied,
                   acked, raced>>

\* The node leaves the maps, the log is truncated, and the lock goes to the
\* waking request that needed the room, or is released.
FinishSleep ==
    /\ lock.op = "remove"
    /\ nodes' = nodes \ {lock.node}
    /\ proj' = [proj EXCEPT ![lock.node] = Absent]
    /\ wal' = TruncateWal(wal)
    /\ lock' = IF lock.waker = NoValue THEN Free
               ELSE [op |-> "wake", waker |-> lock.waker]
    /\ UNCHANGED <<plan, task, store, stable, req, now, replay, count, applied, acked,
                   raced>>

\* A persistence error, or a failed append of the checkpoint, ends the sleep:
\* the node stays in memory, and a request that was to be woken fails.
SleepFails ==
    /\ lock.op \in {"persist", "snapshot", "checkpoint"}
    /\ Fault
    /\ wal' = IF lock.op = "checkpoint" THEN AppendFailsWal(wal) ELSE wal
    /\ req' = IF lock.waker = NoValue THEN req
              ELSE [req EXCEPT ![lock.waker] = "failed"]
    /\ lock' = Free
    /\ UNCHANGED <<plan, task, nodes, proj, store, stable, now, replay, applied, acked,
                   raced>>

-----------------------------------------------------------------------------
(* The flusher, crashes and recovery.                                      *)

\* A flush that fails leaves everything as it is and is tried again.
Flush ==
    /\ wal.ops > 0
    /\ wal' = FlushWal(wal, Receivers)
    /\ UNCHANGED <<plan, task, nodes, proj, store, stable, lock, req, now, replay,
                   count, applied, acked, raced>>

\* A process crash keeps what the agent has written; a machine crash may keep
\* only what it has flushed.  Callers still waiting get no answer.
Crash ==
    /\ count.crashes < plan.crashes
    /\ count' = Counted("crashes")
    /\ \E file \in SurvivingFiles(wal) : wal' = OpenWal(file)
    /\ \/ UNCHANGED <<store, stable>>
       \/ plan.power /\ store' = stable /\ UNCHANGED stable
    /\ task' = [n \in Node |-> NewTask(EmptyState, NoTime)]
    /\ nodes' = {}
    /\ proj' = [n \in Node |-> Absent]
    /\ lock' = Free
    /\ req' = [r \in Id |-> IF req[r] \in {"routed", "queued"} THEN "failed" ELSE req[r]]
    /\ replay' = Node
    /\ UNCHANGED <<plan, now, applied, acked, raced>>

\* replay_wal for one node: persist the events after its last checkpoint, then
\* append a checkpoint of its own.
ReplayNode(n) ==
    /\ n \in replay
    /\ replay' = replay \ {n}
    /\ LET events == Unreplayed(wal.file, n)
       IN  IF events = << >> THEN UNCHANGED <<store, wal>>
           ELSE /\ store' = [store EXCEPT ![n] = PersistEvents(@, events)]
                /\ wal' = AppendWal(wal, [type |-> "checkpoint", node |-> n], Receivers,
                                    plan.max_ops)
    /\ UNCHANGED <<plan, task, nodes, proj, stable, lock, req, now, count, applied, acked,
                   raced>>

-----------------------------------------------------------------------------
TaskStep(n) ==
    \/ TaskDedup(n) \/ TaskAppend(n) \/ TaskCommit(n) \/ TaskSnapshot(n) \/ TaskExit(n)

SleepStep ==
    \/ AskSnapshot \/ PersistJournal \/ SaveSnapshot \/ WriteCheckpoint \/ StopTask
    \/ FinishSleep

Next ==
    \/ \E r \in Id : RouteFast(r) \/ RouteSlow(r) \/ Send(r) \/ Resend(r)
    \/ WakeNode \/ WakeFails
    \/ \E n \in Node : TaskStep(n) \/ TaskAppendFails(n) \/ StartSleep(n) \/ ReplayNode(n)
    \/ SleepStep \/ SleepFails
    \/ Flush \/ Crash

Spec == Init /\ [][Next]_vars

\* Every spawned task runs, a waiting sender is served once there is room, and
\* the flusher wakes on its timer.  Nothing obliges a client to send, a node to
\* be put to sleep or a fault to happen.
FairSpec ==
    /\ Spec
    /\ \A n \in Node : WF_vars(TaskStep(n)) /\ WF_vars(ReplayNode(n))
    /\ \A r \in Id : WF_vars(Send(r))
    /\ WF_vars(WakeNode)
    /\ WF_vars(SleepStep)
    /\ WF_vars(Flush)

-----------------------------------------------------------------------------
(* Properties.                                                             *)

States ==
    [val : Id \cup {NoValue}, time : Nat, member : BOOLEAN,
     edgeProp : Id \cup {NoValue}, deleted : BOOLEAN]

\* Every variable has the shape the code gives it: mailboxes within their
\* capacity, no more nodes in memory than max_nodes, and the watermark and the
\* fsynced part within the log (log.rs, node_task.rs, shard/mod.rs).
TypeOK ==
    /\ plan \in Plan
    /\ wal.synced \in 0 .. Len(wal.file) /\ wal.next \in Nat \ {0} /\ wal.ops \in Nat
    /\ nodes \subseteq Node /\ Cardinality(nodes) <= plan.max_nodes
    /\ \A n \in Node : /\ task[n].st \in States
                       /\ Len(task[n].box) <= ChannelSize
                       /\ Len(task[n].seen) <= plan.dedup
                       /\ proj[n] \in States \cup {Absent}
    /\ req \in [Id -> {"new", "routed", "queued", "acked", "failed"}]
    /\ replay \subseteq Node

\* Does a state keep an acknowledged event: a property at least as new, and a
\* member, an edge property or a tombstone unless the workload also removes it.
Removes(n, kind) ==
    \E r \in plan.ids : /\ Request[r].node = n
                        /\ \E i \in DOMAIN Request[r].ops : Request[r].ops[i].kind = kind

Keeps(st, n, e) ==
    /\ e.kind \in {"set", "remove"} => st.time >= e.time
    /\ e.kind = "add" => st.member \/ Removes(n, "drop")
    /\ e.kind = "edgeprop" => st.edgeProp # NoValue
    /\ e.kind = "delete" => st.deleted

\* The state a node has after a crash at this moment that keeps the least.
CrashState(n) ==
    LET file == SubSeq(wal.file, 1, wal.synced)
        base == IF plan.power THEN stable[n] ELSE store[n]
    IN  Recovered(PersistEvents(base, Unreplayed(file, n)))

\* A returned receipt guarantees the write survives a crash (node_task.rs): what
\* was acknowledged as durable is rebuilt from the fsynced log and the store.
AckedSurvivesCrash == \A n \in Node : \A e \in acked[n] : Keeps(CrashState(n), n, e)

\* The same for the nodes whose task committed nothing while it was being put to
\* sleep: the sleep of one node costs the others nothing.
QuietAckedSurvivesCrash ==
    \A n \in Node \ raced : \A e \in acked[n] : Keeps(CrashState(n), n, e)

\* For every node, as long as no node of the shard has been put to sleep, for process
\* crashes however often they interrupt and repeat the replay, and for the first
\* machine crash.
AckedSurvivesUntilSleep ==
    (count.sleeps = 0 /\ (plan.power => count.crashes = 0)) => AckedSurvivesCrash

\* Memory if the node is awake, else the state its next wake rebuilds.
VisibleState(n) == IF n \in nodes THEN task[n].st ELSE Recovered(store[n])

\* An evicted node wakes with identical state and eviction never loses data
\* (evict_idle_nodes): without a crash every acknowledged write stays visible.
AckedVisible ==
    count.crashes = 0 => \A n \in Node : \A e \in acked[n] : Keeps(VisibleState(n), n, e)

\* The same for the nodes whose task committed nothing between the copy of its
\* state and its exit: the snapshot, the journal and the wake agree.
QuietSleepKeepsAcked ==
    count.crashes = 0 =>
        \A n \in Node \ raced : \A e \in acked[n] : Keeps(VisibleState(n), n, e)

\* An acknowledged write is not lost: neither by crashes before the first sleep,
\* nor by sleeping and waking.
AckedSurvives == AckedSurvivesUntilSleep /\ QuietSleepKeepsAcked

\* Readers of the projection see exactly the nodes in memory, each in the state
\* of its last commit; sleeping, waking and failed commits leave nothing stale.
\* (A failed delete has marked the task's state but not the projection.)  Types
\* included.
ProjectionCurrent ==
    /\ TypeOK
    /\ \A n \in Node :
           IF n \in nodes
             THEN proj[n] # Absent /\ [task[n].st EXCEPT !.deleted = proj[n].deleted] = proj[n]
             ELSE proj[n] = Absent

\* A request id answered by a task that is still in memory is not applied again,
\* while the task has served no more requests than its receipt cache holds.
AppliedOnce ==
    (count.sleeps = 0 /\ count.crashes = 0 /\ Cardinality(plan.ids) <= plan.dedup) =>
        \A r \in Id : applied[r] <= 1

\* The request is in a mailbox or in a commit that is waiting for the log.
Waiting == \E r \in Id : req[r] = "queued"

\* A commit subscribes to the watermark under the lock of its append, so it has
\* no lost-wakeup window (node_task.rs): every request in a mailbox is answered.
EveryWriteAnswered == Waiting ~> ~Waiting

\* The same for workloads in which no sleep truncates the log under a waiting
\* commit and no append fills the buffer and flushes it inline.
QuietWriteAnswered ==
    (Waiting /\ plan.sleeps = 0 /\ plan.max_ops > Cardinality(Id)) ~> ~Waiting
=============================================================================
