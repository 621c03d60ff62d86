----------------------------- MODULE ControlRaft -----------------------------
(***************************************************************************)
(* The control plane under raft: the replicated state machine of           *)
(* crates/nexora-zenoh/src/control_raft_sm.rs over the control-plane store *)
(* (nexora-core/src/control_plane_store.rs), the purge of the raft log     *)
(* (control_raft_log.rs), the proposals of control.rs and what their       *)
(* answers do to the proposer's own shard map, and the application's       *)
(* activation of committed ontologies (nexora-app/src/main.rs).            *)
(*                                                                         *)
(* openraft itself is external: it elects leaders, commits entries in one  *)
(* order (the variable log), hands every node the committed entries in     *)
(* batches, builds a snapshot on a clone of the state machine while        *)
(* entries are applied, and sends a snapshot to a node whose next entry    *)
(* the leader has purged.  Node is a part of the voters.                   *)
(*                                                                         *)
(* Of the five namespaces of the store two are kept, "map" with the shard  *)
(* map of one shard and "domain" with one ontology; of a write that fails  *)
(* only that nothing was written.                                          *)
(***************************************************************************)
EXTENDS Naturals, Sequences, FiniteSets

CONSTANTS
    Node,
    Plan,          \* workloads: see plan
    InitialMap,    \* the shard map every node computes from its configuration
    HaltThreshold, \* quarantined namespaces that stop the state machine
    Absent         \* a key that is not in the store; no snapshot

ASSUME HaltThresholdAssumption == HaltThreshold \in Nat \ {0}

VARIABLES
    plan,        \* the bounds of a behaviour: the nodes that take part, who
                 \* leads, the commands that may become each entry, whether
                 \* their callers wait, and how many crashes, failed writes and
                 \* snapshots there are
    log,         \* the committed entries, in the order of their index
    stored,      \* the last entry in the raft log of each node
    purged,      \* the last entry purged from it
    store,       \* the control-plane store: namespace -> value, durable
    applied,     \* last_applied as it is persisted
    task,        \* what the state machine is doing
    quarantined, \* namespaces a failed write has put under quarantine
    snap,        \* the persisted snapshot
    building,    \* a snapshot that is being built
    waiting,     \* entries whose proposer still awaits the answer
    answers,     \* answers that the proposer has not processed
    cache,       \* the shard map of the node's control plane and router
    events,      \* activation events the application has not drained
    active,      \* the ontology the application has registered, durable
    booted,      \* has the application reconciled since the node started
    hist         \* history, read by the properties only

raftVars == <<log, stored, purged>>
smVars == <<store, applied, task, quarantined, snap, building>>
appVars == <<events, active, booted>>
cpVars == <<waiting, answers, cache>>
vars == <<plan, raftVars, smVars, appVars, cpVars, hist>>

Namespaces == {"map", "domain"}
Empty == [ns \in Namespaces |-> Absent]
Idle == [pc |-> "idle"]
Halted == [pc |-> "halted"]

-----------------------------------------------------------------------------
\* apply_command answers Error and writes nothing: a quarantined namespace, no
\* shard map in the store, or a proposal that is not newer than the map there.
Refused(st, quarantine, cmd) ==
    \/ cmd.op \in {"put", "delete"} /\ cmd.ns \in quarantine
    \/ cmd.op \in {"failover", "auto", "propose"} /\ st["map"] = Absent
    \/ cmd.op = "propose" /\ st["map"] # Absent /\ cmd.map.version <= st["map"].version

\* apply_failover_shard
FailedOver(m, owner) ==
    [m EXCEPT !.version = @ + 1, !.owner = owner, !.epoch = @ + 1, !.writable = TRUE]

\* apply_failover_shard_auto: the first replica takes over, or nobody does.
AutoFailedOver(m) ==
    IF m.replicas = <<>>
    THEN [m EXCEPT !.version = @ + 1, !.writable = FALSE]
    ELSE [FailedOver(m, Head(m.replicas)) EXCEPT
             !.replicas = SelectSeq(@, LAMBDA r : r # Head(m.replicas))]

\* The store after a command that is not refused.
Written(st, cmd) ==
    CASE cmd.op = "put"      -> [st EXCEPT ![cmd.ns] = cmd.value]
      [] cmd.op = "delete"   -> [st EXCEPT ![cmd.ns] = Absent]
      [] cmd.op = "failover" -> [st EXCEPT !["map"] = FailedOver(@, cmd.owner)]
      [] cmd.op = "auto"     -> [st EXCEPT !["map"] = AutoFailedOver(@)]
      [] cmd.op = "propose"  -> [st EXCEPT !["map"] = cmd.map]
      [] cmd.op = "blank"    -> st

\* The namespace a command writes, if any.
Target(cmd) ==
    IF cmd.op \in {"put", "delete"} THEN {cmd.ns}
    ELSE IF cmd.op = "blank" THEN {} ELSE {"map"}

\* The answer to a command that is not refused: FailoverToken and
\* FailoverPromoted carry the new epoch, MapAccepted the version.
Response(st, cmd) ==
    CASE cmd.op = "failover" -> [kind |-> "token", epoch |-> st["map"].epoch + 1]
      [] cmd.op = "auto" ->
           IF st["map"].replicas = <<>> THEN [kind |-> "no_replica"]
           ELSE [kind |-> "promoted", epoch |-> st["map"].epoch + 1]
      [] cmd.op = "propose" -> [kind |-> "accepted", version |-> cmd.map.version]
      [] OTHER -> [kind |-> "applied"]

Error == [kind |-> "error"]

\* What the committed entries up to each index make of an empty store: the
\* state machine as a function of the log, with no fault.
Replay ==
    LET after[i \in 0..Len(log)] ==
            IF i = 0 THEN Empty
            ELSE IF Refused(after[i - 1], {}, log[i]) THEN after[i - 1]
            ELSE Written(after[i - 1], log[i])
    IN  after

-----------------------------------------------------------------------------
Init ==
    /\ plan \in Plan
    /\ log = <<>>
    /\ stored = [n \in Node |-> 0]
    /\ purged = [n \in Node |-> 0]
    /\ store = [n \in Node |-> Empty]
    /\ applied = [n \in Node |-> 0]
    /\ task = [n \in Node |-> Idle]
    /\ quarantined = [n \in Node |-> {}]
    /\ snap = [n \in Node |-> Absent]
    /\ building = [n \in Node |-> Absent]
    /\ waiting = [n \in Node |-> {}]
    /\ answers = [n \in Node |-> {}]
    /\ cache = [n \in Node |-> InitialMap]
    /\ events = [n \in Node |-> <<>>]
    /\ active = [n \in Node |-> Absent]
    /\ booted = [n \in Node |-> TRUE]
    /\ hist = [ahead |-> [n \in Node |-> 0], \* last entry that left a mark in the store
               disturbed |-> {}, \* nodes whose shard map may have been damaged
               damaged |-> {},   \* nodes whose ontology may have been damaged
               missed |-> {},    \* nodes whose application missed a change
               auto |-> {},      \* nodes that processed an automatic failover
               crashes |-> 0, failures |-> 0, snapshots |-> 0]

Spend(c) == hist[c] < plan[c]

\* client_write on the leader: the entry is committed, and the caller awaits the
\* answer unless it has lost it (the leader stepped down before applying).
Propose(n, cmd, awaited) ==
    /\ task[n].pc # "halted"
    /\ stored[n] = Len(log)
    /\ log' = Append(log, cmd)
    /\ stored' = [stored EXCEPT ![n] = Len(log) + 1]
    /\ waiting' = IF awaited THEN [waiting EXCEPT ![n] = @ \cup {Len(log) + 1}] ELSE waiting
    /\ UNCHANGED <<plan, purged, smVars, appVars, answers, cache, hist>>

\* Entries reach a node from one that has them and has not purged its next one.
Replicate(n, m) ==
    /\ stored[m] > stored[n] /\ purged[m] <= stored[n]
    /\ stored' = [stored EXCEPT ![n] = stored[m]]
    /\ UNCHANGED <<plan, log, purged, smVars, appVars, cpVars, hist>>

-----------------------------------------------------------------------------
\* A mutant of BeginApply: a quarantined namespace blocks the whole log.
BeginApplyUnlessQuarantined(n) ==
    /\ task[n].pc = "idle" /\ quarantined[n] = {}
    /\ \E upto \in (applied[n] + 1)..stored[n] :
          task' = [task EXCEPT ![n] =
                     [pc |-> "apply", next |-> applied[n] + 1, upto |-> upto, resp |-> {}]]
    /\ UNCHANGED <<plan, raftVars, store, applied, quarantined, snap, building,
                   cpVars, appVars, hist>>

\* openraft hands the state machine a batch of committed entries it has not
\* applied; apply() loads last_applied.
BeginApply(n) ==
    /\ task[n].pc = "idle"
    /\ \E upto \in (applied[n] + 1)..stored[n] :
          task' = [task EXCEPT ![n] =
                     [pc |-> "apply", next |-> applied[n] + 1, upto |-> upto, resp |-> {}]]
    /\ UNCHANGED <<plan, raftVars, store, applied, quarantined, snap, building,
                   cpVars, appVars, hist>>

\* The entry is done, with this answer.
Answered(n, response) ==
    task' = [task EXCEPT
               ![n].next = @ + 1,
               ![n].resp = IF task[n].next \in waiting[n]
                           THEN @ \cup {[cmd |-> log[task[n].next], resp |-> response]}
                           ELSE @]

\* A mutant of Halt: the callers are forgotten.
HaltSilently(n) ==
    /\ task' = [task EXCEPT ![n] = Halted]
    /\ UNCHANGED waiting

\* After a failure the core of raft stops: the state machine applies nothing
\* more until the node is restarted, and every caller gets an error.
Halt(n) ==
    /\ task' = [task EXCEPT ![n] = Halted]
    /\ waiting' = [waiting EXCEPT ![n] = {}]

Applying(n) == task[n].pc = "apply" /\ task[n].next <= task[n].upto

\* A mutant of ApplyEntry: the event of an ontology is sent before the quarantine
\* check decides whether it is written.
ApplyEntryEmitsFirst(n) ==
    /\ Applying(n)
    /\ LET cmd == log[task[n].next]
           refused == Refused(store[n], quarantined[n], cmd)
       IN  /\ store' = IF refused THEN store ELSE [store EXCEPT ![n] = Written(@, cmd)]
           /\ Answered(n, IF refused THEN Error ELSE Response(store[n], cmd))
           /\ events' = IF "domain" \in Target(cmd)
                        THEN [events EXCEPT ![n] = Append(@, Written(Empty, cmd)["domain"])]
                        ELSE events
    /\ hist' = [hist EXCEPT !.ahead[n] = IF @ > task[n].next THEN @ ELSE task[n].next]
    /\ UNCHANGED <<plan, raftVars, applied, quarantined, snap, building, cpVars,
                   active, booted>>

\* apply() executes one entry: the command is refused or written through to the
\* store, and a change of the ontology is emitted to the application.
ApplyEntry(n) ==
    /\ Applying(n)
    /\ LET cmd == log[task[n].next]
           refused == Refused(store[n], quarantined[n], cmd)
       IN  /\ store' = IF refused THEN store ELSE [store EXCEPT ![n] = Written(@, cmd)]
           /\ Answered(n, IF refused THEN Error ELSE Response(store[n], cmd))
           /\ events' = IF "domain" \in Target(cmd) /\ ~refused
                        THEN [events EXCEPT ![n] = Append(@, Written(Empty, cmd)["domain"])]
                        ELSE events
    /\ hist' = [hist EXCEPT !.ahead[n] = IF @ > task[n].next THEN @ ELSE task[n].next]
    /\ UNCHANGED <<plan, raftVars, applied, quarantined, snap, building, cpVars,
                   active, booted>>

\* A mutant of WriteFails: the node halts one namespace too late.
WriteFailsLate(n) ==
    /\ Applying(n)
    /\ Spend("failures")
    /\ LET cmd == log[task[n].next]
           quarantine == IF cmd.op \in {"put", "delete"}
                         THEN quarantined[n] \cup {cmd.ns} ELSE quarantined[n]
       IN  /\ Target(cmd) # {} /\ ~Refused(store[n], quarantined[n], cmd)
           /\ quarantined' = [quarantined EXCEPT ![n] = quarantine]
           /\ IF cmd.op \in {"put", "delete"} /\ Cardinality(quarantine) > HaltThreshold
              THEN /\ applied' = [applied EXCEPT ![n] = task[n].next]
                   /\ Halt(n)
              ELSE /\ Answered(n, Error)
                   /\ UNCHANGED <<applied, waiting>>
           /\ hist' = [hist EXCEPT
                !.failures = @ + 1,
                !.ahead[n] = IF @ > task[n].next THEN @ ELSE task[n].next,
                !.disturbed = IF "map" \in Target(cmd) THEN @ \cup {n} ELSE @,
                !.damaged = IF "domain" \in Target(cmd) THEN @ \cup {n} ELSE @]
    /\ UNCHANGED <<plan, raftVars, store, snap, building, answers, cache, appVars>>

\* The write of the command fails.  A Put or Delete quarantines its namespace,
\* and halts the node, with the entry counted as applied, when that makes
\* HaltThreshold of them; a shard-map command only answers Error.
WriteFails(n) ==
    /\ Applying(n)
    /\ Spend("failures")
    /\ LET cmd == log[task[n].next]
           quarantine == IF cmd.op \in {"put", "delete"}
                         THEN quarantined[n] \cup {cmd.ns} ELSE quarantined[n]
       IN  /\ Target(cmd) # {} /\ ~Refused(store[n], quarantined[n], cmd)
           /\ quarantined' = [quarantined EXCEPT ![n] = quarantine]
           /\ IF cmd.op \in {"put", "delete"} /\ Cardinality(quarantine) >= HaltThreshold
              THEN /\ applied' = [applied EXCEPT ![n] = task[n].next]
                   /\ Halt(n)
              ELSE /\ Answered(n, Error)
                   /\ UNCHANGED <<applied, waiting>>
           /\ hist' = [hist EXCEPT
                !.failures = @ + 1,
                !.ahead[n] = IF @ > task[n].next THEN @ ELSE task[n].next,
                !.disturbed = IF "map" \in Target(cmd) THEN @ \cup {n} ELSE @,
                !.damaged = IF "domain" \in Target(cmd) THEN @ \cup {n} ELSE @]
    /\ UNCHANGED <<plan, raftVars, store, snap, building, answers, cache, appVars>>

\* A mutant of EndApply: the index of the entry before the last is persisted.
EndApplyOffByOne(n) ==
    /\ task[n].pc = "apply" /\ task[n].next > task[n].upto
    /\ applied' = [applied EXCEPT ![n] = task[n].upto - 1]
    /\ answers' = [answers EXCEPT ![n] = @ \cup task[n].resp]
    /\ waiting' = [waiting EXCEPT ![n] = @ \ (1..task[n].upto)]
    /\ task' = [task EXCEPT ![n] = Idle]
    /\ UNCHANGED <<plan, raftVars, store, quarantined, snap, building, cache,
                   appVars, hist>>

\* store_applied after the batch; its answers go to the callers that wait.
EndApply(n) ==
    /\ task[n].pc = "apply" /\ task[n].next > task[n].upto
    /\ applied' = [applied EXCEPT ![n] = task[n].upto]
    /\ answers' = [answers EXCEPT ![n] = @ \cup task[n].resp]
    /\ waiting' = [waiting EXCEPT ![n] = @ \ (1..task[n].upto)]
    /\ task' = [task EXCEPT ![n] = Idle]
    /\ UNCHANGED <<plan, raftVars, store, quarantined, snap, building, cache,
                   appVars, hist>>

\* store_applied fails: apply returns the error, and the batch will be applied
\* again after a restart.
EndApplyFails(n) ==
    /\ task[n].pc = "apply" /\ task[n].next > task[n].upto
    /\ Spend("failures")
    /\ Halt(n)
    /\ hist' = [hist EXCEPT !.failures = @ + 1]
    /\ UNCHANGED <<plan, raftVars, store, applied, quarantined, snap, building,
                   answers, cache, appVars>>

-----------------------------------------------------------------------------
\* A mutant of StartSnapshot: the snapshot is named after the entry that was
\* executed last.
StartSnapshotAtExecuted(n) ==
    /\ building[n] = Absent /\ task[n].pc # "halted"
    /\ Spend("snapshots")
    /\ applied[n] > 0
    /\ building' = [building EXCEPT ![n] =
          [index |-> IF task[n].pc = "apply" THEN task[n].next - 1 ELSE applied[n],
           map |-> Absent, read |-> FALSE, clean |-> FALSE]]
    /\ hist' = [hist EXCEPT !.snapshots = @ + 1]
    /\ UNCHANGED <<plan, raftVars, store, applied, task, quarantined, snap, cpVars,
                   appVars>>

\* build_snapshot, on a clone of the state machine: it loads last_applied, then
\* lists the namespaces one after the other, and persists the snapshot, while
\* entries are applied in between.
StartSnapshot(n) ==
    /\ building[n] = Absent /\ task[n].pc # "halted"
    /\ Spend("snapshots")
    /\ applied[n] > 0
    /\ building' = [building EXCEPT ![n] =
          [index |-> applied[n], map |-> Absent, read |-> FALSE, clean |-> FALSE]]
    /\ hist' = [hist EXCEPT !.snapshots = @ + 1]
    /\ UNCHANGED <<plan, raftVars, store, applied, task, quarantined, snap, cpVars,
                   appVars>>

SnapshotMap(n) ==
    /\ building[n] # Absent /\ ~building[n].read
    /\ building' = [building EXCEPT
                      ![n].map = store[n]["map"], ![n].read = TRUE,
                      ![n].clean = /\ n \notin hist.disturbed
                                   /\ task[n].pc # "install"
                                   /\ hist.ahead[n] = building[n].index]
    /\ UNCHANGED <<plan, raftVars, store, applied, task, quarantined, snap, cpVars,
                   appVars, hist>>

FinishSnapshot(n) ==
    /\ building[n] # Absent /\ building[n].read
    /\ snap' = [snap EXCEPT ![n] =
          [index |-> building[n].index,
           data |-> [Empty EXCEPT !["map"] = building[n].map, !["domain"] = store[n]["domain"]],
           clean |-> building[n].clean,
           whole |-> n \notin hist.damaged /\ task[n].pc # "install",
           ahead |-> hist.ahead[n]]]
    /\ building' = [building EXCEPT ![n] = Absent]
    /\ UNCHANGED <<plan, raftVars, store, applied, task, quarantined, cpVars,
                   appVars, hist>>

\* The raft log is purged up to the snapshot.
Purge(n) ==
    /\ snap[n] # Absent /\ purged[n] < snap[n].index
    /\ purged' = [purged EXCEPT ![n] = snap[n].index]
    /\ UNCHANGED <<plan, log, stored, smVars, cpVars, appVars, hist>>

\* A leader that has purged the next entry of a node sends its snapshot.
BeginInstall(n, m) ==
    /\ task[n].pc = "idle"
    /\ snap[m] # Absent /\ snap[m].index > applied[n] /\ purged[m] > stored[n]
    /\ task' = [task EXCEPT ![n] = [pc |-> "install", step |-> 1, from |-> snap[m]]]
    /\ hist' = [hist EXCEPT !.missed = @ \cup {n}]
    /\ UNCHANGED <<plan, raftVars, store, applied, quarantined, snap, building,
                   cpVars, appVars>>

Installing(n, steps) == task[n].pc = "install" /\ task[n].step \in steps

\* A mutant of Restore: a namespace is not cleared first.
RestoreOver(n) ==
    /\ Installing(n, 1..4)
    /\ LET ns == IF task[n].step <= 2 THEN "map" ELSE "domain"
           value == task[n].from.data[ns]
       IN  store' = IF task[n].step % 2 = 1 \/ value = Absent THEN store
                    ELSE [store EXCEPT ![n][ns] = value]
    /\ task' = [task EXCEPT ![n].step = @ + 1]
    /\ UNCHANGED <<plan, raftVars, applied, quarantined, snap, building, cpVars,
                   appVars, hist>>

\* restore: every namespace is cleared, then filled from the snapshot; every
\* write is durable on its own.
Restore(n) ==
    /\ Installing(n, 1..4)
    /\ LET ns == IF task[n].step <= 2 THEN "map" ELSE "domain"
           value == task[n].from.data[ns]
       IN  store' = IF task[n].step % 2 = 1 THEN [store EXCEPT ![n][ns] = Absent]
                    ELSE IF value = Absent THEN store
                    ELSE [store EXCEPT ![n][ns] = value]
    /\ task' = [task EXCEPT ![n].step = @ + 1]
    /\ UNCHANGED <<plan, raftVars, applied, quarantined, snap, building, cpVars,
                   appVars, hist>>

\* install_snapshot adopts the index of the snapshot,
AdoptIndex(n) ==
    /\ Installing(n, {5})
    /\ applied' = [applied EXCEPT ![n] = task[n].from.index]
    /\ task' = [task EXCEPT ![n].step = @ + 1]
    /\ hist' = [hist EXCEPT
          !.ahead[n] = task[n].from.ahead,
          !.disturbed = IF task[n].from.clean THEN @ \ {n} ELSE @ \cup {n},
          !.damaged = IF task[n].from.whole THEN @ \ {n} ELSE @ \cup {n}]
    /\ UNCHANGED <<plan, raftVars, store, quarantined, snap, building, cpVars, appVars>>

\* and persists it; openraft drops the log it covers.
KeepSnapshot(n) ==
    /\ Installing(n, {6})
    /\ snap' = [snap EXCEPT ![n] = task[n].from]
    /\ stored' = [stored EXCEPT ![n] = IF @ > task[n].from.index THEN @ ELSE task[n].from.index]
    /\ purged' = [purged EXCEPT ![n] = task[n].from.index]
    /\ task' = [task EXCEPT ![n] = Idle]
    /\ UNCHANGED <<plan, log, store, applied, quarantined, building, cpVars, appVars, hist>>

\* A write of the store is missing, or a snapshot was being restored.
Interrupted(n) == task[n].pc = "install" /\ task[n].step \in 2..5

\* A write fails while a snapshot is installed.
InstallFails(n) ==
    /\ task[n].pc = "install"
    /\ Spend("failures")
    /\ Halt(n)
    /\ hist' = [hist EXCEPT !.failures = @ + 1,
                            !.disturbed = IF Interrupted(n) THEN @ \cup {n} ELSE @,
                            !.damaged = IF Interrupted(n) THEN @ \cup {n} ELSE @]
    /\ UNCHANGED <<plan, raftVars, store, applied, quarantined, snap, building,
                   answers, cache, appVars>>

\* The node stops and starts again, a halted one too: only what is durable
\* remains.  openraft resumes behind last_applied and drops a log that ends
\* before it; the control plane computes its map anew, since no answer of raft
\* is ever saved; the application will reconcile.
Restart(n) ==
    /\ Spend("crashes")
    /\ stored' = [stored EXCEPT ![n] = IF @ > applied[n] THEN @ ELSE applied[n]]
    /\ purged' = [purged EXCEPT ![n] = IF stored[n] < applied[n] THEN applied[n] ELSE @]
    /\ task' = [task EXCEPT ![n] = Idle]
    /\ quarantined' = [quarantined EXCEPT ![n] = {}]
    /\ building' = [building EXCEPT ![n] = Absent]
    /\ waiting' = [waiting EXCEPT ![n] = {}]
    /\ answers' = [answers EXCEPT ![n] = {}]
    /\ cache' = [cache EXCEPT ![n] = InitialMap]
    /\ events' = [events EXCEPT ![n] = <<>>]
    /\ booted' = [booted EXCEPT ![n] = FALSE]
    /\ hist' = [hist EXCEPT
          !.crashes = @ + 1,
          !.auto = @ \ {n},
          !.disturbed = IF Interrupted(n) \/ hist.ahead[n] > applied[n]
                        THEN @ \cup {n} ELSE @,
          !.damaged = IF Interrupted(n) THEN @ \cup {n} ELSE @,
          !.missed = IF store[n]["domain"] = Absent /\ active[n] # Absent
                     THEN @ \cup {n} ELSE @ \ {n}]
    /\ UNCHANGED <<plan, log, store, applied, snap, active>>

-----------------------------------------------------------------------------
\* A mutant of Adopted: a failover leaves the owner in place.
AdoptedEpochOnly(m, cmd, response) ==
    CASE response.kind = "token" ->
           [m EXCEPT !.epoch = response.epoch,
                     !.writable = TRUE, !.version = @ + 1]
      [] response.kind = "promoted" ->
           [m EXCEPT !.epoch = response.epoch, !.writable = TRUE, !.version = @ + 1]
      [] response.kind = "no_replica" ->
           [m EXCEPT !.writable = FALSE, !.version = @ + 1]
      [] response.kind = "accepted" ->
           IF response.version > m.version THEN cmd.map ELSE m
      [] OTHER -> m

\* The proposer processes an answer: propose_shard_map_update, failover_shard
\* and failover_shard_auto each bring their own map up to date; the other
\* answers change nothing.
Adopted(m, cmd, response) ==
    CASE response.kind = "token" ->
           [m EXCEPT !.owner = cmd.owner, !.epoch = response.epoch,
                     !.writable = TRUE, !.version = @ + 1]
      [] response.kind = "promoted" ->
           [m EXCEPT !.epoch = response.epoch, !.writable = TRUE, !.version = @ + 1]
      [] response.kind = "no_replica" ->
           [m EXCEPT !.writable = FALSE, !.version = @ + 1]
      [] response.kind = "accepted" ->
           IF response.version > m.version THEN cmd.map ELSE m
      [] OTHER -> m

Answer(n, a) ==
    /\ a \in answers[n]
    /\ answers' = [answers EXCEPT ![n] = @ \ {a}]
    /\ cache' = [cache EXCEPT ![n] = Adopted(@, a.cmd, a.resp)]
    /\ hist' = [hist EXCEPT !.auto = IF a.resp.kind = "promoted" THEN @ \cup {n} ELSE @]
    /\ UNCHANGED <<plan, raftVars, smVars, waiting, appVars>>

\* drain_ontology_activations registers or removes one ontology.
Drain(n) ==
    /\ booted[n] /\ events[n] # <<>>
    /\ active' = [active EXCEPT ![n] = Head(events[n])]
    /\ events' = [events EXCEPT ![n] = Tail(@)]
    /\ UNCHANGED <<plan, raftVars, smVars, cpVars, booted, hist>>

\* On startup every committed ontology in the store is registered; the drain
\* task starts after that.
Reconcile(n) ==
    /\ ~booted[n]
    /\ active' = IF store[n]["domain"] = Absent THEN active
                 ELSE [active EXCEPT ![n] = store[n]["domain"]]
    /\ booted' = [booted EXCEPT ![n] = TRUE]
    /\ UNCHANGED <<plan, raftVars, smVars, cpVars, events, hist>>

Apply(n) == ApplyEntry(n) \/ WriteFails(n) \/ EndApply(n) \/ EndApplyFails(n)
Install(n) == Restore(n) \/ AdoptIndex(n) \/ KeepSnapshot(n) \/ InstallFails(n)
CatchUp(n) ==
    /\ n \in plan.nodes
    /\ \E m \in plan.nodes : Replicate(n, m) \/ BeginInstall(n, m)
Answers(n) == \E a \in answers[n] : Answer(n, a)

Next ==
    \E n \in plan.nodes :
        \/ /\ n \in plan.leaders /\ Len(log) < Len(plan.script)
           /\ \E cmd \in plan.script[Len(log) + 1], awaited \in plan.awaited :
                 Propose(n, cmd, awaited)
        \/ CatchUp(n)
        \/ BeginApply(n)
        \/ Apply(n)
        \/ StartSnapshot(n) \/ SnapshotMap(n) \/ FinishSnapshot(n)
        \/ Purge(n)
        \/ Install(n)
        \/ Restart(n)
        \/ Answers(n)
        \/ Drain(n) \/ Reconcile(n)

Spec == Init /\ [][Next]_vars

\* The raft core of a node, its state machine and the tasks that await its
\* answers and events run whenever they can; nothing else is promised: entries
\* need not be proposed, snapshots need not be built, a node need not restart.
Fairness ==
    \A n \in Node :
        /\ WF_vars(BeginApply(n)) /\ WF_vars(Apply(n)) /\ WF_vars(Install(n))
        /\ WF_vars(CatchUp(n)) /\ WF_vars(Answers(n))
        /\ WF_vars(Drain(n)) /\ WF_vars(Reconcile(n))

FairSpec == Spec /\ Fairness

-----------------------------------------------------------------------------
\* TypeOK: the indices of every node follow each other, and the store, the
\* tasks and the history have their shapes.
TypeOK ==
    /\ plan \in Plan
    /\ Len(log) <= Len(plan.script)
    /\ \A n \in Node :
          /\ {stored[n], purged[n], applied[n], hist.ahead[n]} \subseteq 0..Len(log)
          /\ store[n]["map"] = Absent \/ store[n]["map"].version \in Nat
          /\ task[n].pc \in {"idle", "halted", "apply", "install"}
          /\ quarantined[n] \subseteq Namespaces
          /\ waiting[n] \subseteq 1..Len(log)
          /\ cache[n].version \in Nat /\ booted[n] \in BOOLEAN
          /\ Cardinality(quarantined[n]) >= HaltThreshold => task[n].pc = "halted"

\* RecoverableFromLog: besides the types, a snapshot is never newer than the persisted
\* last_applied of the node that holds it, and no entry after last_applied is
\* purged, so a node that restarts at any moment finds every entry it has yet to
\* apply (build_snapshot takes its index from load_applied, not from the entry
\* that apply() is executing).
RecoverableFromLog ==
    /\ TypeOK
    /\ \A n \in Node :
           /\ purged[n] <= applied[n]
           /\ snap[n] # Absent => snap[n].index <= applied[n]
           /\ building[n] # Absent => building[n].index <= applied[n]

\* MapAgrees: the shard map of a node that is not applying is the one the
\* committed entries up to last_applied make, on every node on which no batch
\* was interrupted before store_applied, no write failed and no snapshot was
\* taken while entries were applied (apply, apply_failover_shard, restore).
MapAgrees ==
    \A n \in Node \ hist.disturbed :
        task[n].pc = "idle" => store[n]["map"] = Replay[applied[n]]["map"]

\* DomainAgrees: Put and Delete may be executed again, so the ontology of a node
\* is the one its log makes once it has applied every entry that ever left a
\* mark in its store, through interrupted batches and snapshots that run ahead
\* of their index; only a failed write and an interrupted restore are excepted.
DomainAgrees ==
    \A n \in Node \ hist.damaged :
        (task[n].pc = "idle" /\ hist.ahead[n] <= applied[n]) =>
            store[n]["domain"] = Replay[applied[n]]["domain"]

\* ActivationFollowsStore: when the application has drained its events, it has
\* registered exactly the ontology in the store, unless a snapshot was installed
\* since the node started or it stopped with a removal not yet drained
\* (drain_ontology_activations, reconcile_ontology).
ActivationFollowsStore ==
    \A n \in Node \ hist.missed :
        (booted[n] /\ events[n] = <<>>) => active[n] = store[n]["domain"]

\* CachedOwnerElected: the owner and epoch a proposer routes by were together in
\* its configuration or in the map the log makes at some index, in whatever
\* order its answers came back, as long as no automatic failover was answered
\* and no node's map was disturbed.
CachedOwnerElected ==
    hist.disturbed = {} =>
        \A n \in Node \ hist.auto :
            \/ cache[n].owner = InitialMap.owner /\ cache[n].epoch = InitialMap.epoch
            \/ \E i \in 1..Len(log) :
                  /\ Replay[i]["map"] # Absent
                  /\ Replay[i]["map"].owner = cache[n].owner
                  /\ Replay[i]["map"].epoch = cache[n].epoch

\* CommittedStateAgrees: what a node holds after an index, in its store and in the
\* map it routes by, is what the log makes of it, whatever batches, crashes,
\* snapshots and answers got it there, with the exceptions named above.
CommittedStateAgrees == MapAgrees /\ DomainAgrees /\ CachedOwnerElected

\* EveryProposalAnswered: a caller of client_write that awaits its answer gets
\* one, or the node halts or stops.
EveryProposalAnswered ==
    (\E n \in Node : waiting[n] # {} \/ answers[n] # {}) ~>
        (\A n \in Node : waiting[n] = {} /\ answers[n] = {})

\* EveryEntryApplied: a node that keeps running applies every committed entry,
\* from its log or from a snapshot (quarantine never blocks the index).
EveryEntryApplied ==
    (\E n \in plan.nodes : task[n].pc # "halted" /\ applied[n] < Len(log)) ~>
        (\A n \in plan.nodes : task[n].pc = "halted" \/ applied[n] = Len(log))

\* NothingLeftPending: every entry is applied and every proposal answered.
NothingLeftPending == EveryProposalAnswered /\ EveryEntryApplied

\* StateMachinesAgree: two nodes that have both applied the same entries, and all
\* entries that ever left a mark in their stores, hold the same shard map.  The
\* module says that this metadata "must stay consistent across the cluster with
\* a single elected owner per shard" (control_raft.rs:5-7).
StateMachinesAgree ==
    \A m, n \in Node :
        (/\ task[m].pc = "idle" /\ task[n].pc = "idle"
         /\ applied[m] = applied[n]
         /\ {hist.ahead[m], hist.ahead[n]} \subseteq 0..applied[n]) =>
            store[m]["map"] = store[n]["map"]

=============================================================================
