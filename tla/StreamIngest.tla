----------------------------- MODULE StreamIngest -----------------------------
(***************************************************************************)
(* IngestionPipeline::run of nexora-stream with a Kafka or a Kinesis       *)
(* source, the graph as its sink, and (Kafka only, as nexora-app wires it) *)
(* offset-aligned checkpoints. Three things run at once: the select loop   *)
(* that polls, commits and checkpoints; the processor task behind a        *)
(* bounded channel; and the flush of the graph's shards inside a           *)
(* checkpoint. A crash keeps the saved offsets, the manifests and what of  *)
(* the graph is on disk.                                                   *)
(***************************************************************************)
EXTENDS StreamSource, CheckpointStore, Sequences

CONSTANTS
    Shard,          \* graph shards
    ShardOf(_),     \* the graph shard of a record's node
    ChannelSize,    \* capacity of the batch channel
    MaxAttempts,    \* attempts of retry_with_backoff
    Plan            \* workloads: source kind, records produced, fault budgets

ASSUME StreamIngestAssumption ==
    /\ None \notin Nat
    /\ ChannelSize \in Nat
    /\ MaxAttempts \in Nat \ {0}
    /\ Plan \subseteq [kind : {"kafka", "kinesis"}, ends : [Partition -> Nat],
                        crashes : Nat, stops : Nat, polls : Nat, commits : Nat,
                        batches : Nat, nodes : Nat, checkpoints : Nat, saves : Nat]
    /\ \A w \in Plan : \A p \in Partition : \A o \in 0 .. w.ends[p] - 1 :
           ShardOf(<<p, o>>) \in Shard

VARIABLES
    plan,       \* the workload of this behaviour and what is left of its faults
    source,     \* the source (StreamSource)
    loop,       \* the select loop: where it is, its batch, its poll attempt, its checkpoint
    channel,    \* batches sent and not yet received
    proc,       \* the batch the processor handles and the records still to write
    latest,     \* latest_offsets: last applied offset per partition
    memory,     \* records the live graph holds
    disk,       \* records a restart recovers
    barrier,    \* the process's barrier scheduler
    files,      \* checkpoint manifests on disk
    lost,       \* history: why records may be missing, by cause
    acked       \* history: offsets of the last checkpoint that returned Ok

vars == <<plan, source, loop, channel, proc, latest, memory, disk, barrier, files, lost, acked>>

graph == <<memory, disk>>
history == <<lost, acked>>

NoBatch == [records |-> {}, partition |-> None, offset |-> None]
NoOffsets == [p \in Partition |-> None]
Idle == [batch |-> NoBatch, todo |-> {}]
NoCheckpoint == [epoch |-> 0, offsets |-> NoOffsets, todo |-> {}]

At(place) == [at |-> place, batch |-> NoBatch, attempt |-> 0, ckpt |-> NoCheckpoint]

Causes == {"failed", "unflushed", "dropped", "resumed"}

AllRecords == UNION {Records(p, 0, plan.ends[p]) : p \in Partition}

Init ==
    /\ plan \in Plan
    /\ source = NewSource
    /\ loop = At("start")
    /\ channel = <<>>
    /\ proc = Idle
    /\ latest = NoOffsets
    /\ memory = {} /\ disk = {}
    /\ barrier = NewBarrier
    /\ files = {}
    /\ lost = [c \in Causes |-> {}]
    /\ acked = NoOffsets

Spend(budget) == plan[budget] > 0 /\ plan' = [plan EXCEPT ![budget] = @ - 1]

-----------------------------------------------------------------------------
(* Start: recover_and_resume, seed_recovery, connect, seek. *)

Resume ==
    IF plan.kind = "kafka" /\ files # {}
      THEN (CHOOSE m \in LoadLatest(files) : TRUE).offsets
      ELSE NoOffsets

Skipped(offsets) ==
    (UNION {Records(p, 0, source.saved[p]) : p \in {q \in Partition : offsets[q] = None}}) \ disk

StartUnseeded ==
    /\ loop.at = "start"
    /\ latest' = NoOffsets
    /\ source' = Seek(Connect(source), Resume)
    /\ loop' = At("select")
    /\ lost' = [lost EXCEPT !["resumed"] = @ \cup Skipped(Resume)]
    /\ UNCHANGED <<plan, channel, proc, graph, barrier, files, acked>>

Start ==
    /\ loop.at = "start"
    /\ latest' = Resume
    /\ source' = Seek(Connect(source), Resume)
    /\ loop' = At("select")
    /\ lost' = [lost EXCEPT !["resumed"] = @ \cup Skipped(Resume)]
    /\ UNCHANGED <<plan, channel, proc, graph, barrier, files, acked>>

(* A failed connect or seek ends the task. *)
StartFails ==
    /\ loop.at = "start"
    /\ Spend("stops")
    /\ latest' = Resume
    /\ loop' = At("stopped")
    /\ UNCHANGED <<source, channel, proc, graph, barrier, files, history>>

-----------------------------------------------------------------------------
(* The poll arm. *)

PollOneMessage(p) ==
    /\ loop.at = "select"
    /\ plan.kind = "kafka"
    /\ source.pos[p] < plan.ends[p]
    /\ source' = PollKafka(source, p).source
    /\ loop' = [At("send") EXCEPT !.batch = PollKafka(source, p).batch]
    /\ UNCHANGED <<plan, channel, proc, latest, graph, barrier, files, history>>

Polling == loop.at = "select" /\ plan.kind = "kinesis"

PollShards(p) ==
    /\ Polling
    /\ BreakerState(source) # "open"
    /\ source.pos[p] < plan.ends[p]
    /\ source' = PollKinesis(source, plan.ends, p).source
    /\ loop' = [At("send") EXCEPT !.batch = PollKinesis(source, plan.ends, p).batch]
    /\ UNCHANGED <<plan, channel, proc, latest, graph, barrier, files, history>>

PollFindsNothing ==
    /\ Polling
    /\ BreakerState(source) # "open"
    /\ source.pos = plan.ends
    /\ source' = PollNothing(source)
    /\ loop' = At("select")
    /\ UNCHANGED <<plan, channel, proc, latest, graph, barrier, files, history>>

(* After the last attempt poll() returns the error and the loop polls again. *)
Retried == [loop EXCEPT !.attempt = IF @ + 1 < MaxAttempts THEN @ + 1 ELSE 0]

PollShardsFails(shards) ==
    /\ Polling
    /\ BreakerState(source) # "open"
    /\ shards # Partition
    /\ Spend("polls")
    /\ source' = PollKinesisFails(source, plan.ends, shards)
    /\ loop' = Retried
    /\ lost' = [lost EXCEPT !["dropped"] = @ \cup Fetched(source, plan.ends, shards)]
    /\ UNCHANGED <<channel, proc, latest, graph, barrier, files, acked>>

PollRejected ==
    /\ Polling
    /\ BreakerState(source) = "open"
    /\ loop' = Retried
    /\ UNCHANGED <<plan, source, channel, proc, latest, graph, barrier, files, history>>

BreakerTimeout ==
    /\ source.recent /\ source.fails >= FailureThreshold
    /\ source' = [source EXCEPT !.recent = FALSE]
    /\ UNCHANGED <<plan, loop, channel, proc, latest, graph, barrier, files, history>>

SendUnbounded ==
    /\ loop.at = "send"
    /\ channel' = Append(channel, loop.batch)
    /\ loop' = [loop EXCEPT !.at = "commit"]
    /\ UNCHANGED <<plan, source, proc, latest, graph, barrier, files, history>>

SendBatch ==
    /\ loop.at = "send"
    /\ Len(channel) < ChannelSize
    /\ channel' = Append(channel, loop.batch)
    /\ loop' = [loop EXCEPT !.at = "commit"]
    /\ UNCHANGED <<plan, source, proc, latest, graph, barrier, files, history>>

Commit(part, offset) ==
    IF plan.kind = "kafka" THEN CommitKafka(source, part, offset)
                           ELSE CommitKinesis(source, part, offset)

CommitSent ==
    /\ loop.at = "commit"
    /\ source' = Commit(loop.batch.partition, loop.batch.offset)
    /\ loop' = At("select")
    /\ UNCHANGED <<plan, channel, proc, latest, graph, barrier, files, history>>

(* The result of commit is ignored; the stats were updated before it failed. *)
CommitFails ==
    /\ loop.at = "commit"
    /\ Spend("commits")
    /\ source' = Noted(source, loop.batch.partition, loop.batch.offset)
    /\ loop' = At("select")
    /\ UNCHANGED <<channel, proc, latest, graph, barrier, files, history>>

(* The commit timer's arm. *)
CommitTick ==
    /\ loop.at = "select" /\ loop.attempt = 0
    /\ source.last # None
    /\ source' = Commit(source.last.partition, source.last.offset)
    /\ UNCHANGED <<plan, loop, channel, proc, latest, graph, barrier, files, history>>

-----------------------------------------------------------------------------
(* The processor task: GraphIngestHandler::handle_batch writes node by node,
   with Relaxed durability. *)

Receive ==
    /\ proc = Idle
    /\ channel # <<>>
    /\ proc' = [batch |-> Head(channel), todo |-> Head(channel).records]
    /\ channel' = Tail(channel)
    /\ UNCHANGED <<plan, source, loop, latest, graph, barrier, files, history>>

WriteRecord(r) ==
    /\ r \in proc.todo
    /\ memory' = memory \cup {r}
    /\ proc' = [proc EXCEPT !.todo = @ \ {r}]
    /\ UNCHANGED <<plan, source, loop, channel, latest, disk, barrier, files, history>>

BatchDone ==
    /\ proc # Idle
    /\ proc.todo = {}
    /\ latest' = [latest EXCEPT ![proc.batch.partition] = proc.batch.offset]
    /\ proc' = Idle
    /\ UNCHANGED <<plan, source, loop, channel, graph, barrier, files, history>>

(* An error is counted and logged; the offset is not tracked, the batch is gone. *)
BatchFails ==
    /\ proc.todo # {}
    /\ Spend("batches")
    /\ proc' = Idle
    /\ lost' = [lost EXCEPT !["failed"] = @ \cup proc.todo]
    /\ UNCHANGED <<source, loop, channel, latest, graph, barrier, files, acked>>

-----------------------------------------------------------------------------
(* The checkpoint timer's arm. *)

BeginCheckpoint ==
    /\ loop.at = "select"
    /\ plan.kind = "kafka"
    /\ latest # NoOffsets
    /\ Spend("checkpoints")
    /\ barrier' = CreateBarrier(barrier)
    /\ loop' = [At("flush") EXCEPT !.ckpt = [epoch |-> barrier.current, offsets |-> latest,
                                            todo |-> Shard]]
    /\ UNCHANGED <<source, channel, proc, latest, graph, files, history>>

OfShard(s, recs) == {r \in recs : ShardOf(r) = s}

(* flush_shard: every node of the shard is put to sleep under the shard's lock;
   a node that cannot be is logged and counted as not flushed. *)
FlushShard(s, failing) ==
    /\ loop.at = "flush"
    /\ s \in loop.ckpt.todo
    /\ IF failing = {} THEN UNCHANGED plan ELSE Spend("nodes")
    /\ disk' = disk \cup (OfShard(s, memory) \ failing)
    /\ loop' = [loop EXCEPT !.ckpt.todo = @ \ {s}]
    /\ lost' = [lost EXCEPT !["unflushed"] = @ \cup failing]
    /\ UNCHANGED <<source, channel, proc, latest, memory, barrier, files, acked>>

ManifestOfNow == [epoch |-> loop.ckpt.epoch, offsets |-> latest]

Manifest == [epoch |-> loop.ckpt.epoch, offsets |-> loop.ckpt.offsets]

Flushed == loop.at = "flush" /\ loop.ckpt.todo = {}

(* All shards are reported, the manifest is saved, old ones are cleaned up. *)
SaveCheckpoint ==
    /\ Flushed
    /\ barrier' = ReportShards(barrier, loop.ckpt.epoch)
    /\ files' = SaveManifest(files, Manifest)
    /\ acked' = loop.ckpt.offsets
    /\ loop' = At("select")
    /\ UNCHANGED <<plan, source, channel, proc, latest, graph, lost>>

(* save_manifest fails: before the rename, or after it and before the clean-up. *)
SaveFails(renamed) ==
    /\ Flushed
    /\ Spend("saves")
    /\ barrier' = ReportShards(barrier, loop.ckpt.epoch)
    /\ files' = IF renamed THEN Renamed(files, Manifest) ELSE files
    /\ loop' = At("select")
    /\ UNCHANGED <<source, channel, proc, latest, graph, history>>

-----------------------------------------------------------------------------
(* The process dies and a new one starts. Of the writes that were not flushed,
   the graph's own log has synced none or all. *)
Crash(kept) ==
    /\ Spend("crashes")
    /\ disk' = disk \cup kept
    /\ memory' = disk \cup kept
    /\ loop' = At("start")
    /\ channel' = <<>>
    /\ proc' = Idle
    /\ latest' = NoOffsets
    /\ barrier' = NewBarrier
    /\ UNCHANGED <<source, files, history>>

Poll ==
    \/ \E p \in Partition : PollOneMessage(p) \/ PollShards(p)
    \/ \E shards \in SUBSET Partition : PollShardsFails(shards)
    \/ PollFindsNothing
    \/ PollRejected

Checkpoint ==
    \/ BeginCheckpoint
    \/ \E s \in Shard : \E failing \in SUBSET OfShard(s, memory \ disk) : FlushShard(s, failing)
    \/ SaveCheckpoint
    \/ \E renamed \in BOOLEAN : SaveFails(renamed)

Process ==
    \/ Receive
    \/ \E r \in AllRecords : WriteRecord(r)
    \/ BatchDone
    \/ BatchFails

Next ==
    \/ Start \/ StartFails
    \/ Poll \/ BreakerTimeout \/ SendBatch \/ CommitSent \/ CommitFails \/ CommitTick
    \/ Process
    \/ Checkpoint
    \/ \E kept \in {{}, memory \ disk} : Crash(kept)

Spec == Init /\ [][Next]_vars

(* The executor runs both tasks, and a started checkpoint, poll or commit goes on.
   tokio::select picks its ready arm at random, so the poll arm is fair although
   other arms are ready too. *)
FairSpec ==
    /\ Spec
    /\ WF_vars(Start)
    /\ SF_vars(Poll) /\ WF_vars(BreakerTimeout) /\ WF_vars(SendBatch)
    /\ WF_vars(CommitSent \/ CommitFails)
    /\ WF_vars(Process)
    /\ WF_vars(loop.at = "flush" /\ Checkpoint)

-----------------------------------------------------------------------------
(* Properties. *)

Excused == UNION {lost[c] : c \in Causes}

InFlight ==
    loop.batch.records \cup proc.todo \cup UNION {channel[i].records : i \in DOMAIN channel}

(* Every variable has its type; the channel never holds more than its capacity, and
   the breaker never counts past its threshold. *)
TypeOK ==
    /\ loop.at \in {"start", "select", "send", "commit", "flush", "stopped"}
    /\ loop.attempt \in 0 .. MaxAttempts - 1
    /\ Len(channel) <= ChannelSize
    /\ source.fails \in 0 .. FailureThreshold
    /\ \A p \in Partition : source.pos[p] \in 0 .. plan.ends[p]
    /\ disk \subseteq memory /\ memory \subseteq AllRecords

(* checkpoint() captures the offsets before it flushes and saves the manifest after:
   a manifest never names an offset at or below which a record is not on disk, except
   one whose batch or whose node's flush failed, or that an earlier restart passed by
   (types included). *)
ManifestCovered ==
    /\ TypeOK
    /\ \A m \in files, p \in Partition :
           m.offsets[p] # None => Records(p, 0, m.offsets[p] + 1) \subseteq disk \cup Excused

(* The consumer never moves past a record that is neither applied nor on its way to
   the graph, whatever the order of polls, sends, commits, checkpoints, crashes and
   seeks. A record that is missing has one of four causes: its batch failed; the flush
   of its node failed; a Kinesis round that had read it failed; or a restart found no
   manifest for its partition and took the offset committed when it was sent. *)
NothingSkipped ==
    loop.at \notin {"start", "stopped"} =>
        \A p \in Partition :
            Records(p, 0, source.pos[p]) \subseteq memory \cup InFlight \cup Excused

(* What a restart would resume from never moves backwards, although every process
   numbers its epochs from one and its first manifests have lower epochs than those
   an earlier process left. *)
ResumeNeverBackwards ==
    [][\A p \in Partition : Resume[p] # None => Resume'[p] # None /\ Resume'[p] >= Resume[p]]_vars

(* Once the faults are over, every record that was produced reaches the graph, unless
   it was lost to one of the four causes or the task ended. *)
EveryRecordIngested ==
    <>[](loop.at = "stopped" \/ AllRecords \subseteq memory \cup Excused)

(* "Recovery resumes from these offsets, so a post-checkpoint crash replays only what
   came after": a restart resumes at or after the last checkpoint that returned Ok. *)
CheckpointHonoured ==
    \A p \in Partition : acked[p] # None => Resume[p] # None /\ Resume[p] >= acked[p]
===============================================================================
