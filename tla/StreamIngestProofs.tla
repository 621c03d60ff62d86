-------------------------- MODULE StreamIngestProofs --------------------------
(***************************************************************************)
(* A checkpoint manifest covers only what is on disk, and the consumer     *)
(* moves past no record that is not applied, on its way or lost to one of  *)
(* the four causes, and a restart resumes no partition before the manifest *)
(* its process had started from, for any partitions, shards, channel,      *)
(* retries and fault budgets.                                              *)
(***************************************************************************)
EXTENDS StreamIngest, TLAPS, FiniteSetTheorems, SequenceTheorems

\* The records of p up to and including offset o.
Upto(p, o) == Records(p, 0, o + 1)

\* The records that the processor will still get or is writing.  (In "commit" the
\* loop's batch is already in the channel or past it.)
Flight ==
    (IF loop.at = "send" THEN loop.batch.records ELSE {})
      \cup proc.todo \cup UNION {channel[i].records : i \in DOMAIN channel}

Kafka == plan.kind = "kafka"

\* A batch of Kafka is one message the consumer has moved past.
Message(b) ==
    /\ b.partition \in Partition
    /\ b.offset \in Nat
    /\ b.offset < source.pos[b.partition]
    /\ b.records = {<<b.partition, b.offset>>}

\* Messages of one partition are in the order of their offsets.
Before(b, c) == b.partition = c.partition => b.offset < c.offset

\* What a finite sequence of whatever elements is.
IsSeq(s) == \E S : s \in Seq(S)

SourceShape ==
    /\ DOMAIN source = {"pos", "seq", "count", "saved", "last", "fails", "recent"}
    /\ source.fails \in 0 .. FailureThreshold
    /\ source.pos \in [Partition -> Nat]
    /\ source.seq \in [Partition -> Nat]
    /\ source.saved \in [Partition -> Nat]
    /\ \A p \in Partition : /\ source.pos[p] <= plan.ends[p]
                            /\ source.seq[p] <= plan.ends[p]
                            /\ source.saved[p] <= plan.ends[p]
    /\ (Kafka /\ source.last # None) =>
          /\ source.last.partition \in Partition
          /\ source.last.offset \in Nat
          /\ source.last.offset < plan.ends[source.last.partition]

LoopShape ==
    /\ DOMAIN loop = {"at", "batch", "attempt", "ckpt"}
    /\ loop.at \in {"start", "select", "send", "commit", "flush", "stopped"}
    /\ loop.attempt \in 0 .. MaxAttempts - 1
    /\ loop.batch.records \subseteq AllRecords
    /\ DOMAIN loop.ckpt = {"epoch", "offsets", "todo"}
    /\ loop.at \in {"start", "stopped"} => channel = <<>> /\ proc = Idle

TaskShape ==
    /\ IsSeq(channel)
    /\ Len(channel) <= ChannelSize
    /\ \A i \in DOMAIN channel : channel[i].records \subseteq AllRecords
    /\ DOMAIN proc = {"batch", "todo"}
    /\ proc.todo \subseteq proc.batch.records
    /\ proc.batch.records \subseteq AllRecords
    /\ disk \subseteq memory /\ memory \subseteq AllRecords
    /\ DOMAIN lost = Causes

Workload(w) ==
    /\ w \in [kind : {"kafka", "kinesis"}, ends : [Partition -> Nat],
              crashes : Nat, stops : Nat, polls : Nat, commits : Nat,
              batches : Nat, nodes : Nat, checkpoints : Nat, saves : Nat]
    /\ \A p \in Partition : \A o \in 0 .. w.ends[p] - 1 : ShardOf(<<p, o>>) \in Shard

\* Nothing is passed by.
Reached ==
    loop.at \notin {"start", "stopped"} =>
        \A p \in Partition : Records(p, 0, source.pos[p]) \subseteq memory \cup Flight \cup Excused

\* In Kafka's case the processor gets the messages of a partition in order, and has
\* written what it is done with.
InOrder ==
    Kafka =>
        /\ loop.at \in {"send", "commit"} => Message(loop.batch)
        /\ \A i \in DOMAIN channel : Message(channel[i])
        /\ proc # Idle => Message(proc.batch) /\ proc.batch.records \ proc.todo \subseteq memory
        /\ \A i, j \in DOMAIN channel : i < j => Before(channel[i], channel[j])
        /\ proc # Idle => \A i \in DOMAIN channel : Before(proc.batch, channel[i])
        /\ loop.at = "send" => /\ \A i \in DOMAIN channel : Before(channel[i], loop.batch)
                               /\ proc # Idle => Before(proc.batch, loop.batch)

Offsets == [Partition -> Nat \cup {None}]

\* Every record up to the offsets is in S or lost.
Covers(S, offsets) ==
    \A p \in Partition : offsets[p] # None =>
        offsets[p] < plan.ends[p] /\ Upto(p, offsets[p]) \subseteq S \cup Excused

\* What a running checkpoint has flushed.
Flushing(offsets) ==
    \A p \in Partition : offsets[p] # None =>
        \A r \in Upto(p, offsets[p]) : ShardOf(r) \in loop.ckpt.todo \/ r \in disk \cup Excused

\* The offsets the processor tracks, the ones a checkpoint has captured, and the
\* ones of the manifests.
Tracked ==
    /\ barrier \in [current : Nat, committed : Nat]
    /\ latest \in [Partition -> Nat \cup {None}] \/ ~Kafka
    /\ Kafka => Covers(memory, latest)
    /\ loop.at = "flush" =>
          /\ Kafka
          /\ loop.ckpt.epoch \in Nat
          /\ loop.ckpt.offsets \in Offsets
          /\ Covers(memory, loop.ckpt.offsets)
          /\ Flushing(loop.ckpt.offsets)

Stored ==
    /\ ~Kafka => files = {}
    /\ files # {} => LoadLatest(files) # {}
    /\ \A m \in files : m.epoch \in Nat /\ m.offsets \in Offsets /\ Covers(disk, m.offsets)

IInv ==
    /\ Workload(plan) /\ SourceShape /\ LoopShape /\ TaskShape
    /\ Reached /\ InOrder /\ Tracked /\ Stored
-----------------------------------------------------------------------------
(* Helpers.                                                                *)

\* Appending to a sequence of whatever elements.
LEMMA AppendSeq ==
    ASSUME NEW s, IsSeq(s), NEW e
    PROVE  /\ Len(s) \in Nat /\ DOMAIN s = 1 .. Len(s)
           /\ IsSeq(Append(s, e))
           /\ Len(Append(s, e)) = Len(s) + 1
           /\ DOMAIN Append(s, e) = 1 .. Len(s) + 1
           /\ \A i \in 1 .. Len(s) : Append(s, e)[i] = s[i]
           /\ Append(s, e)[Len(s) + 1] = e
<1>1. PICK S : s \in Seq(S)
  BY DEF IsSeq
<1>2. s \in Seq(S \cup {e})
  BY <1>1
<1> QED
  BY <1>2 DEF IsSeq

\* Taking the head off one.
LEMMA TailSeq ==
    ASSUME NEW s, IsSeq(s), s # <<>>
    PROVE  /\ Len(s) \in Nat /\ DOMAIN s = 1 .. Len(s) /\ 1 \in DOMAIN s
           /\ Head(s) = s[1]
           /\ IsSeq(Tail(s))
           /\ Len(Tail(s)) = Len(s) - 1
           /\ DOMAIN Tail(s) = 1 .. Len(s) - 1
           /\ \A i \in 1 .. Len(s) - 1 : Tail(s)[i] = s[i + 1]
<1>1. PICK S : s \in Seq(S)
  BY DEF IsSeq
<1> QED
  BY <1>1 DEF IsSeq

\* No step changes what the workload produces.
LEMMA SamePlan ==
    ASSUME Workload(plan), [Next]_vars
    PROVE  /\ Workload(plan)'
           /\ plan'.ends = plan.ends /\ plan'.kind = plan.kind
           /\ AllRecords' = AllRecords
<1>1. ASSUME NEW b \in {"crashes", "stops", "polls", "commits", "batches", "nodes",
                        "checkpoints", "saves"},
             Spend(b)
      PROVE  Workload(plan)' /\ plan'.ends = plan.ends /\ plan'.kind = plan.kind
  BY <1>1 DEF Workload, Spend
<1>2. UNCHANGED plan \/ \E b \in {"crashes", "stops", "polls", "commits", "batches", "nodes",
                                  "checkpoints", "saves"} : Spend(b)
  BY DEF Next, vars, Start, StartFails, Poll, PollOneMessage, PollShards, PollShardsFails,
     PollFindsNothing, PollRejected, BreakerTimeout, SendBatch, CommitSent, CommitFails,
     CommitTick, Process, Receive, WriteRecord, BatchDone, BatchFails, Checkpoint,
     BeginCheckpoint, FlushShard, SaveCheckpoint, SaveFails, Crash
<1>3. Workload(plan)' /\ plan'.ends = plan.ends /\ plan'.kind = plan.kind
  BY <1>1, <1>2 DEF Workload
<1> QED
  BY <1>3 DEF AllRecords

\* Ranges of records.
LEMMA RecordsFacts ==
    ASSUME NEW p
    PROVE  /\ \A a, b : \A r : r \in Records(p, a, b) <=> \E o \in a .. b - 1 : r = <<p, o>>
           /\ \A n \in Nat : Records(p, 0, n + 1) = Records(p, 0, n) \cup {<<p, n>>}
           /\ \A a, b \in Nat : a <= b => /\ Records(p, 0, a) \subseteq Records(p, 0, b)
                                          /\ Records(p, 0, b) = Records(p, 0, a) \cup Records(p, a, b)
  BY DEF Records

\* A range within what is produced.
LEMMA InAllRecords ==
    ASSUME Workload(plan), NEW p \in Partition, NEW a \in Nat, NEW b \in Nat, b <= plan.ends[p]
    PROVE  Records(p, a, b) \subseteq AllRecords
<1>1. plan.ends[p] \in Nat
  BY DEF Workload
<1>2. Records(p, a, b) \subseteq Records(p, 0, plan.ends[p])
  BY <1>1 DEF Records
<1> QED
  BY <1>2 DEF AllRecords

\* The clean-up and the rename leave a latest manifest.
LEMMA Latest ==
    ASSUME NEW S, \A f \in S : f.epoch \in Nat, S # {} => LoadLatest(S) # {},
           NEW m, m.epoch \in Nat
    PROVE  /\ Renamed(S, m) \subseteq S \cup {m} /\ LoadLatest(Renamed(S, m)) # {}
           /\ SaveManifest(S, m) \subseteq S \cup {m} /\ LoadLatest(SaveManifest(S, m)) # {}
<1> DEFINE R == Renamed(S, m)
<1>1. R \subseteq S \cup {m} /\ m \in R
  BY DEF Renamed
<1>2. PICK f \in R : \A g \in R : g.epoch <= f.epoch
  <2>1. CASE \E f \in S : f.epoch > m.epoch
    <3>1. PICK f \in S : \A g \in S : g.epoch <= f.epoch
      BY <2>1 DEF LoadLatest
    <3>2. f.epoch > m.epoch
      BY <2>1, <3>1
    <3>3. f \in R
      BY <3>1, <3>2 DEF Renamed
    <3> QED
      BY <1>1, <3>1, <3>2, <3>3
  <2>2. CASE \A f \in S : ~(f.epoch > m.epoch)
    BY <1>1, <2>2
  <2> QED
    BY <2>1, <2>2
<1> HIDE DEF R
<1>3. {g \in R : g.epoch > f.epoch} = {}
  BY <1>1, <1>2
<1>4. f \in KeepLatest(R)
  <2>1. Cardinality({g \in R : g.epoch > f.epoch}) < 2
    BY <1>3, FS_EmptySet
  <2> QED
    BY <1>2, <2>1 DEF KeepLatest
<1>5. KeepLatest(R) \subseteq R
  BY DEF KeepLatest
<1> QED
  BY <1>1, <1>2, <1>4, <1>5 DEF LoadLatest, SaveManifest, R

\* A restart resumes from offsets the disk covers.
LEMMA ResumeCovered ==
    ASSUME Stored
    PROVE  Resume \in Offsets /\ Covers(disk, Resume)
<1>1. CASE plan.kind = "kafka" /\ files # {}
  <2>1. (CHOOSE m \in LoadLatest(files) : TRUE) \in LoadLatest(files)
    BY <1>1 DEF Stored
  <2>2. LoadLatest(files) \subseteq files
    BY DEF LoadLatest
  <2> QED
    BY <1>1, <2>1, <2>2 DEF Stored, Resume
<1>2. CASE ~(plan.kind = "kafka" /\ files # {})
  BY <1>2 DEF Resume, NoOffsets, Offsets, Covers
<1> QED
  BY <1>1, <1>2

\* The invariant holds of the first process.
LEMMA InitIInv == Init => IInv
<1> SUFFICES ASSUME Init PROVE IInv
  OBVIOUS
<1>1. Workload(plan)
  BY StreamIngestAssumption DEF Init, Workload
<1>2. SourceShape
  BY <1>1, StreamSourceAssumption DEF Init, SourceShape, NewSource, Zeros, Workload
<1>3. LoopShape
  BY StreamIngestAssumption DEF Init, LoopShape, At, NoBatch, NoCheckpoint
<1>4. TaskShape
  <2>1. <<>> \in Seq({})
    OBVIOUS
  <2> QED
    BY <2>1, StreamIngestAssumption DEF Init, TaskShape, IsSeq, Idle, NoBatch
<1>5. Reached /\ InOrder
  BY DEF Init, Reached, InOrder, At, Idle
<1>6. Tracked
  BY DEF Init, Tracked, At, NewBarrier, NoOffsets, Covers
<1>7. Stored
  BY DEF Init, Stored
<1> QED
  BY <1>1, <1>2, <1>3, <1>4, <1>5, <1>6, <1>7 DEF IInv
-----------------------------------------------------------------------------
(* Every conjunct is preserved.                                            *)

\* What GetRecords does to the cursors.
LEMMA Cursors ==
    ASSUME Workload(plan), SourceShape, NEW shards \in SUBSET Partition
    PROVE  LET s == GetRecords(source, plan.ends, shards)
           IN  /\ DOMAIN s = DOMAIN source
               /\ s.pos \in [Partition -> Nat] /\ s.seq \in [Partition -> Nat]
               /\ \A p \in Partition :
                    /\ ReadEnd(source, plan.ends, p) \in Nat
                    /\ source.pos[p] <= ReadEnd(source, plan.ends, p)
                    /\ ReadEnd(source, plan.ends, p) <= plan.ends[p]
                    /\ s.pos[p] = IF p \in shards THEN ReadEnd(source, plan.ends, p)
                                                  ELSE source.pos[p]
                    /\ s.seq[p] <= plan.ends[p]
               /\ s.saved = source.saved /\ s.last = source.last
               /\ s.fails = source.fails /\ s.recent = source.recent
<1> DEFINE E(p) == ReadEnd(source, plan.ends, p)
<1>1. \A p \in Partition : E(p) \in Nat /\ source.pos[p] <= E(p) /\ E(p) <= plan.ends[p]
  BY StreamSourceAssumption DEF Workload, SourceShape, ReadEnd
<1> HIDE DEF E
<1> DEFINE pos == [p \in Partition |-> IF p \in shards THEN E(p) ELSE source.pos[p]]
           seq == [p \in Partition |-> IF p \in shards /\ source.pos[p] < plan.ends[p]
                                         THEN E(p) ELSE source.seq[p]]
<1>2. GetRecords(source, plan.ends, shards) = [source EXCEPT !.pos = pos, !.seq = seq]
  BY DEF GetRecords, E
<1>3. pos \in [Partition -> Nat] /\ seq \in [Partition -> Nat]
      /\ \A p \in Partition : seq[p] <= plan.ends[p]
  BY <1>1 DEF Workload, SourceShape
<1>4. \A p \in Partition : pos[p] = IF p \in shards THEN E(p) ELSE source.pos[p]
  OBVIOUS
<1> HIDE DEF pos, seq
<1>5. LET s == GetRecords(source, plan.ends, shards)
      IN  /\ DOMAIN s = DOMAIN source
          /\ s.pos = pos /\ s.seq = seq
          /\ s.saved = source.saved /\ s.last = source.last
          /\ s.fails = source.fails /\ s.recent = source.recent
  BY <1>2 DEF SourceShape
<1> QED
  BY <1>1, <1>3, <1>4, <1>5 DEF E

\* The cursors stay within what is produced.
LEMMA SourceStep == IInv /\ [Next]_vars => SourceShape'
<1> SUFFICES ASSUME IInv, [Next]_vars PROVE SourceShape'
  OBVIOUS
<1>p. /\ plan'.ends = plan.ends /\ plan'.kind = plan.kind /\ plan.ends \in [Partition -> Nat]
      /\ Kafka' = Kafka
  BY SamePlan DEF IInv, Workload, Kafka
<1> USE DEF IInv, SourceShape
<1>1. CASE UNCHANGED source
  BY <1>1, <1>p
<1>2. CASE Start
  <2> DEFINE pos == [p \in Partition |-> IF Resume[p] = None THEN source.saved[p]
                                                             ELSE Resume[p] + 1]
  <2>1. Resume \in Offsets /\ Covers(disk, Resume)
    BY ResumeCovered
  <2>2. source' = [NewSource EXCEPT !.pos = pos, !.saved = source.saved]
    BY <1>2, Zenon DEF Start, Seek, Connect, NewSource
  <2>3. pos \in [Partition -> Nat] /\ \A p \in Partition : pos[p] <= plan.ends[p]
    BY <1>p, <2>1 DEF Offsets, Covers
  <2> HIDE DEF pos
  <2> QED
    BY <1>p, <2>2, <2>3, StreamSourceAssumption DEF NewSource, Zeros
<1>3. ASSUME NEW p \in Partition, PollOneMessage(p) PROVE SourceShape'
  BY <1>3, <1>p DEF PollOneMessage, PollKafka
<1>4. ASSUME NEW p \in Partition, PollShards(p) PROVE SourceShape'
  <2> DEFINE G == GetRecords(source, plan.ends, Partition)
             n == G.count + Cardinality(Fetched(source, plan.ends, Partition))
  <2>1. source' = [G EXCEPT !.count = n, !.fails = 0]
    BY <1>4 DEF PollShards, PollKinesis
  <2>2. /\ DOMAIN G = DOMAIN source
        /\ G.pos \in [Partition -> Nat] /\ G.seq \in [Partition -> Nat]
        /\ \A q \in Partition : G.pos[q] <= plan.ends[q] /\ G.seq[q] <= plan.ends[q]
        /\ G.saved = source.saved /\ G.last = source.last
    BY Cursors
  <2> HIDE DEF G, n
  <2> QED
    BY <1>p, <2>1, <2>2, StreamSourceAssumption
<1>5. ASSUME NEW shards \in SUBSET Partition, PollShardsFails(shards) PROVE SourceShape'
  BY <1>5, <1>p, Cursors, StreamSourceAssumption DEF PollShardsFails, PollKinesisFails
<1>6. CASE PollFindsNothing
  BY <1>6, <1>p, StreamSourceAssumption DEF PollFindsNothing, PollNothing
<1>7. CASE BreakerTimeout
  BY <1>7, <1>p DEF BreakerTimeout
<1>8. CASE CommitSent
  BY <1>8, <1>p DEF CommitSent, Commit, CommitKafka, CommitKinesis, Noted, InOrder, Message, Kafka
<1>9. CASE CommitFails
  BY <1>9, <1>p DEF CommitFails, Noted, InOrder, Message
<1>10. CASE CommitTick
  BY <1>10, <1>p DEF CommitTick, Commit, CommitKafka, CommitKinesis, Noted, Kafka
<1> QED
  BY <1>1, <1>2, <1>3, <1>4, <1>5, <1>6, <1>7, <1>8, <1>9, <1>10, Zenon
  DEF Next, vars, StartFails, Poll, PollRejected, SendBatch, Process, Receive, WriteRecord,
      BatchDone, BatchFails, Checkpoint, BeginCheckpoint, FlushShard, SaveCheckpoint, SaveFails,
      Crash

\* What a poll puts in a batch was produced.
LEMMA PolledReal ==
    ASSUME Workload(plan), SourceShape
    PROVE  /\ \A p \in Partition : source.pos[p] < plan.ends[p] => <<p, source.pos[p]>> \in AllRecords
           /\ Fetched(source, plan.ends, Partition) \subseteq AllRecords
<1>1. ASSUME NEW p \in Partition, source.pos[p] < plan.ends[p]
      PROVE  <<p, source.pos[p]>> \in AllRecords
  <2>1. source.pos[p] \in Nat /\ plan.ends[p] \in Nat
    BY DEF Workload, SourceShape
  <2>2. <<p, source.pos[p]>> \in Records(p, 0, plan.ends[p])
    BY <1>1, <2>1 DEF Records
  <2> QED
    BY <2>1, <2>2, InAllRecords
<1>2. ASSUME NEW p \in Partition
      PROVE  Records(p, source.pos[p], ReadEnd(source, plan.ends, p)) \subseteq AllRecords
  <2>1. ReadEnd(source, plan.ends, p) \in Nat /\ ReadEnd(source, plan.ends, p) <= plan.ends[p]
    BY Cursors
  <2>2. source.pos[p] \in Nat
    BY DEF SourceShape
  <2> QED
    BY <2>1, <2>2, InAllRecords
<1> QED
  BY <1>1, <1>2 DEF Fetched

\* The select loop keeps its shape.
LEMMA LoopStep == IInv /\ [Next]_vars => LoopShape'
<1> SUFFICES ASSUME IInv, [Next]_vars PROVE LoopShape'
  OBVIOUS
<1>a. AllRecords' = AllRecords
  BY SamePlan DEF IInv
<1>n. ASSUME NEW at \in {"start", "select", "flush", "stopped"}, loop' = At(at),
             at \in {"start", "stopped"} => channel' = <<>> /\ proc' = Idle
      PROVE  LoopShape'
  BY <1>n, StreamIngestAssumption DEF LoopShape, At, NoBatch, NoCheckpoint
<1> USE DEF IInv, LoopShape
<1>1. CASE UNCHANGED <<loop, channel, proc>>
  BY <1>1, <1>a
<1>2. CASE Start \/ StartFails
  BY <1>2, <1>n DEF Start, StartFails
<1>3. ASSUME NEW p \in Partition, PollOneMessage(p) PROVE LoopShape'
  <2>1. <<p, source.pos[p]>> \in AllRecords
    BY <1>3, PolledReal DEF PollOneMessage
  <2> QED
    BY <1>3, <1>a, <2>1, StreamIngestAssumption DEF PollOneMessage, PollKafka, At, NoCheckpoint
<1>4. ASSUME NEW p \in Partition, PollShards(p) PROVE LoopShape'
  <2>1. Fetched(source, plan.ends, Partition) \subseteq AllRecords
    BY PolledReal
  <2>2. PICK b : b.records = Fetched(source, plan.ends, Partition)
                 /\ loop' = [At("send") EXCEPT !.batch = b]
    BY <1>4, Zenon DEF PollShards, PollKinesis
  <2> QED
    BY <1>a, <2>1, <2>2, StreamIngestAssumption DEF At, NoCheckpoint
<1>5. ASSUME loop' = Retried, UNCHANGED <<channel, proc>> PROVE LoopShape'
  BY <1>5, <1>a, StreamIngestAssumption DEF Retried
<1>6. CASE PollFindsNothing \/ CommitSent \/ CommitFails \/ SaveCheckpoint
  BY <1>6, <1>n DEF PollFindsNothing, CommitSent, CommitFails, SaveCheckpoint
<1>7. CASE SendBatch
  BY <1>7, <1>a DEF SendBatch
<1>8. CASE Receive
  BY <1>8, <1>a DEF Receive
<1>9. ASSUME NEW r, WriteRecord(r) PROVE LoopShape'
  BY <1>9, <1>a DEF WriteRecord, Idle
<1>10. CASE BatchDone \/ BatchFails
  BY <1>10, <1>a DEF BatchDone, BatchFails
<1>11. CASE BeginCheckpoint
  BY <1>11, StreamIngestAssumption DEF BeginCheckpoint, At, NoBatch, NoCheckpoint
<1>12. ASSUME NEW s, NEW failing, FlushShard(s, failing) PROVE LoopShape'
  BY <1>12, <1>a DEF FlushShard
<1>13. ASSUME NEW renamed, SaveFails(renamed) PROVE LoopShape'
  BY <1>13, <1>n DEF SaveFails
<1>14. ASSUME NEW kept, Crash(kept) PROVE LoopShape'
  BY <1>14, <1>n DEF Crash
<1> HIDE DEF IInv, LoopShape
<1> QED
  BY <1>1, <1>2, <1>3, <1>4, <1>5, <1>6, <1>7, <1>8, <1>9, <1>10, <1>11, <1>12, <1>13, <1>14
  DEF Next, vars, Poll, PollShardsFails, PollRejected, BreakerTimeout, CommitTick, Process,
      Checkpoint

\* So do the channel, the processor and the graph.
LEMMA TaskStep == IInv /\ [Next]_vars => TaskShape'
<1> SUFFICES ASSUME IInv, [Next]_vars PROVE TaskShape'
  OBVIOUS
<1>a. AllRecords' = AllRecords
  BY SamePlan DEF IInv
<1> USE DEF IInv, TaskShape
<1>1. CASE UNCHANGED <<channel, proc, memory, disk>> /\ DOMAIN lost' = DOMAIN lost
  BY <1>1, <1>a
<1>2. CASE SendBatch
  <2>1. loop.batch.records \subseteq AllRecords
    BY DEF LoopShape
  <2> QED
    BY <1>2, <1>a, <2>1, AppendSeq, StreamIngestAssumption DEF SendBatch, graph, history
<1>3. CASE Receive
  BY <1>3, <1>a, TailSeq, StreamIngestAssumption DEF Receive, graph, history
<1>4. ASSUME NEW r \in AllRecords, WriteRecord(r) PROVE TaskShape'
  BY <1>4, <1>a DEF WriteRecord, history
<1>5. CASE BatchDone \/ BatchFails
  BY <1>5, <1>a DEF BatchDone, BatchFails, Idle, NoBatch, graph, history
<1>6. ASSUME NEW s, NEW failing \in SUBSET OfShard(s, memory \ disk), FlushShard(s, failing)
      PROVE  TaskShape'
  BY <1>6, <1>a DEF FlushShard, OfShard
<1>7. ASSUME NEW kept \in {{}, memory \ disk}, Crash(kept) PROVE TaskShape'
  <2>1. <<>> \in Seq({}) /\ Len(<<>>) = 0 /\ DOMAIN <<>> = {}
    OBVIOUS
  <2> QED
    BY <1>7, <1>a, <2>1, StreamIngestAssumption DEF Crash, IsSeq, Idle, NoBatch, history
<1> HIDE DEF IInv, TaskShape
<1> QED
  BY <1>1, <1>2, <1>3, <1>4, <1>5, <1>6, <1>7
  DEF Next, vars, graph, history, Start, StartFails, Poll, PollOneMessage, PollShards,
      PollShardsFails, PollFindsNothing, PollRejected, BreakerTimeout, CommitSent, CommitFails,
      CommitTick, Process, Checkpoint, BeginCheckpoint, SaveCheckpoint, SaveFails

\* The disk and the excuses only grow, and the graph shrinks in a crash only.
LEMMA Grows ==
    ASSUME IInv, [Next]_vars
    PROVE  /\ disk \subseteq disk' /\ Excused \subseteq Excused'
           /\ memory \subseteq memory' \/ \E kept \in {{}, memory \ disk} : Crash(kept)
<1>1. DOMAIN lost = Causes
  BY DEF IInv, TaskShape
<1>2. \A c \in Causes : lost[c] \subseteq lost'[c]
  <2>1. \/ UNCHANGED lost
        \/ \E c \in Causes : \E S : lost' = [lost EXCEPT ![c] = @ \cup S]
    BY Zenon DEF Next, vars, history, Causes, Start, StartFails, Poll, PollOneMessage, PollShards,
       PollShardsFails, PollFindsNothing, PollRejected, BreakerTimeout, SendBatch, CommitSent,
       CommitFails, CommitTick, Process, Receive, WriteRecord, BatchDone, BatchFails, Checkpoint,
       BeginCheckpoint, FlushShard, SaveCheckpoint, SaveFails, Crash
  <2> QED
    BY <1>1, <2>1
<1>3. Excused \subseteq Excused'
  BY <1>2 DEF Excused
<1>4. disk \subseteq disk' /\ (memory \subseteq memory' \/ \E kept \in {{}, memory \ disk} : Crash(kept))
  BY DEF Next, vars, graph, Start, StartFails, Poll, PollOneMessage, PollShards,
     PollShardsFails, PollFindsNothing, PollRejected, BreakerTimeout, SendBatch, CommitSent,
     CommitFails, CommitTick, Process, Receive, WriteRecord, BatchDone, BatchFails, Checkpoint,
     BeginCheckpoint, FlushShard, SaveCheckpoint, SaveFails, Crash
<1> QED
  BY <1>3, <1>4

\* The messages of a partition stay in order.
LEMMA InOrderStep == IInv /\ [Next]_vars => InOrder'
<1> SUFFICES ASSUME IInv, [Next]_vars, Kafka PROVE InOrder'
  BY SamePlan DEF IInv, InOrder, Kafka
<1>k. plan.kind = "kafka" /\ InOrder
  BY DEF IInv, Kafka
<1>t. /\ source.pos \in [Partition -> Nat]
      /\ DOMAIN source = {"pos", "seq", "count", "saved", "last", "fails", "recent"}
  BY DEF IInv, SourceShape
<1>l. DOMAIN loop = {"at", "batch", "attempt", "ckpt"} /\ DOMAIN proc = {"batch", "todo"}
  BY DEF IInv, LoopShape, TaskShape
<1>q. IsSeq(channel)
  BY DEF IInv, TaskShape
<1>1. ASSUME channel' = <<>>, proc' = Idle, loop'.at \notin {"send", "commit"} PROVE InOrder'
  <2>1. DOMAIN <<>> = {}
    OBVIOUS
  <2> QED
    BY <1>1, <2>1 DEF InOrder
<1>2. ASSUME UNCHANGED <<channel, proc, memory>>, source'.pos = source.pos,
             UNCHANGED loop \/ loop'.at \notin {"send", "commit"}
      PROVE  InOrder'
  BY <1>2, <1>k DEF InOrder, Message, Before, Kafka
<1>3. ASSUME NEW p \in Partition, PollOneMessage(p) PROVE InOrder'
  <2>b. PICK b : b = [records |-> {<<p, source.pos[p]>>}, partition |-> p, offset |-> source.pos[p]]
    BY Zenon
  <2>1. /\ loop.at = "select" /\ loop'.at = "send" /\ loop'.batch = b
        /\ source'.pos = [source.pos EXCEPT ![p] = @ + 1]
        /\ UNCHANGED <<channel, proc, memory>>
    BY <1>3, <1>t, <2>b DEF PollOneMessage, PollKafka, At, graph
  <2>2. /\ b.records = {<<p, source.pos[p]>>} /\ b.partition = p /\ b.offset = source.pos[p]
    BY <2>b
  <2>3. \A q \in Partition : source.pos[q] \in Nat /\ source.pos[q] <= source'.pos[q]
                             /\ source'.pos[q] \in Nat
    BY <2>1, <1>t
  <2>4. ASSUME NEW c, Message(c) PROVE Message(c)' /\ Before(c, b)
    BY <2>2, <2>3, <2>4 DEF Message, Before
  <2>5. Message(b)'
    BY <2>1, <2>2, <1>t DEF Message
  <2> QED
    BY <1>k, <2>1, <2>4, <2>5 DEF InOrder, Kafka, Before
<1>4. CASE SendBatch
  <2>1. /\ loop.at = "send" /\ loop'.at = "commit" /\ loop'.batch = loop.batch
        /\ channel' = Append(channel, loop.batch)
        /\ UNCHANGED <<source, proc, memory>>
    BY <1>4, <1>l DEF SendBatch, graph
  <2>2. \A c : Message(c)' = Message(c)
    BY <2>1 DEF Message
  <2>3. \A i \in DOMAIN channel' :
           \/ i = Len(channel) + 1 /\ channel'[i] = loop.batch
           \/ i \in DOMAIN channel /\ channel'[i] = channel[i] /\ i < Len(channel) + 1
    BY <2>1, <1>q, AppendSeq
  <2>4. \A i \in DOMAIN channel : i \in Nat /\ i <= Len(channel)
    BY <1>q, AppendSeq
  <2>n. Len(channel) \in Nat
    BY <1>q, AppendSeq
  <2>5. \A i \in DOMAIN channel' : Message(channel'[i])
    BY <1>k, <2>1, <2>3 DEF InOrder, Kafka
  <2>6. \A i, j \in DOMAIN channel' : i < j => Before(channel'[i], channel'[j])
    BY <1>k, <2>1, <2>3, <2>4, <2>n DEF InOrder, Kafka
  <2>7. proc # Idle => \A i \in DOMAIN channel' : Before(proc.batch, channel'[i])
    BY <1>k, <2>1, <2>3 DEF InOrder, Kafka
  <2> QED
    BY <1>k, <2>1, <2>2, <2>5, <2>6, <2>7 DEF InOrder, Kafka, Before
<1>5. CASE Receive
  <2>1. /\ proc = Idle /\ proc'.batch = channel[1] /\ proc'.todo = channel[1].records
        /\ channel' = Tail(channel) /\ channel # <<>>
        /\ UNCHANGED <<source, loop, memory>>
    BY <1>5, <1>q, TailSeq DEF Receive, graph
  <2>2. \A c : Message(c)' = Message(c)
    BY <2>1 DEF Message
  <2>3. /\ 1 \in DOMAIN channel
        /\ \A i \in DOMAIN channel' : /\ i \in Nat /\ 1 < i + 1 /\ i + 1 \in DOMAIN channel
                                      /\ channel'[i] = channel[i + 1]
    BY <2>1, <1>q, TailSeq
  <2>4. \A i, j \in DOMAIN channel' : i < j => Before(channel'[i], channel'[j])
    BY <1>k, <2>3 DEF InOrder, Kafka
  <2>5. \A i \in DOMAIN channel' : Message(channel'[i]) /\ Before(channel[1], channel'[i])
    BY <1>k, <2>3 DEF InOrder, Kafka
  <2>6. Message(channel[1]) /\ (loop.at = "send" => Before(channel[1], loop.batch))
    BY <1>k, <2>3 DEF InOrder, Kafka
  <2>7. loop.at = "send" => \A i \in DOMAIN channel' : Before(channel'[i], loop.batch)
    BY <1>k, <2>3 DEF InOrder, Kafka
  <2> QED
    BY <1>k, <2>1, <2>2, <2>4, <2>5, <2>6, <2>7 DEF InOrder, Kafka, Before
<1>6. ASSUME NEW r, WriteRecord(r) PROVE InOrder'
  <2>1. /\ proc # Idle /\ proc'.batch = proc.batch /\ proc'.todo = proc.todo \ {r}
        /\ memory' = memory \cup {r} /\ UNCHANGED <<source, loop, channel>>
    BY <1>6, <1>l DEF WriteRecord, Idle
  <2> QED
    BY <1>k, <2>1 DEF InOrder, Message, Before, Kafka
<1>7. CASE BatchDone \/ BatchFails
  <2>1. proc' = Idle /\ UNCHANGED <<source, loop, channel, memory>>
    BY <1>7 DEF BatchDone, BatchFails, graph
  <2> QED
    BY <1>k, <2>1 DEF InOrder, Message, Before, Kafka
<1>8. CASE Start \/ StartFails
  BY <1>8, <1>1 DEF IInv, LoopShape, Start, StartFails, At
<1>9. ASSUME NEW kept, Crash(kept) PROVE InOrder'
  BY <1>9, <1>1 DEF Crash, At
<1>10. CASE BreakerTimeout \/ CommitTick \/ CommitSent \/ CommitFails
  <2>1. \A part, offset : Commit(part, offset).pos = source.pos /\ Noted(source, part, offset).pos = source.pos
    BY <1>k, <1>t DEF Commit, CommitKafka, Noted
  <2>2. source'.pos = source.pos
    BY <1>10, <1>t, <2>1 DEF BreakerTimeout, CommitTick, CommitSent, CommitFails
  <2>3. UNCHANGED <<channel, proc, memory>> /\ (UNCHANGED loop \/ loop' = At("select"))
    BY <1>10 DEF BreakerTimeout, CommitTick, CommitSent, CommitFails, graph
  <2> QED
    BY <1>2, <2>2, <2>3 DEF At
<1>11. CASE BeginCheckpoint \/ SaveCheckpoint \/ \E renamed : SaveFails(renamed)
  BY <1>11, <1>2 DEF BeginCheckpoint, SaveCheckpoint, SaveFails, At, graph
<1>12. ASSUME NEW s, NEW failing, FlushShard(s, failing) PROVE InOrder'
  BY <1>12, <1>2, <1>l DEF FlushShard
<1>13. ~(\E p \in Partition : PollShards(p)) /\ ~PollFindsNothing /\ ~PollRejected
       /\ ~(\E shards \in SUBSET Partition : PollShardsFails(shards))
  BY <1>k DEF PollShards, PollFindsNothing, PollRejected, PollShardsFails, Polling
<1>14. CASE UNCHANGED vars
  BY <1>14, <1>2 DEF vars
<1> QED
  BY <1>3, <1>4, <1>5, <1>6, <1>7, <1>8, <1>9, <1>10, <1>11, <1>12, <1>13, <1>14
  DEF Next, Poll, Process, Checkpoint

\* No step moves past a record.
LEMMA ReachedStep == IInv /\ [Next]_vars => Reached'
<1> SUFFICES ASSUME IInv, [Next]_vars, loop'.at \notin {"start", "stopped"}
             PROVE  \A p \in Partition :
                      Records(p, 0, source'.pos[p]) \subseteq memory' \cup Flight' \cup Excused'
  BY DEF Reached
<1> DEFINE Held == memory \cup Flight \cup Excused
<1>t. /\ source.pos \in [Partition -> Nat] /\ plan.ends \in [Partition -> Nat]
      /\ DOMAIN source = {"pos", "seq", "count", "saved", "last", "fails", "recent"}
  BY DEF IInv, SourceShape, Workload
<1>l. DOMAIN loop = {"at", "batch", "attempt", "ckpt"} /\ DOMAIN proc = {"batch", "todo"}
      /\ DOMAIN lost = Causes
  BY DEF IInv, LoopShape, TaskShape
<1>q. IsSeq(channel)
  BY DEF IInv, TaskShape
<1>r. loop.at \notin {"start", "stopped"} => \A p \in Partition : Records(p, 0, source.pos[p]) \subseteq Held
  BY DEF IInv, Reached
<1>x. Excused \subseteq Excused'
  BY Grows
<1>1. ASSUME source'.pos = source.pos, loop.at \notin {"start", "stopped"}, Held \subseteq Held'
      PROVE  \A p \in Partition : Records(p, 0, source'.pos[p]) \subseteq Held'
  BY <1>1, <1>r
<1>2. ASSUME Start PROVE \A p \in Partition : Records(p, 0, source'.pos[p]) \subseteq Held'
  <2>1. Resume \in Offsets /\ Covers(disk, Resume)
    BY ResumeCovered DEF IInv
  <2>2. source'.pos = [p \in Partition |-> IF Resume[p] = None THEN source.saved[p]
                                                              ELSE Resume[p] + 1]
    BY <1>2 DEF Start, Seek, Connect, NewSource
  <2>3. disk \subseteq memory' /\ Skipped(Resume) \subseteq Excused'
    <3>1. disk \subseteq memory' /\ lost' = [lost EXCEPT !["resumed"] = @ \cup Skipped(Resume)]
      BY <1>2 DEF Start, graph, IInv, TaskShape
    <3>2. Skipped(Resume) \subseteq lost'["resumed"]
      BY <3>1, <1>l DEF Causes
    <3> QED
      BY <3>1, <3>2 DEF Excused, Causes
  <2>4. ASSUME NEW p \in Partition, Resume[p] # None
        PROVE  Records(p, 0, source'.pos[p]) \subseteq disk \cup Excused
    BY <2>1, <2>2, <2>4 DEF Covers, Upto
  <2>5. ASSUME NEW p \in Partition, Resume[p] = None
        PROVE  Records(p, 0, source'.pos[p]) \subseteq disk \cup Skipped(Resume)
    <3>1. source'.pos[p] = source.saved[p]
      BY <2>2, <2>5
    <3>2. p \in {q \in Partition : Resume[q] = None}
      BY <2>5
    <3>3. Records(p, 0, source.saved[p]) \ disk \subseteq Skipped(Resume)
      <4> DEFINE N == {q \in Partition : Resume[q] = None}
      <4>1. Skipped(Resume) = (UNION {Records(q, 0, source.saved[q]) : q \in N}) \ disk
        BY DEF Skipped
      <4>2. p \in N
        BY <3>2
      <4> HIDE DEF N
      <4> QED
        BY <4>1, <4>2
    <3> QED
      BY <3>1, <3>3
  <2> QED
    BY <1>x, <2>3, <2>4, <2>5
<1>3. ASSUME NEW p \in Partition, PollOneMessage(p)
      PROVE  \A q \in Partition : Records(q, 0, source'.pos[q]) \subseteq Held'
  <2>1. /\ loop.at = "select" /\ loop'.at = "send" /\ loop'.batch.records = {<<p, source.pos[p]>>}
        /\ source'.pos = [source.pos EXCEPT ![p] = @ + 1]
        /\ UNCHANGED <<channel, proc, memory>>
    BY <1>3, <1>t DEF PollOneMessage, PollKafka, At, graph
  <2>2. Held \subseteq Held' /\ <<p, source.pos[p]>> \in Held'
    BY <2>1, <1>x DEF Flight
  <2>3. Records(p, 0, source.pos[p] + 1) = Records(p, 0, source.pos[p]) \cup {<<p, source.pos[p]>>}
    BY <1>t, RecordsFacts
  <2> HIDE DEF Held
  <2> QED
    BY <1>r, <1>t, <2>1, <2>2, <2>3
<1>4. ASSUME NEW shards \in SUBSET Partition, loop.at = "select",
             source'.pos = GetRecords(source, plan.ends, shards).pos,
             Held \cup Fetched(source, plan.ends, shards) \subseteq Held'
      PROVE  \A q \in Partition : Records(q, 0, source'.pos[q]) \subseteq Held'
  <2> SUFFICES ASSUME NEW q \in Partition PROVE Records(q, 0, source'.pos[q]) \subseteq Held'
    OBVIOUS
  <2> DEFINE e == ReadEnd(source, plan.ends, q)
  <2>1. /\ e \in Nat /\ source.pos[q] <= e /\ source.pos[q] \in Nat
        /\ source'.pos[q] = IF q \in shards THEN e ELSE source.pos[q]
    BY <1>4, <1>t, Cursors DEF IInv
  <2>2. Records(q, 0, e) = Records(q, 0, source.pos[q]) \cup Records(q, source.pos[q], e)
    BY <2>1, RecordsFacts
  <2>3. q \in shards => Records(q, source.pos[q], e) \subseteq Fetched(source, plan.ends, shards)
    BY DEF Fetched
  <2> HIDE DEF Held, e
  <2> QED
    BY <1>4, <1>r, <2>1, <2>2, <2>3
<1>5. ASSUME NEW p \in Partition, PollShards(p)
      PROVE  \A q \in Partition : Records(q, 0, source'.pos[q]) \subseteq Held'
  <2> DEFINE G == GetRecords(source, plan.ends, Partition)
             n == G.count + Cardinality(Fetched(source, plan.ends, Partition))
  <2>1. /\ loop.at = "select" /\ source' = [G EXCEPT !.count = n, !.fails = 0]
        /\ loop'.at = "send" /\ loop'.batch.records = Fetched(source, plan.ends, Partition)
        /\ UNCHANGED <<channel, proc, memory>>
    BY <1>5 DEF PollShards, Polling, PollKinesis, At, graph
  <2>2. DOMAIN G = DOMAIN source
    BY Cursors DEF IInv
  <2> HIDE DEF n
  <2>3. source'.pos = G.pos
    <3> HIDE DEF G
    <3> QED
      BY <2>1, <2>2, <1>t
  <2>4. Held \cup Fetched(source, plan.ends, Partition) \subseteq Held'
    BY <2>1, <1>x DEF Flight
  <2> HIDE DEF Held
  <2> QED
    BY <1>4, <2>1, <2>3, <2>4
<1>6. ASSUME NEW shards \in SUBSET Partition, PollShardsFails(shards)
      PROVE  \A q \in Partition : Records(q, 0, source'.pos[q]) \subseteq Held'
  <2> DEFINE G == GetRecords(source, plan.ends, shards)
  <2>1. /\ loop.at = "select" /\ loop' = Retried
        /\ source' = [G EXCEPT !.fails = IF @ < FailureThreshold THEN @ + 1 ELSE @, !.recent = TRUE]
        /\ lost' = [lost EXCEPT !["dropped"] = @ \cup Fetched(source, plan.ends, shards)]
        /\ UNCHANGED <<channel, proc, memory>>
    BY <1>6 DEF PollShardsFails, Polling, PollKinesisFails, graph
  <2>2. DOMAIN G = DOMAIN source
    BY Cursors DEF IInv
  <2>3. source'.pos = G.pos
    <3> HIDE DEF G
    <3> QED
      BY <2>1, <2>2, <1>t
  <2>4. Fetched(source, plan.ends, shards) \subseteq Excused'
    <3>1. Fetched(source, plan.ends, shards) \subseteq lost'["dropped"]
      BY <2>1, <1>l DEF Causes
    <3> QED
      BY <3>1 DEF Excused, Causes
  <2>5. loop'.at = loop.at
    BY <2>1, <1>l DEF Retried
  <2>6. Held \subseteq Held'
    BY <2>1, <2>5, <1>x DEF Flight
  <2> QED
    BY <1>4, <2>1, <2>3, <2>4, <2>6
<1>7. ASSUME SendBatch
      PROVE  \A q \in Partition : Records(q, 0, source'.pos[q]) \subseteq Held'
  <2>1. /\ loop.at = "send" /\ channel' = Append(channel, loop.batch)
        /\ UNCHANGED <<source, proc, memory>>
    BY <1>7 DEF SendBatch, graph
  <2>2. /\ Len(channel) + 1 \in DOMAIN channel' /\ channel'[Len(channel) + 1] = loop.batch
        /\ \A i \in DOMAIN channel : i \in DOMAIN channel' /\ channel'[i] = channel[i]
    BY <2>1, <1>q, AppendSeq
  <2>3. Held \subseteq Held'
    BY <2>1, <2>2, <1>x DEF Flight
  <2> HIDE DEF Held
  <2> QED
    BY <1>1, <2>1, <2>3
<1>8. ASSUME Receive
      PROVE  \A q \in Partition : Records(q, 0, source'.pos[q]) \subseteq Held'
  <2>1. /\ proc = Idle /\ proc'.todo = channel[1].records /\ channel' = Tail(channel)
        /\ channel # <<>> /\ UNCHANGED <<source, loop, memory>>
    BY <1>8, <1>q, TailSeq DEF Receive, graph
  <2>2. \A i \in DOMAIN channel : i = 1 \/ (i - 1 \in DOMAIN channel' /\ channel'[i - 1] = channel[i])
    BY <2>1, <1>q, TailSeq
  <2>3. Held \subseteq Held'
    BY <2>1, <2>2, <1>x DEF Flight, Idle
  <2> HIDE DEF Held
  <2> QED
    BY <1>1, <2>1, <2>3
<1>9. ASSUME NEW r, WriteRecord(r)
      PROVE  \A q \in Partition : Records(q, 0, source'.pos[q]) \subseteq Held'
  <2>1. /\ proc'.todo = proc.todo \ {r} /\ memory' = memory \cup {r}
        /\ UNCHANGED <<source, loop, channel>>
    BY <1>9, <1>l DEF WriteRecord
  <2>2. Held \subseteq Held'
    BY <2>1, <1>x DEF Flight
  <2> HIDE DEF Held
  <2> QED
    BY <1>1, <2>1, <2>2
<1>10. ASSUME BatchDone
      PROVE  \A q \in Partition : Records(q, 0, source'.pos[q]) \subseteq Held'
  <2>1. proc.todo = {} /\ UNCHANGED <<source, loop, channel, memory>>
    BY <1>10 DEF BatchDone, graph
  <2>2. Held \subseteq Held'
    BY <2>1, <1>x DEF Flight
  <2> HIDE DEF Held
  <2> QED
    BY <1>1, <2>1, <2>2
<1>11. ASSUME BatchFails
      PROVE  \A q \in Partition : Records(q, 0, source'.pos[q]) \subseteq Held'
  <2>1. /\ lost' = [lost EXCEPT !["failed"] = @ \cup proc.todo]
        /\ UNCHANGED <<source, loop, channel, memory>>
    BY <1>11 DEF BatchFails, graph
  <2>2. proc.todo \subseteq Excused'
    <3>1. proc.todo \subseteq lost'["failed"]
      BY <2>1, <1>l DEF Causes
    <3> QED
      BY <3>1 DEF Excused, Causes
  <2>3. Held \subseteq Held'
    BY <2>1, <2>2, <1>x DEF Flight
  <2> HIDE DEF Held
  <2> QED
    BY <1>1, <2>1, <2>3
<1>12. ASSUME source'.pos = source.pos, loop.at \notin {"start", "stopped"},
              UNCHANGED <<channel, proc, memory>>,
              UNCHANGED loop \/ loop.at # "send"
       PROVE  \A q \in Partition : Records(q, 0, source'.pos[q]) \subseteq Held'
  <2>1. Held \subseteq Held'
    BY <1>12, <1>x DEF Flight
  <2> HIDE DEF Held
  <2> QED
    BY <1>1, <1>12, <2>1
<1>13. ASSUME BreakerTimeout \/ CommitTick \/ CommitSent \/ CommitFails
      PROVE  \A q \in Partition : Records(q, 0, source'.pos[q]) \subseteq Held'
  <2>1. \A part, offset : Commit(part, offset).pos = source.pos /\ Noted(source, part, offset).pos = source.pos
    BY <1>t DEF Commit, CommitKafka, CommitKinesis, Noted
  <2>2. source'.pos = source.pos
    BY <1>13, <1>t, <2>1 DEF BreakerTimeout, CommitTick, CommitSent, CommitFails
  <2>3. /\ UNCHANGED <<channel, proc, memory>>
        /\ UNCHANGED loop \/ loop.at = "commit"
    BY <1>13 DEF BreakerTimeout, CommitTick, CommitSent, CommitFails, graph
  <2> HIDE DEF Held
  <2> QED
    BY <1>12, <2>2, <2>3
<1>14. ASSUME PollFindsNothing \/ PollRejected
      PROVE  \A q \in Partition : Records(q, 0, source'.pos[q]) \subseteq Held'
  <2>1. source'.pos = source.pos /\ loop.at = "select" /\ UNCHANGED <<channel, proc, memory>>
    BY <1>14, <1>t DEF PollFindsNothing, PollNothing, PollRejected, Polling, graph
  <2> HIDE DEF Held
  <2> QED
    BY <1>12, <2>1
<1>15. ASSUME BeginCheckpoint \/ SaveCheckpoint \/ \E renamed : SaveFails(renamed)
      PROVE  \A q \in Partition : Records(q, 0, source'.pos[q]) \subseteq Held'
  <2>1. UNCHANGED <<source, channel, proc, memory>> /\ loop.at \in {"select", "flush"}
    BY <1>15 DEF BeginCheckpoint, SaveCheckpoint, SaveFails, Flushed, graph
  <2> HIDE DEF Held
  <2> QED
    BY <1>12, <2>1
<1>16. ASSUME NEW s, NEW failing, FlushShard(s, failing)
       PROVE  \A q \in Partition : Records(q, 0, source'.pos[q]) \subseteq Held'
  <2>1. UNCHANGED <<source, channel, proc, memory>> /\ loop.at = "flush"
    BY <1>16 DEF FlushShard
  <2> HIDE DEF Held
  <2> QED
    BY <1>12, <2>1
<1>17. ASSUME UNCHANGED vars
      PROVE  \A q \in Partition : Records(q, 0, source'.pos[q]) \subseteq Held'
  <2>1. UNCHANGED <<source, loop, channel, proc, memory>>
    BY <1>17 DEF vars
  <2> HIDE DEF Held
  <2> QED
    BY <1>12, <2>1
<1>18. ~StartFails /\ ~(\E kept : Crash(kept))
  BY DEF StartFails, Crash, At
<1> HIDE DEF Held
<1>19. \A p \in Partition : Records(p, 0, source'.pos[p]) \subseteq Held'
  BY <1>2, <1>3, <1>5, <1>6, <1>7, <1>8, <1>9, <1>10, <1>11, <1>13, <1>14, <1>15, <1>16, <1>17, <1>18
  DEF Next, Poll, Process, Checkpoint
<1> QED
  BY <1>19 DEF Held

\* A finished batch is the last one of its partition: what came before it in the
\* partition is written, or lost.
LEMMA DoneCovered ==
    ASSUME IInv, Kafka, BatchDone
    PROVE  /\ proc.batch.partition \in Partition /\ proc.batch.offset \in Nat
           /\ proc.batch.offset < plan.ends[proc.batch.partition]
           /\ Upto(proc.batch.partition, proc.batch.offset) \subseteq memory \cup Excused
<1> DEFINE p == proc.batch.partition
           o == proc.batch.offset
<1>1. InOrder /\ proc # Idle /\ proc.todo = {}
  BY DEF IInv, BatchDone
<1>2. Message(proc.batch)
  BY <1>1 DEF InOrder
<1>3. p \in Partition /\ o \in Nat /\ o < source.pos[p]
  BY <1>2 DEF Message
<1>4. source.pos[p] \in Nat /\ plan.ends[p] \in Nat /\ source.pos[p] <= plan.ends[p]
  BY <1>3 DEF IInv, SourceShape, Workload
<1>5. Records(p, 0, source.pos[p]) \subseteq memory \cup Flight \cup Excused
  BY <1>1, <1>3 DEF IInv, Reached, LoopShape
<1>6. Upto(p, o) \subseteq Records(p, 0, source.pos[p])
  BY <1>3, <1>4, RecordsFacts DEF Upto
<1>7. ASSUME NEW b, Message(b), Before(proc.batch, b) PROVE b.records \cap Upto(p, o) = {}
  <2>1. b.records = {<<b.partition, b.offset>>} /\ b.offset \in Nat
    BY <1>7 DEF Message
  <2>2. b.partition = p => o < b.offset
    BY <1>7 DEF Before
  <2>3. \A r \in Upto(p, o) : \E n \in 0 .. (o + 1) - 1 : r = <<p, n>>
    BY RecordsFacts DEF Upto
  <2> QED
    BY <1>3, <2>1, <2>2, <2>3
<1>8. Flight \cap Upto(p, o) = {}
  <2>1. loop.at = "send" => loop.batch.records \cap Upto(p, o) = {}
    BY <1>1, <1>7 DEF InOrder
  <2>2. \A i \in DOMAIN channel : channel[i].records \cap Upto(p, o) = {}
    BY <1>1, <1>7 DEF InOrder
  <2> QED
    BY <1>1, <2>1, <2>2 DEF Flight
<1> QED
  BY <1>3, <1>4, <1>5, <1>6, <1>8

\* The offsets that are tracked or captured stay covered.
LEMMA TrackedStep == IInv /\ [Next]_vars => Tracked'
<1> SUFFICES ASSUME IInv, [Next]_vars PROVE Tracked'
  OBVIOUS
<1>p. plan'.ends = plan.ends /\ Kafka' = Kafka
  BY SamePlan DEF IInv, Kafka
<1>g. /\ disk \subseteq disk' /\ Excused \subseteq Excused'
      /\ memory \subseteq memory' \/ \E kept \in {{}, memory \ disk} : Crash(kept)
  BY Grows
<1>m. disk \subseteq memory /\ DOMAIN lost = Causes
  BY DEF IInv, TaskShape
<1>l. DOMAIN loop = {"at", "batch", "attempt", "ckpt"} /\ DOMAIN loop.ckpt = {"epoch", "offsets", "todo"}
  BY DEF IInv, LoopShape
<1>t. Tracked
  BY DEF IInv
<1>c. ASSUME NEW S, NEW T, NEW offsets, Covers(S, offsets), S \subseteq T PROVE Covers(T, offsets)'
  BY <1>c, <1>p, <1>g DEF Covers
<1>1. barrier' \in [current : Nat, committed : Nat]
  <2>1. loop.at = "flush" => loop.ckpt.epoch \in Nat
    BY <1>t DEF Tracked
  <2>2. \/ UNCHANGED barrier
        \/ barrier' = CreateBarrier(barrier)
        \/ loop.at = "flush" /\ barrier' = ReportShards(barrier, loop.ckpt.epoch)
        \/ barrier' = NewBarrier
    BY DEF Next, vars, Start, StartFails, Poll, PollOneMessage, PollShards,
       PollShardsFails, PollFindsNothing, PollRejected, BreakerTimeout, SendBatch, CommitSent,
       CommitFails, CommitTick, Process, Receive, WriteRecord, BatchDone, BatchFails, Checkpoint,
       BeginCheckpoint, FlushShard, SaveCheckpoint, SaveFails, Crash, Flushed
  <2> QED
    BY <1>t, <2>1, <2>2 DEF Tracked, CreateBarrier, ReportShards, NewBarrier
<1>2. Kafka => latest' \in Offsets /\ Covers(memory, latest)'
  <2> SUFFICES ASSUME Kafka PROVE latest' \in Offsets /\ Covers(memory, latest)'
    OBVIOUS
  <2>0. latest \in Offsets /\ Covers(memory, latest)
    BY <1>t DEF Tracked, Offsets
  <2>1. CASE \E kept \in {{}, memory \ disk} : Crash(kept)
    BY <2>1 DEF Crash, NoOffsets, Offsets, Covers
  <2>2. CASE UNCHANGED latest /\ memory \subseteq memory'
    BY <2>0, <2>2, <1>p, <1>g DEF Covers
  <2>3. CASE Start \/ StartFails
    <3>1. Resume \in Offsets /\ Covers(disk, Resume)
      BY ResumeCovered DEF IInv
    <3>2. latest' = Resume /\ UNCHANGED memory
      BY <2>3 DEF Start, StartFails, graph
    <3> QED
      BY <3>1, <3>2, <1>p, <1>g, <1>m DEF Covers
  <2>4. CASE BatchDone
    <3>1. /\ latest' = [latest EXCEPT ![proc.batch.partition] = proc.batch.offset]
          /\ UNCHANGED memory
      BY <2>4 DEF BatchDone, graph
    <3>2. latest' \in Offsets
      BY <2>0, <2>4, <3>1, DoneCovered DEF Offsets
    <3>3. ASSUME NEW q \in Partition, latest'[q] # None
          PROVE  latest'[q] < plan.ends[q] /\ Upto(q, latest'[q]) \subseteq memory \cup Excused
      BY <2>0, <2>4, <3>1, <3>3, DoneCovered DEF Offsets, Covers
    <3> QED
      BY <3>1, <3>2, <3>3, <1>p, <1>g DEF Covers
  <2> QED
    BY <1>g, <2>1, <2>2, <2>3, <2>4
    DEF Next, vars, Poll, PollOneMessage, PollShards,
       PollShardsFails, PollFindsNothing, PollRejected, BreakerTimeout, SendBatch, CommitSent,
       CommitFails, CommitTick, Process, Receive, WriteRecord, BatchFails, Checkpoint,
       BeginCheckpoint, FlushShard, SaveCheckpoint, SaveFails
<1>3. ASSUME loop'.at = "flush"
      PROVE  /\ Kafka' /\ loop'.ckpt.epoch \in Nat /\ loop'.ckpt.offsets \in Offsets
             /\ Covers(memory, loop.ckpt.offsets)' /\ Flushing(loop.ckpt.offsets)'
  <2>1. CASE loop' = loop /\ memory \subseteq memory'
    BY <1>3, <1>t, <1>p, <1>g, <2>1 DEF Tracked, Covers, Flushing
  <2>2. CASE BeginCheckpoint
    <3>1. /\ Kafka /\ UNCHANGED memory
          /\ loop'.ckpt.epoch = barrier.current /\ loop'.ckpt.offsets = latest
          /\ loop'.ckpt.todo = Shard
      BY <2>2 DEF BeginCheckpoint, At, Kafka, graph
    <3>2. latest \in Offsets /\ Covers(memory, latest) /\ barrier.current \in Nat
      BY <1>t, <3>1 DEF Tracked, Offsets
    <3>3. ASSUME NEW p \in Partition, latest[p] # None, NEW r \in Upto(p, latest[p])
          PROVE  ShardOf(r) \in Shard
      <4>1. latest[p] \in Nat /\ latest[p] < plan.ends[p] /\ plan.ends[p] \in Nat
        BY <3>2, <3>3 DEF Offsets, Covers, IInv, Workload
      <4>2. PICK o \in 0 .. (latest[p] + 1) - 1 : r = <<p, o>>
        BY <3>3 DEF Upto, Records
      <4>3. o \in 0 .. plan.ends[p] - 1
        BY <4>1
      <4> QED
        BY <4>2, <4>3 DEF IInv, Workload
    <3> QED
      BY <3>1, <3>2, <3>3, <1>p, <1>g DEF Covers, Flushing
  <2>3. ASSUME NEW s, NEW failing, FlushShard(s, failing)
        PROVE  /\ Kafka' /\ loop'.ckpt.epoch \in Nat /\ loop'.ckpt.offsets \in Offsets
               /\ Covers(memory, loop.ckpt.offsets)' /\ Flushing(loop.ckpt.offsets)'
    <3>1. /\ loop.at = "flush" /\ UNCHANGED memory
          /\ loop'.ckpt.epoch = loop.ckpt.epoch /\ loop'.ckpt.offsets = loop.ckpt.offsets
          /\ loop'.ckpt.todo = loop.ckpt.todo \ {s}
          /\ disk' = disk \cup (OfShard(s, memory) \ failing)
          /\ lost' = [lost EXCEPT !["unflushed"] = @ \cup failing]
      BY <2>3, <1>l DEF FlushShard
    <3>2. /\ Kafka /\ loop.ckpt.epoch \in Nat /\ loop.ckpt.offsets \in Offsets
          /\ Covers(memory, loop.ckpt.offsets) /\ Flushing(loop.ckpt.offsets)
      BY <1>t, <3>1 DEF Tracked
    <3>3. failing \subseteq Excused'
      <4>1. failing \subseteq lost'["unflushed"]
        BY <3>1, <1>m DEF Causes
      <4> QED
        BY <4>1 DEF Excused, Causes
    <3>4. \A r \in memory : ShardOf(r) = s => r \in disk' \cup Excused'
      BY <3>1, <3>3 DEF OfShard
    <3>5. Flushing(loop.ckpt.offsets)'
      <4> SUFFICES ASSUME NEW p \in Partition, loop.ckpt.offsets[p] # None,
                          NEW r \in Upto(p, loop.ckpt.offsets[p])
                   PROVE  ShardOf(r) \in loop'.ckpt.todo \/ r \in disk' \cup Excused'
        BY <3>1 DEF Flushing
      <4>1. r \in memory \cup Excused
        BY <3>2 DEF Covers
      <4>2. ShardOf(r) \in loop.ckpt.todo \/ r \in disk \cup Excused
        BY <3>2 DEF Flushing
      <4> QED
        BY <1>g, <3>1, <3>4, <4>1, <4>2
    <3> QED
      BY <3>1, <3>2, <3>5, <1>p, <1>g DEF Covers
  <2>4. \/ loop' = loop /\ memory \subseteq memory'
        \/ BeginCheckpoint
        \/ \E s, failing : FlushShard(s, failing)
    BY <1>3, <1>l, <1>g
    DEF Next, vars, Start, StartFails, Poll, PollOneMessage, PollShards, At, Retried, Polling,
       PollShardsFails, PollFindsNothing, PollRejected, BreakerTimeout, SendBatch, CommitSent,
       CommitFails, CommitTick, Process, Receive, WriteRecord, BatchDone, BatchFails, Checkpoint,
       SaveCheckpoint, SaveFails, Crash, graph
  <2> QED
    BY <2>1, <2>2, <2>3, <2>4
<1> QED
  BY <1>1, <1>2, <1>3, <1>p DEF Tracked, Offsets

\* A saved manifest is covered by the disk.
LEMMA StoredStep == IInv /\ [Next]_vars => Stored'
<1> SUFFICES ASSUME IInv, [Next]_vars PROVE Stored'
  OBVIOUS
<1>p. plan'.ends = plan.ends /\ Kafka' = Kafka
  BY SamePlan DEF IInv, Kafka
<1>g. disk \subseteq disk' /\ Excused \subseteq Excused'
  BY Grows
<1>s. Stored
  BY DEF IInv
<1>1. CASE UNCHANGED files
  BY <1>1, <1>s, <1>p, <1>g DEF Stored, Covers
<1>2. ASSUME Flushed,
             files' \in {Renamed(files, Manifest), SaveManifest(files, Manifest)}
      PROVE  Stored'
  <2>1. /\ Kafka /\ loop.ckpt.todo = {} /\ Manifest.epoch \in Nat /\ Manifest.offsets \in Offsets
        /\ Manifest.offsets = loop.ckpt.offsets
        /\ Covers(memory, loop.ckpt.offsets) /\ Flushing(loop.ckpt.offsets)
    BY <1>2 DEF IInv, Tracked, Flushed, Manifest
  <2>2. Covers(disk, Manifest.offsets)
    BY <2>1 DEF Covers, Flushing
  <2>3. files' \subseteq files \cup {Manifest} /\ LoadLatest(files') # {}
    <3>1. \A f \in files : f.epoch \in Nat
      BY <1>s DEF Stored
    <3>2. files # {} => LoadLatest(files) # {}
      BY <1>s DEF Stored
    <3>3. /\ Renamed(files, Manifest) \subseteq files \cup {Manifest}
          /\ LoadLatest(Renamed(files, Manifest)) # {}
          /\ SaveManifest(files, Manifest) \subseteq files \cup {Manifest}
          /\ LoadLatest(SaveManifest(files, Manifest)) # {}
      BY <2>1, <3>1, <3>2, Latest
    <3> QED
      BY <1>2, <3>3
  <2>4. \A m \in files' : m.epoch \in Nat /\ m.offsets \in Offsets /\ Covers(disk, m.offsets)
    <3> HIDE DEF Manifest
    <3> QED
      BY <1>s, <2>1, <2>2, <2>3 DEF Stored
  <2>5. \A m \in files' : Covers(disk, m.offsets)'
    <3>1. ASSUME NEW offsets, Covers(disk, offsets) PROVE Covers(disk, offsets)'
      BY <3>1, <1>p, <1>g DEF Covers
    <3> QED
      BY <2>4, <3>1 DEF Covers
  <2> QED
    BY <1>p, <2>1, <2>3, <2>4, <2>5 DEF Stored
<1> QED
  BY <1>1, <1>2
  DEF Next, vars, Start, StartFails, Poll, PollOneMessage, PollShards, PollShardsFails,
     PollFindsNothing, PollRejected, BreakerTimeout, SendBatch, CommitSent, CommitFails,
     CommitTick, Process, Receive, WriteRecord, BatchDone, BatchFails, Checkpoint,
     BeginCheckpoint, FlushShard, SaveCheckpoint, SaveFails, Crash
-----------------------------------------------------------------------------
(* The theorems.                                                           *)

\* The invariant is inductive.
LEMMA NextIInv == IInv /\ [Next]_vars => IInv'
<1> SUFFICES ASSUME IInv, [Next]_vars PROVE IInv'
  OBVIOUS
<1>1. Workload(plan)'
  BY SamePlan DEF IInv
<1> QED
  BY <1>1, SourceStep, LoopStep, TaskStep, ReachedStep, InOrderStep, TrackedStep, StoredStep DEF IInv

\* A checkpoint captures the offsets before it flushes, and saves the manifest
\* after: no manifest names an offset at or below which a record is neither on disk
\* nor lost to a failed batch, a failed flush or an earlier restart.
THEOREM ManifestsCovered == Spec => []ManifestCovered
<1>1. IInv => ManifestCovered
  <2> SUFFICES ASSUME IInv PROVE ManifestCovered
    OBVIOUS
  <2>1. TypeOK
    <3>1. \A p \in Partition : source.pos[p] \in 0 .. plan.ends[p]
      BY DEF IInv, SourceShape, Workload
    <3> QED
      BY <3>1 DEF IInv, LoopShape, TaskShape, SourceShape, TypeOK
  <2>2. \A m \in files, p \in Partition :
           m.offsets[p] # None => Records(p, 0, m.offsets[p] + 1) \subseteq disk \cup Excused
    BY DEF IInv, Stored, Covers, Upto
  <2> QED
    BY <2>1, <2>2 DEF ManifestCovered
<1> QED
  BY <1>1, InitIInv, NextIInv, PTL DEF Spec

\* Whatever the order of polls, sends, commits, checkpoints, crashes and seeks, the
\* consumer moves past no record that is not applied, on its way to the graph, or
\* lost to one of the four causes.
THEOREM ConsumerSkipsNothing == Spec => []NothingSkipped
<1>1. IInv => NothingSkipped
  BY DEF IInv, Reached, Flight, NothingSkipped, InFlight
<1> QED
  BY <1>1, InitIInv, NextIInv, PTL DEF Spec

-----------------------------------------------------------------------------
(* What a restart resumes from.                                            *)

\* No offset of a is past the one of b.
Upward(a, b) == \A p \in Partition : a[p] # None => b[p] # None /\ b[p] >= a[p]

\* A message is past what the processor has tracked of its partition.
Newer(b) == latest[b.partition] # None => latest[b.partition] < b.offset

OneFilePerEpoch == \A f, g \in files : f.epoch = g.epoch => f = g

\* The process is past the manifest it started from: so is what it tracks, what a
\* checkpoint has captured, and every message still to be handled.
Onward ==
    /\ OneFilePerEpoch
    /\ Kafka =>
          /\ loop.at # "start" => Upward(Resume, latest)
          /\ loop.at = "flush" => /\ Upward(Resume, loop.ckpt.offsets)
                                  /\ Upward(loop.ckpt.offsets, latest)
          /\ loop.at \notin {"start", "stopped"} =>
                \A p \in Partition : latest[p] # None => latest[p] < source.pos[p]
          /\ loop.at = "send" => Newer(loop.batch)
          /\ \A i \in DOMAIN channel : Newer(channel[i])
          /\ proc # Idle => Newer(proc.batch)

\* After a save the latest manifest is the new one or the one that was the latest,
\* whatever epochs an earlier process left: the clean-up never removes it.
LEMMA LatestOfSaved ==
    ASSUME NEW S, \A f \in S : f.epoch \in Nat, \A f, g \in S : f.epoch = g.epoch => f = g,
           S # {} => LoadLatest(S) # {},
           NEW m, m.epoch \in Nat,
           NEW F \in {Renamed(S, m), SaveManifest(S, m)}
    PROVE  /\ \A f, g \in F : f.epoch = g.epoch => f = g
           /\ F # {} /\ LoadLatest(F) # {}
           /\ \A x \in LoadLatest(F) : x = m \/ x \in LoadLatest(S)
<1> DEFINE R == Renamed(S, m)
<1>1. /\ m \in R
      /\ \A f \in R : (f \in S /\ f.epoch # m.epoch) \/ f = m
      /\ \A f \in S : f.epoch # m.epoch => f \in R
  BY DEF Renamed
<1>2. F \subseteq R /\ LoadLatest(F) # {} /\ F # {}
  <2>1. LoadLatest(Renamed(S, m)) # {} /\ LoadLatest(SaveManifest(S, m)) # {}
    BY Latest
  <2>2. F \subseteq R /\ LoadLatest(F) # {}
    BY <2>1, Zenon DEF SaveManifest, KeepLatest
  <2> QED
    BY <2>2 DEF LoadLatest
<1>3. PICK t \in R : \A g \in R : g.epoch <= t.epoch
  <2>1. LoadLatest(R) # {}
    BY Latest
  <2> QED
    BY <2>1 DEF LoadLatest
<1> HIDE DEF R
<1>4. \A f \in R : f.epoch \in Nat
  BY <1>1
<1>5. t \in F
  <2>1. {g \in R : g.epoch > t.epoch} = {}
    BY <1>3, <1>4
  <2>2. Cardinality({g \in R : g.epoch > t.epoch}) < 2
    <3>1. Cardinality({g \in R : g.epoch > t.epoch}) = 0
      BY <2>1, FS_EmptySet, Zenon
    <3> QED
      BY <3>1
  <2>3. t \in KeepLatest(R)
    BY <1>3, <2>2 DEF KeepLatest
  <2> QED
    BY <1>3, <2>3 DEF SaveManifest, R
<1>6. ASSUME NEW x \in LoadLatest(F), x # m PROVE x \in LoadLatest(S)
  <2>1. x \in R /\ x.epoch >= t.epoch
    BY <1>2, <1>5, <1>6 DEF LoadLatest
  <2>2. \A g \in R : g.epoch <= x.epoch
    BY <1>3, <1>4, <2>1
  <2>3. x \in S /\ m.epoch <= x.epoch
    BY <1>1, <1>6, <2>1, <2>2
  <2>4. \A g \in S : g.epoch <= x.epoch
    BY <1>1, <2>2, <2>3
  <2> QED
    BY <2>3, <2>4 DEF LoadLatest
<1>7. \A f, g \in F : f.epoch = g.epoch => f = g
  BY <1>1, <1>2
<1> QED
  BY <1>2, <1>6, <1>7

\* A step leaves what a restart resumes from, or makes it the offsets of the
\* checkpoint that is being saved.
LEMMA ResumeStep ==
    ASSUME IInv, OneFilePerEpoch, [Next]_vars
    PROVE  /\ OneFilePerEpoch'
           /\ \/ Resume' = Resume
              \/ Flushed /\ Resume' = loop.ckpt.offsets
<1>k. plan'.kind = plan.kind
  BY SamePlan DEF IInv
<1>1. CASE UNCHANGED files
  BY <1>1, <1>k DEF OneFilePerEpoch, Resume
<1>2. ASSUME Flushed,
             files' \in {Renamed(files, Manifest), SaveManifest(files, Manifest)}
      PROVE  OneFilePerEpoch' /\ Resume' \in {Resume, loop.ckpt.offsets}
  <2>1. plan.kind = "kafka" /\ Manifest.epoch \in Nat /\ Manifest.offsets = loop.ckpt.offsets
    BY <1>2 DEF IInv, Tracked, Flushed, Manifest, Kafka
  <2>2. (\A f \in files : f.epoch \in Nat) /\ (files # {} => LoadLatest(files) # {})
    BY DEF IInv, Stored
  <2>3. \A f, g \in files : f.epoch = g.epoch => f = g
    BY DEF OneFilePerEpoch
  <2> HIDE DEF Manifest
  <2>4. /\ \A f, g \in files' : f.epoch = g.epoch => f = g
        /\ files' # {} /\ LoadLatest(files') # {}
        /\ \A x \in LoadLatest(files') : x = Manifest \/ x \in LoadLatest(files)
    BY <1>2, <2>1, <2>2, <2>3, LatestOfSaved, Zenon
  <2>5. PICK x \in LoadLatest(files') : Resume' = x.offsets
    <3>1. Resume' = (CHOOSE m \in LoadLatest(files') : TRUE).offsets
      BY <1>k, <2>1, <2>4 DEF Resume
    <3> QED
      BY <2>4, <3>1, Zenon
  <2>6. ASSUME x \in LoadLatest(files) PROVE Resume = x.offsets
    <3>1. \A y \in LoadLatest(files) : y = x
      BY <2>2, <2>3, <2>6 DEF LoadLatest
    <3>2. files # {}
      BY <2>6 DEF LoadLatest
    <3> QED
      BY <2>1, <2>6, <3>1, <3>2 DEF Resume
  <2>7. Resume' \in {Resume, loop.ckpt.offsets}
    BY <2>1, <2>4, <2>5, <2>6
  <2> QED
    BY <2>4, <2>7 DEF OneFilePerEpoch
<1>3. \/ UNCHANGED files
      \/ /\ Flushed
         /\ files' \in {Renamed(files, Manifest), SaveManifest(files, Manifest)}
  BY DEF Next, vars, Start, StartFails, Poll, PollOneMessage, PollShards, PollShardsFails,
     PollFindsNothing, PollRejected, BreakerTimeout, SendBatch, CommitSent, CommitFails,
     CommitTick, Process, Receive, WriteRecord, BatchDone, BatchFails, Checkpoint,
     BeginCheckpoint, FlushShard, SaveCheckpoint, SaveFails, Crash
<1> QED
  BY <1>1, <1>2, <1>3

\* Being upward is transitive.
LEMMA UpwardTransitive ==
    ASSUME NEW a \in Offsets, NEW b \in Offsets, NEW c \in Offsets, Upward(a, b), Upward(b, c)
    PROVE  Upward(a, c)
<1>1. \A p \in Partition : /\ a[p] \in Nat \cup {None} /\ b[p] \in Nat \cup {None}
                           /\ c[p] \in Nat \cup {None}
  BY DEF Offsets
<1>2. None \notin Nat
  BY StreamIngestAssumption
<1> QED
  BY <1>1, <1>2 DEF Upward

\* The first process has nothing to be past of.
LEMMA InitOnward == Init => Onward
<1> SUFFICES ASSUME Init PROVE Onward
  OBVIOUS
<1>1. DOMAIN <<>> = {} /\ files = {} /\ channel = <<>> /\ proc = Idle /\ loop.at = "start"
  BY DEF Init, At
<1> QED
  BY <1>1 DEF Onward, OneFilePerEpoch

\* Every step keeps the process past the manifest it would resume from.
LEMMA OnwardStep == IInv /\ Onward /\ [Next]_vars => Onward'
<1> SUFFICES ASSUME IInv, Onward, [Next]_vars PROVE Onward'
  OBVIOUS
<1>o. OneFilePerEpoch' /\ (Kafka' <=> Kafka)
  BY ResumeStep, SamePlan DEF Onward, IInv, Kafka
<1> SUFFICES ASSUME Kafka PROVE Onward'
  BY <1>o DEF Onward
<1>k. plan.kind = "kafka"
  BY DEF Kafka
<1>t. /\ source.pos \in [Partition -> Nat] /\ source.saved \in [Partition -> Nat]
      /\ DOMAIN source = {"pos", "seq", "count", "saved", "last", "fails", "recent"}
      /\ latest \in Offsets /\ Resume \in Offsets
      /\ DOMAIN loop = {"at", "batch", "attempt", "ckpt"} /\ DOMAIN proc = {"batch", "todo"}
      /\ DOMAIN loop.ckpt = {"epoch", "offsets", "todo"}
      /\ IsSeq(channel)
  BY ResumeCovered DEF IInv, SourceShape, Tracked, LoopShape, TaskShape, Offsets
<1>n. None \notin Nat
  BY StreamIngestAssumption
<1>e. loop.at \in {"start", "stopped"} => channel = <<>> /\ proc = Idle
  BY DEF IInv, LoopShape
<1>i. /\ loop.at # "start" => Upward(Resume, latest)
      /\ loop.at = "flush" => Upward(Resume, loop.ckpt.offsets) /\ Upward(loop.ckpt.offsets, latest)
      /\ loop.at \notin {"start", "stopped"} =>
            \A p \in Partition : latest[p] # None => latest[p] < source.pos[p]
      /\ loop.at = "send" => Newer(loop.batch)
      /\ \A i \in DOMAIN channel : Newer(channel[i])
      /\ proc # Idle => Newer(proc.batch)
  BY DEF Onward
<1>r. files' = files => Resume' = Resume
  BY <1>o DEF Resume, Kafka
<1> DEFINE Running == loop.at \notin {"start", "stopped"}
<1>1. ASSUME UNCHANGED <<files, latest, channel>>, source'.pos = source.pos,
             proc' = Idle \/ (proc # Idle /\ proc'.batch = proc.batch) \/ UNCHANGED proc,
             \/ loop'.at = loop.at /\ loop'.batch = loop.batch /\ loop'.ckpt.offsets = loop.ckpt.offsets
             \/ Running /\ loop'.at = "select"
      PROVE  Onward'
  <2>1. Resume' = Resume /\ \A b : Newer(b)' <=> Newer(b)
    BY <1>1, <1>r DEF Newer
  <2> QED
    BY <1>1, <1>o, <1>i, <2>1 DEF Onward, Upward
<1>2. ASSUME UNCHANGED <<latest>>, Resume' = Resume \/ (Flushed /\ Resume' = loop.ckpt.offsets),
             UNCHANGED <<channel, proc>>, source'.pos = source.pos, Flushed, loop'.at = "select"
      PROVE  Onward'
  <2>1. \A b : Newer(b)' <=> Newer(b)
    BY <1>2 DEF Newer
  <2>2. Upward(Resume', latest')
    BY <1>2, <1>i DEF Upward, Flushed
  <2> QED
    BY <1>2, <1>o, <1>i, <2>1, <2>2, Zenon DEF Onward, Upward, Flushed
<1>3. ASSUME channel' = <<>>, proc' = Idle,
             \/ loop'.at = "start"
             \/ loop'.at \in {"stopped", "select"} /\ UNCHANGED files /\ latest' = Resume,
             loop'.at = "select" =>
                \A p \in Partition : Resume[p] # None => Resume[p] < source'.pos[p]
      PROVE  Onward'
  <2>1. DOMAIN <<>> = {}
    OBVIOUS
  <2>2. \A p \in Partition : Resume[p] # None => Resume[p] >= Resume[p]
    BY <1>t DEF Offsets
  <2>3. loop'.at # "start" => Upward(Resume, latest)'
    BY <1>3, <1>r, <2>2 DEF Upward
  <2> QED
    BY <1>3, <1>o, <2>1, <2>3 DEF Onward
<1>4. ASSUME NEW p \in Partition, PollOneMessage(p) PROVE Onward'
  <2>b. PICK b : b = [records |-> {<<p, source.pos[p]>>}, partition |-> p, offset |-> source.pos[p]]
    BY Zenon
  <2>1. /\ loop.at = "select" /\ loop'.at = "send" /\ loop'.batch = b
        /\ source'.pos = [source.pos EXCEPT ![p] = @ + 1]
        /\ UNCHANGED <<files, channel, proc, latest>>
    BY <1>4, <1>t, <2>b DEF PollOneMessage, PollKafka, At
  <2>2. b.partition = p /\ b.offset = source.pos[p]
    BY <2>b
  <2>3. \A c : Newer(c)' <=> Newer(c)
    BY <2>1 DEF Newer
  <2>4. \A q \in Partition : latest[q] # None => latest[q] < source.pos[q] /\ latest[q] < source'.pos[q]
    <3>1. \A q \in Partition : latest[q] \in Nat \cup {None} /\ source.pos[q] \in Nat
                               /\ source'.pos[q] \in {source.pos[q], source.pos[q] + 1}
      BY <1>t, <2>1 DEF Offsets
    <3> QED
      BY <1>i, <2>1, <3>1
  <2>5. Newer(b)
    BY <2>2, <2>4 DEF Newer
  <2> QED
    BY <1>o, <1>i, <1>r, <2>1, <2>3, <2>4, <2>5 DEF Onward, Upward
<1>5. CASE SendBatch
  <2>1. /\ loop.at = "send" /\ loop'.at = "commit"
        /\ channel' = Append(channel, loop.batch)
        /\ UNCHANGED <<files, source, proc, latest>>
    BY <1>5, <1>t DEF SendBatch
  <2>2. \A i \in DOMAIN channel' :
           channel'[i] = loop.batch \/ (i \in DOMAIN channel /\ channel'[i] = channel[i])
    BY <2>1, <1>t, AppendSeq
  <2>3. \A c : Newer(c)' <=> Newer(c)
    BY <2>1 DEF Newer
  <2>4. \A i \in DOMAIN channel' : Newer(channel'[i])
    BY <1>i, <2>1, <2>2
  <2> QED
    BY <1>o, <1>i, <1>r, <2>1, <2>3, <2>4 DEF Onward, Upward
<1>6. CASE Receive
  <2>1. /\ proc = Idle /\ proc'.batch = channel[1] /\ channel' = Tail(channel) /\ channel # <<>>
        /\ UNCHANGED <<files, source, loop, latest>>
    BY <1>6, <1>t, TailSeq DEF Receive
  <2>2. /\ 1 \in DOMAIN channel
        /\ \A i \in DOMAIN channel' : i + 1 \in DOMAIN channel /\ channel'[i] = channel[i + 1]
    BY <2>1, <1>t, TailSeq
  <2>3. \A c : Newer(c)' <=> Newer(c)
    BY <2>1 DEF Newer
  <2>4. Newer(channel[1]) /\ \A i \in DOMAIN channel' : Newer(channel'[i])
    BY <1>i, <2>2
  <2> QED
    BY <1>o, <1>i, <1>r, <2>1, <2>3, <2>4 DEF Onward, Upward
<1>7. CASE BatchDone
  <2>1. /\ proc # Idle /\ proc' = Idle /\ UNCHANGED <<files, source, loop, channel>>
        /\ latest' = [latest EXCEPT ![proc.batch.partition] = proc.batch.offset]
    BY <1>7 DEF BatchDone
  <2>2. PICK p, o : p = proc.batch.partition /\ o = proc.batch.offset
    OBVIOUS
  <2>3. /\ p \in Partition /\ o \in Nat /\ o < source.pos[p]
        /\ \A i \in DOMAIN channel : Message(channel[i]) /\ (channel[i].partition = p => o < channel[i].offset)
        /\ loop.at = "send" => Message(loop.batch) /\ (loop.batch.partition = p => o < loop.batch.offset)
    BY <2>1, <2>2 DEF IInv, InOrder, Message, Before
  <2>4. /\ latest' \in Offsets /\ latest'[p] = o
        /\ \A q \in Partition : q # p => latest'[q] = latest[q]
        /\ latest[p] # None => latest[p] < o
    BY <1>t, <1>i, <2>1, <2>2, <2>3 DEF Offsets, Newer
  <2>5. Upward(latest, latest')
    <3>1. \A q \in Partition : latest[q] \in Nat \cup {None}
      BY <1>t DEF Offsets
    <3> QED
      BY <1>n, <2>3, <2>4, <3>1 DEF Upward
  <2> DEFINE NewerThen(c) == latest'[c.partition] # None => latest'[c.partition] < c.offset
  <2>6. ASSUME NEW c, Message(c), Newer(c), c.partition = p => o < c.offset PROVE NewerThen(c)
    BY <2>4, <2>6 DEF Newer, Message
  <2> HIDE DEF NewerThen
  <2>7. /\ \A i \in DOMAIN channel : NewerThen(channel[i])
        /\ loop.at = "send" => NewerThen(loop.batch)
    BY <1>i, <2>3, <2>6
  <2>8. \A q \in Partition : latest'[q] # None => latest'[q] < source.pos[q]
    BY <1>i, <1>e, <2>1, <2>3, <2>4
  <2>9. loop.at # "start" => Upward(Resume, latest')
    BY <1>t, <1>i, <2>4, <2>5, UpwardTransitive
  <2>10. loop.at = "flush" => Upward(loop.ckpt.offsets, latest')
    <3>1. loop.at = "flush" => loop.ckpt.offsets \in Offsets
      BY DEF IInv, Tracked
    <3> QED
      BY <1>t, <1>i, <2>4, <2>5, <3>1, UpwardTransitive
  <2> QED
    BY <1>o, <1>i, <1>r, <2>1, <2>7, <2>8, <2>9, <2>10 DEF Onward, Newer, NewerThen
<1>8. CASE Start
  <2>1. /\ loop.at = "start" /\ latest' = Resume /\ loop'.at = "select"
        /\ UNCHANGED <<channel, proc, files>>
        /\ \A p \in Partition : Resume[p] # None => source'.pos[p] = Resume[p] + 1
    BY <1>8, <1>t DEF Start, At, Seek, Connect, NewSource
  <2>2. \A p \in Partition : Resume[p] # None => Resume[p] \in Nat
    BY <1>t DEF Offsets
  <2>3. \A p \in Partition : Resume[p] # None => Resume[p] < source'.pos[p]
    BY <2>1, <2>2
  <2>4. channel' = <<>> /\ proc' = Idle
    BY <1>e, <2>1
  <2> QED
    BY <1>3, <2>1, <2>3, <2>4
<1>9. CASE StartFails
  BY <1>9, <1>3, <1>e DEF StartFails, At
<1>10. ASSUME NEW kept, Crash(kept) PROVE Onward'
  BY <1>10, <1>3 DEF Crash, At
<1>11. CASE BreakerTimeout \/ CommitTick \/ CommitSent \/ CommitFails
  <2>1. \A part, offset : Commit(part, offset).pos = source.pos /\ Noted(source, part, offset).pos = source.pos
    BY <1>k, <1>t DEF Commit, CommitKafka, Noted
  <2>2. source'.pos = source.pos
    BY <1>11, <1>t, <2>1 DEF BreakerTimeout, CommitTick, CommitSent, CommitFails
  <2>3. /\ UNCHANGED <<channel, proc, files, latest>>
        /\ UNCHANGED loop \/ (Running /\ loop' = At("select"))
    BY <1>11 DEF BreakerTimeout, CommitTick, CommitSent, CommitFails
  <2> QED
    BY <1>1, <2>2, <2>3 DEF At
<1>12. CASE BeginCheckpoint
  <2>1. /\ loop.at = "select" /\ loop'.at = "flush" /\ loop'.ckpt.offsets = latest
        /\ UNCHANGED <<files, source, channel, proc, latest>>
    BY <1>12 DEF BeginCheckpoint, At
  <2>2. Upward(latest, latest)
    BY <1>t DEF Offsets, Upward
  <2>3. \A c : Newer(c)' <=> Newer(c)
    BY <2>1 DEF Newer
  <2> QED
    BY <1>o, <1>i, <1>r, <2>1, <2>2, <2>3 DEF Onward, Upward
<1>13. ASSUME NEW s, NEW failing, FlushShard(s, failing) PROVE Onward'
  <2>1. /\ loop'.at = loop.at /\ loop'.batch = loop.batch /\ loop'.ckpt.offsets = loop.ckpt.offsets
        /\ UNCHANGED <<files, source, channel, proc, latest>>
    BY <1>13, <1>t DEF FlushShard
  <2> QED
    BY <1>1, <2>1
<1>14. CASE SaveCheckpoint \/ \E renamed : SaveFails(renamed)
  <2>1. /\ Flushed /\ loop'.at = "select" /\ UNCHANGED <<source, channel, proc, latest>>
    BY <1>14 DEF SaveCheckpoint, SaveFails, At
  <2>2. Resume' = Resume \/ (Flushed /\ Resume' = loop.ckpt.offsets)
    BY ResumeStep DEF Onward
  <2> QED
    BY <1>2, <2>1, <2>2
<1>15. ASSUME NEW r, WriteRecord(r) PROVE Onward'
  <2>1. proc # Idle /\ proc'.batch = proc.batch /\ UNCHANGED <<files, source, loop, channel, latest>>
    BY <1>15, <1>t DEF WriteRecord, Idle
  <2> QED
    BY <1>1, <2>1
<1>16. CASE BatchFails
  BY <1>16, <1>1 DEF BatchFails
<1>17. ~(\E p \in Partition : PollShards(p)) /\ ~PollFindsNothing /\ ~PollRejected
       /\ ~(\E shards \in SUBSET Partition : PollShardsFails(shards))
  BY <1>k DEF PollShards, PollFindsNothing, PollRejected, PollShardsFails, Polling
<1>18. CASE UNCHANGED vars
  BY <1>18, <1>1 DEF vars
<1> QED
  BY <1>4, <1>5, <1>6, <1>7, <1>8, <1>9, <1>10, <1>11, <1>12, <1>13, <1>14, <1>15, <1>16,
     <1>17, <1>18
  DEF Next, Poll, Process, Checkpoint

\* What a restart would resume from never moves backwards, for any number of
\* processes that each number their epochs from one, of failed saves and of
\* checkpoints that overlap the processor.
THEOREM ResumesOnward == Spec => ResumeNeverBackwards
<1>1. IInv /\ Onward /\ [Next]_vars =>
        [\A p \in Partition : Resume[p] # None => Resume'[p] # None /\ Resume'[p] >= Resume[p]]_vars
  <2> SUFFICES ASSUME IInv, Onward, [Next]_vars PROVE Upward(Resume, Resume')
    BY DEF Upward
  <2>1. Resume \in Offsets
    BY ResumeCovered DEF IInv
  <2>2. Upward(Resume, Resume)
    BY <2>1 DEF Upward, Offsets
  <2>3. Flushed => Upward(Resume, loop.ckpt.offsets)
    BY DEF Flushed, Onward, IInv, Tracked
  <2>4. Resume' = Resume \/ (Flushed /\ Resume' = loop.ckpt.offsets)
    BY ResumeStep DEF Onward
  <2> QED
    BY <2>2, <2>3, <2>4
<1> QED
  BY <1>1, InitIInv, NextIInv, InitOnward, OnwardStep, PTL DEF Spec, ResumeNeverBackwards
=============================================================================
