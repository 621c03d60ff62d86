--------------------------- MODULE WriteAheadLog ---------------------------
(***************************************************************************)
(* A shard's write-ahead log under the Group sync policy.  The log is a    *)
(* record: the records appended to current.wal, how many of them have been *)
(* fsynced, the appends since the last fsync, the next sequence number and *)
(* the watermark last stored in the watch channel.  The log sits behind a  *)
(* mutex, so each method is one step of its caller.                        *)
(***************************************************************************)
EXTENDS Naturals, Sequences

\* A freshly opened log over the records found in the file: the next sequence
\* number is one past the largest one read, and the watch channel starts at 0.
MaxSeq(file) ==
    IF file = << >> THEN 0
    ELSE CHOOSE s \in {file[i].seq : i \in DOMAIN file} :
             \A i \in DOMAIN file : file[i].seq <= s

OpenWal(file) ==
    [file |-> file, synced |-> Len(file), ops |-> 0,
     next |-> MaxSeq(file) + 1, durable |-> 0]

LastSeq(wal) == wal.next - 1

\* watch::Sender::send: with no receiver the call fails and stores nothing.
Publish(wal, seq, receivers) ==
    IF receivers = {} THEN wal ELSE [wal EXCEPT !.durable = seq]

SyncWal(wal) == [wal EXCEPT !.synced = Len(wal.file), !.ops = 0]

\* append: buffer the record under the next sequence number; the append that
\* reaches max_ops syncs inline and publishes its own sequence number.
AppendWal(wal, op, receivers, max_ops) ==
    LET buffered == [wal EXCEPT !.file = Append(@, [seq |-> wal.next, op |-> op]),
                                !.ops = @ + 1,
                                !.next = @ + 1]
    IN  IF buffered.ops >= max_ops
          THEN Publish(SyncWal(buffered), wal.next, receivers)
          ELSE buffered

\* An append whose write fails has already taken its sequence number.
AppendFailsWal(wal) == [wal EXCEPT !.next = @ + 1]

\* Mutant: the flusher publishes without having synced.
FlushUnsynced(wal, receivers) == Publish([wal EXCEPT !.ops = 0], LastSeq(wal), receivers)

\* Mutant: the flusher leaves the newest record out of the watermark.
FlushOffByOne(wal, receivers) == Publish(SyncWal(wal), LastSeq(wal) - 1, receivers)

\* One round of the background flusher that finds buffered records.
FlushWal(wal, receivers) == Publish(SyncWal(wal), LastSeq(wal), receivers)

\* truncate removes the whole file and restarts the numbering; the counter of
\* unsynced appends and the published watermark keep their values.
TruncateWal(wal) == [wal EXCEPT !.file = << >>, !.synced = 0, !.next = 1]

\* What a crash leaves of the file: the fsynced records and some prefix of the
\* buffered ones (replay cuts a torn last record off).
SurvivingFiles(wal) == {SubSeq(wal.file, 1, n) : n \in wal.synced .. Len(wal.file)}

\* replay_wal, for one node: the events of the records after its last
\* SnapshotCheckpoint, in sequence order.
NodeRecords(file, node) == SelectSeq(file, LAMBDA r : r.op.node = node)

LastCheckpoint(recs) ==
    CHOOSE k \in 0 .. Len(recs) :
        /\ k = 0 \/ recs[k].op.type = "checkpoint"
        /\ \A j \in k + 1 .. Len(recs) : recs[j].op.type # "checkpoint"

Unreplayed(file, node) ==
    LET recs == NodeRecords(file, node)
        from == LastCheckpoint(recs)
        events[i \in 0 .. Len(recs) - from] ==
            IF i = 0 THEN << >> ELSE events[i - 1] \o recs[from + i].op.events
    IN  events[Len(recs) - from]
=============================================================================
