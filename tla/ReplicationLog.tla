--------------------------- MODULE ReplicationLog ---------------------------
(***************************************************************************)
(* One node's replication log for one shard, opened with open_durable:     *)
(* record_owner and record_replica change the in-memory log under the      *)
(* write lock, release the lock and only then persist the entry, so the    *)
(* persists of concurrent calls may happen in any order, and a crash may   *)
(* fall between a record and its persist.                                  *)
(***************************************************************************)
EXTENDS ShardLog

CONSTANTS
    OwnerOps,     \* the ops this node records as the shard's owner
    ReplicaSeqs,  \* the seqs under which replicated ops may arrive
    InFlight,     \* bound: record calls between lock release and return
    MaxRestarts,  \* bound: restarts
    PutMayFail    \* may db.put fail (the log then continues degraded)

ASSUME OwnerOpsAssumption == OwnerOps \subseteq Ops
ASSUME ReplicaSeqsAssumption == ReplicaSeqs \subseteq Nat \ {0}
ASSUME BoundsAssumption == InFlight \in Nat /\ MaxRestarts \in Nat

VARIABLES
    log,       \* the ShardLog held in memory
    db,        \* the entries in RocksDB, keyed by seq
    pending,   \* record calls that have released the lock, not yet persisted
    issued,    \* ops that record_owner has been called with
    returned,  \* history: the (seq, op) pairs whose record call returned
    restarts   \* number of restarts

vars == <<log, db, pending, issued, returned, restarts>>

Init ==
    /\ log = EmptyLog
    /\ db = {}
    /\ pending = {}
    /\ issued = {}
    /\ returned = {}
    /\ restarts = 0

\* A record call up to the release of the lock.  The persist that follows uses
\* the high-water mark read under the lock, which is the recorded seq.
RecordOwnerLocked(op) ==
    /\ op \notin issued
    /\ Cardinality(pending) < InFlight
    /\ log' = RecordOwner(log, op)
    /\ pending' = pending \cup {[seq |-> NextSeq(log), op |-> op]}
    /\ issued' = issued \cup {op}
    /\ UNCHANGED <<db, returned, restarts>>

\* A seq at or below the mark changes nothing and returns at once.
RecordReplicaLocked(seq, op) ==
    /\ Cardinality(pending) < InFlight
    /\ seq > log.high_water
    /\ log' = RecordReplica(log, seq, op)
    /\ pending' = pending \cup {[seq |-> seq, op |-> op]}
    /\ UNCHANGED <<db, issued, returned, restarts>>

\* persist: put the entry, then delete the entries at or below the cutoff.
Pruned(entries, high_water) ==
    IF high_water > MaxEntries
      THEN {e \in entries : e.seq > high_water - MaxEntries}
      ELSE entries

PutEntry(entries, e) == {x \in entries : x.seq # e.seq} \cup {e}

Persist(e) ==
    /\ e \in pending
    /\ db' = Pruned(PutEntry(db, e), e.seq)
    /\ pending' = pending \ {e}
    /\ returned' = returned \cup {e}
    /\ UNCHANGED <<log, issued, restarts>>

\* db.put fails: the error is logged and the call returns its seq all the same.
PersistFails(e) ==
    /\ PutMayFail
    /\ e \in pending
    /\ pending' = pending \ {e}
    /\ returned' = returned \cup {e}
    /\ UNCHANGED <<log, db, issued, restarts>>

\* A fault: the replay does not trim to max_entries.
ReplayedWhole(entries) == entries

Replayed(entries) ==
    {e \in entries :
        Cardinality({f \in entries : f.seq > e.seq}) < MaxEntries}

Newest(seqs) == CHOOSE s \in seqs : \A t \in seqs : s >= t

\* A fault: the mark restarts at the number of entries replayed.
OpenDurableCounting(entries) ==
    [entries |-> Replayed(entries), high_water |-> Cardinality(Replayed(entries))]

OpenDurable(entries) ==
    [entries |-> Replayed(entries),
     high_water |-> IF entries = {} THEN 0 ELSE Newest(SeqsOf(entries))]

\* The process crashes, losing memory and the calls in flight, and open_durable
\* rebuilds the log from the newest max_entries entries on disk.
Restart ==
    /\ restarts < MaxRestarts
    /\ log' = OpenDurable(db)
    /\ pending' = {}
    /\ restarts' = restarts + 1
    /\ UNCHANGED <<db, issued, returned>>

Next ==
    \/ \E op \in OwnerOps : RecordOwnerLocked(op)
    \/ \E seq \in ReplicaSeqs, op \in Ops : RecordReplicaLocked(seq, op)
    \/ \E e \in pending : Persist(e) \/ PersistFails(e)
    \/ Restart

Spec == Init /\ [][Next]_vars

-----------------------------------------------------------------------------
\* The in-memory log stays well formed and the store holds one entry per seq.
TypeOK ==
    /\ WellFormed(log)
    /\ db \subseteq Entry /\ IsFiniteSet(db)
    /\ \A e, f \in db : e.seq = f.seq => e = f
    /\ pending \subseteq Entry /\ IsFiniteSet(pending)
    /\ issued \subseteq Ops
    /\ returned \subseteq Entry
    /\ restarts \in Nat

\* record_owner never hands out one seq for two writes, whatever overlaps and
\* wherever the process restarts ("concurrent owner writes get distinct,
\* increasing seqs").
ReturnedSeqsUnique ==
    \A e, f \in returned : e.seq = f.seq => e = f

\* No crash has caught a record call between its lock and its persist.
NoCallLost == issued = {e.op : e \in returned \cup pending}

\* The owner's log serves contiguously: if no crash has caught a record call in
\* flight, since answers Incremental exactly when it holds every seq from
\* from_seq + 1 up to the high-water mark, before and after restarts, so that a
\* lagging replica never misses a write it is not told about.
ServesContiguously ==
    NoCallLost =>
        \A f \in 0..(log.high_water - 1) :
            /\ Incremental(log, f) => SeqsOf(Delta(log, f)) = (f + 1)..log.high_water
            /\ TooOld(log, f) => f + 1 \notin SeqsOf(log.entries)

\* Once every record call has returned, a crash loses nothing that memory serves
\* from: open_durable reads the same mark and no entry that memory does not hold,
\* in whatever order the overlapping calls persisted and pruned, and it rebuilds
\* exactly the log in memory if no crash has caught a call in flight.  (After a
\* crash that has, memory may keep entries below the gap which the store prunes.)
DurableMirrorsMemory ==
    pending = {} =>
        /\ OpenDurable(db).high_water = log.high_water
        /\ Replayed(db) \subseteq log.entries
        /\ NoCallLost => OpenDurable(db) = log

\* RocksDB and memory never hold different ops under one seq, and memory's mark
\* covers the store, even when puts fail and replicated seqs have gaps: so
\* reopening the store never brings back a write under another write's seq.
StoreAgreesWithMemory ==
    \A e \in db : /\ e.seq <= log.high_water
                  /\ \A f \in log.entries : e.seq = f.seq => e = f
=============================================================================
