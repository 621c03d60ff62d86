------------------------------ MODULE ShardLog ------------------------------
(***************************************************************************)
(* The value operations of one shard's replication log                     *)
(* (crates/nexora-zenoh/src/replication_log.rs): a bounded ring of entries *)
(* (seq, op) and the highest seq ever recorded.                            *)
(*                                                                         *)
(* The ring is a set of entries.  The code pushes at the back only a seq   *)
(* above high_water, so the deque is sorted by seq and its front is the    *)
(* entry with the least seq.  A shard without a ShardLog in the map is the *)
(* log with high_water 0: both record functions that create a log also     *)
(* record an entry in it, and no recorded seq is 0.                        *)
(***************************************************************************)
EXTENDS Naturals, FiniteSets

CONSTANTS
    Ops,          \* the graph operations that are replicated
    MaxEntries    \* max_entries: how many entries a log retains

ASSUME MaxEntriesAssumption == MaxEntries \in Nat \ {0}

Entry == [seq : Nat \ {0}, op : Ops]

SeqsOf(entries) == {e.seq : e \in entries}

EmptyLog == [entries |-> {}, high_water |-> 0]

\* Fault: the eviction loop after push_back is missing.
PushUnbounded(entries, e) == entries \cup {e}

\* push_back, then pop_front while the ring is over its bound.  The ring is
\* within the bound before the push, so at most one entry, the oldest, leaves.
PushBounded(entries, e) ==
    LET pushed == entries \cup {e}
    IN  IF Cardinality(pushed) > MaxEntries
          THEN {x \in pushed : \E y \in pushed : y.seq < x.seq}
          ELSE pushed

\* record_owner: the seq it assigns and the log it leaves.
NextSeq(log) == log.high_water + 1

RecordOwner(log, op) ==
    [entries |-> PushBounded(log.entries, [seq |-> NextSeq(log), op |-> op]),
     high_water |-> NextSeq(log)]

\* record_replica: only a seq above the high-water mark is recorded.
RecordReplica(log, seq, op) ==
    IF seq > log.high_water
      THEN [entries |-> PushBounded(log.entries, [seq |-> seq, op |-> op]),
            high_water |-> seq]
      ELSE log

\* since: what the log offers a replica that presents from_seq.
UpToDate(log, from_seq) == log.high_water # 0 /\ from_seq >= log.high_water

\* Fault: the window test is off by one and lets a missing entry through.
TooOldLate(log, from_seq) ==
    \/ log.high_water = 0
    \/ /\ from_seq < log.high_water
       /\ \A e \in log.entries : from_seq + 2 < e.seq

TooOld(log, from_seq) ==
    \/ log.high_water = 0
    \/ /\ from_seq < log.high_water
       /\ \A e \in log.entries : from_seq + 1 < e.seq

Delta(log, from_seq) == {e \in log.entries : e.seq > from_seq}

Incremental(log, from_seq) ==
    ~UpToDate(log, from_seq) /\ ~TooOld(log, from_seq)

-----------------------------------------------------------------------------
\* The entries are typed, one per seq, the ring is within its bound, and the
\* newest entry carries the high-water mark.
WellFormed(log) ==
    /\ log.high_water \in Nat
    /\ log.entries \subseteq Entry
    /\ IsFiniteSet(log.entries)
    /\ Cardinality(log.entries) <= MaxEntries
    /\ \A e, f \in log.entries : e.seq = f.seq => e = f
    /\ \A e \in log.entries : e.seq <= log.high_water
    /\ log.high_water # 0 => log.high_water \in SeqsOf(log.entries)
=============================================================================
