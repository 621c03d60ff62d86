----------------------------- MODULE StreamSource -----------------------------
(***************************************************************************)
(* The two replayable stream sources of nexora-stream, as operators on a   *)
(* record:                                                                 *)
(*                                                                         *)
(*   pos      next offset the live consumer reads, per partition           *)
(*   seq      (Kinesis) ShardCursor.last_sequence plus one                 *)
(*   count    (Kinesis) the synthetic offset counter                       *)
(*   saved    next offset a new consumer starts at: the broker's committed *)
(*            offset (Kafka) or the offset store's sequence (Kinesis)      *)
(*   last     stats.last_offset, what the commit timer commits again       *)
(*   fails    StreamCircuitBreaker.failure_count                           *)
(*   recent   the breaker's last failure is younger than its timeout       *)
(*                                                                         *)
(* A record is the pair of its partition and its offset.                   *)
(***************************************************************************)
EXTENDS Naturals, FiniteSets

CONSTANTS
    Partition,          \* Kafka partitions, or Kinesis shards
    FailureThreshold,   \* failures that open the breaker
    MaxBatch,           \* records one GetRecords returns at most
    None                \* no offset

ASSUME StreamSourceAssumption ==
    /\ FailureThreshold \in Nat \ {0}
    /\ MaxBatch \in Nat \ {0}

Zeros == [p \in Partition |-> 0]

Records(p, from, to) == {<<p, o>> : o \in from .. to - 1}

NewSource ==
    [pos |-> Zeros, seq |-> Zeros, count |-> 0, saved |-> Zeros, last |-> None,
     fails |-> 0, recent |-> FALSE]

(* connect: a new consumer, which starts where the last commit left off, or at
   the oldest record. *)
Connect(s) == [NewSource EXCEPT !.pos = s.saved, !.saved = s.saved]

(* KafkaSource::seek: one past the last processed offset. *)
SeekPastEnd(s, offsets) ==
    [s EXCEPT !.pos = [p \in Partition |->
        IF offsets[p] = None THEN s.pos[p] ELSE offsets[p] + 2]]

Seek(s, offsets) ==
    [s EXCEPT !.pos = [p \in Partition |->
        IF offsets[p] = None THEN s.pos[p] ELSE offsets[p] + 1]]

(* KafkaSource::poll: one message; offset_end is one past it, and the pipeline
   takes one off again. *)
PollKafka(s, p) ==
    [source |-> [s EXCEPT !.pos[p] = @ + 1],
     batch  |-> [records |-> {<<p, s.pos[p]>>}, partition |-> p, offset |-> s.pos[p]]]

(* The end of what one GetRecords on shard p reads, of the `ends` produced. *)
ReadEnd(s, ends, p) ==
    IF s.pos[p] + MaxBatch <= ends[p] THEN s.pos[p] + MaxBatch ELSE ends[p]

(* One GetRecords on every shard of `shards`: the iterator and the last sequence
   number both move. *)
GetRecords(s, ends, shards) ==
    [s EXCEPT !.pos = [p \in Partition |->
                         IF p \in shards THEN ReadEnd(s, ends, p) ELSE s.pos[p]],
              !.seq = [p \in Partition |->
                         IF p \in shards /\ s.pos[p] < ends[p]
                           THEN ReadEnd(s, ends, p) ELSE s.seq[p]]]

Fetched(s, ends, shards) == UNION {Records(p, s.pos[p], ReadEnd(s, ends, p)) : p \in shards}

(* A round over all the shards that succeeds, closed by the breaker's success
   branch; `p` is the last shard of the round that had records. *)
PollKinesis(s, ends, p) ==
    LET got == Fetched(s, ends, Partition)
    IN  [source |-> [GetRecords(s, ends, Partition) EXCEPT
                       !.count = @ + Cardinality(got), !.fails = 0],
         batch  |-> [records |-> got, partition |-> p,
                     offset |-> s.count + Cardinality(got) - 1]]

(* A round that finds no record anywhere: Ok(None), a success for the breaker. *)
PollNothing(s) == [s EXCEPT !.fails = 0]

(* A round that fails after reading `shards`: what it read is dropped, the
   cursors stay moved, and the breaker counts the failure. *)
PollKinesisFails(s, ends, shards) ==
    [GetRecords(s, ends, shards) EXCEPT !.fails = IF @ < FailureThreshold THEN @ + 1 ELSE @,
                                        !.recent = TRUE]

(* StreamCircuitBreaker::get_state. *)
BreakerNeverHalfOpen(s) == IF s.fails >= FailureThreshold THEN "open" ELSE "closed"

BreakerState(s) ==
    CASE s.fails < FailureThreshold -> "closed"
      [] s.fails >= FailureThreshold /\ s.recent -> "open"
      [] OTHER -> "halfopen"

(* commit: Kafka sends the offset after the one given; Kinesis ignores it and
   saves the last sequence of every shard. Both note it in their stats first. *)
Noted(s, part, offset) == [s EXCEPT !.last = [partition |-> part, offset |-> offset]]

CommitKafka(s, part, offset) ==
    [Noted(s, part, offset) EXCEPT !.saved[part] = offset + 1]

CommitKinesis(s, part, offset) ==
    [Noted(s, part, offset) EXCEPT !.saved =
        [p \in Partition |-> IF s.seq[p] > 0 THEN s.seq[p] ELSE @[p]]]
===============================================================================
