------------------------------ MODULE EventLog ------------------------------
(***************************************************************************)
(* The event log of nexora-eventlog: MicrobatchWriter buffers the events   *)
(* of a topic and flushes them to the topic's Iceberg table through        *)
(* EventLogStore::append, which retries whole attempts.                    *)
(*                                                                         *)
(* One topic.  The table is append-only, so it is the sequence of the data *)
(* files committed to it (each the set of events of one batch), and a      *)
(* snapshot id is a length of that sequence.                               *)
(***************************************************************************)
EXTENDS Naturals, Sequences, FiniteSets

CONSTANTS
  Event,            \* the events clients append, one append call each
  MaxAttempts,      \* RetryConfig::conservative().max_attempts
  MaxCommitTries,   \* MAX_RETRIES of commit_data_files_internal
  StartBatchSize,   \* MicrobatchConfig::max_batch_size
  EventPlan         \* the workloads: records [events, faults, drains, latencies, ...]

ASSUME EventLogAssumption ==
  /\ MaxAttempts \in Nat \ {0}
  /\ MaxCommitTries \in Nat \ {0}
  /\ StartBatchSize \in Nat \ {0}
  /\ {"worker", "drain"} \cap Event = {}
  /\ \A p \in EventPlan : {"events", "faults", "drains", "latencies"} \subseteq DOMAIN p

VARIABLES
  todo,        \* what is left of the workload
  call,        \* event -> state of its append call
  buffer,      \* the events of the TopicBuffer ({}: no buffer)
  batchSize,   \* config.max_batch_size
  flush,       \* flusher -> its flush_topic call
  table,       \* the files committed to the topic's table
  ambiguous    \* history: events of an attempt that failed after its commit landed

logVars == <<todo, call, buffer, batchSize, flush, table, ambiguous>>

(* flush_topic is called by the background worker, by flush_all and by the *)
(* task a size-triggered append spawns, named after the event.             *)
Flusher == Event \cup {"worker", "drain"}

NoFlush == [pc |-> "idle", events |-> {}, attempt |-> 0, base |-> 0, tries |-> 0]

InFlight == {f \in Flusher : flush[f].pc \in {"load", "commit", "landed"}}

LogInit ==
  /\ todo \in EventPlan
  /\ call = [e \in Event |-> "idle"]
  /\ buffer = {}
  /\ batchSize = StartBatchSize
  /\ flush = [f \in Flusher |-> NoFlush]
  /\ table = <<>>
  /\ ambiguous = {}

-----------------------------------------------------------------------------
(* MicrobatchWriter::append: buffer the event and its sender under the     *)
(* lock; a full buffer spawns a flush; then wait for the answer.           *)
AppendEvent(e) ==
  /\ e \in todo.events
  /\ todo' = [todo EXCEPT !.events = @ \ {e}]
  /\ call' = [call EXCEPT ![e] = "waiting"]
  /\ buffer' = buffer \cup {e}
  /\ flush' = IF Cardinality(buffer') >= batchSize
              THEN [flush EXCEPT ![e].pc = "take"]
              ELSE flush
  /\ UNCHANGED <<batchSize, table, ambiguous>>

(* A worker that only looks for full buffers.                              *)
TickWhenFull ==
  /\ flush["worker"].pc = "idle"
  /\ Cardinality(buffer) >= batchSize
  /\ flush' = [flush EXCEPT !["worker"].pc = "take"]
  /\ UNCHANGED <<todo, call, buffer, batchSize, table, ambiguous>>

(* A tick of the flush worker that finds the buffer max_delay_ms old.      *)
Tick ==
  /\ flush["worker"].pc = "idle"
  /\ buffer # {}
  /\ flush' = [flush EXCEPT !["worker"].pc = "take"]
  /\ UNCHANGED <<todo, call, buffer, batchSize, table, ambiguous>>

(* flush_all, called before shutdown.                                      *)
FlushAll ==
  /\ todo.drains > 0
  /\ flush["drain"].pc = "idle"
  /\ buffer # {}
  /\ todo' = [todo EXCEPT !.drains = @ - 1]
  /\ flush' = [flush EXCEPT !["drain"].pc = "take"]
  /\ UNCHANGED <<call, buffer, batchSize, table, ambiguous>>

(* A flush that reads the buffer and removes it in two steps.              *)
TakeBufferTwice(f) ==
  /\ flush[f].pc = "take"
  /\ flush' = [flush EXCEPT ![f] = IF buffer = {} THEN NoFlush
                 ELSE [@ EXCEPT !.pc = "load", !.events = buffer, !.attempt = 1]]
  /\ buffer' \in {{}, buffer}
  /\ UNCHANGED <<todo, call, batchSize, table, ambiguous>>

(* flush_topic removes the buffer under the lock, or finds it already      *)
(* flushed by another task.                                                *)
TakeBuffer(f) ==
  /\ flush[f].pc = "take"
  /\ flush' = [flush EXCEPT ![f] = IF buffer = {} THEN NoFlush
                 ELSE [@ EXCEPT !.pc = "load", !.events = buffer, !.attempt = 1]]
  /\ buffer' = {}
  /\ UNCHANGED <<todo, call, batchSize, table, ambiguous>>

(* append_internal up to the commit: ensure_table loads (or creates) the   *)
(* table and write_data_files writes files no snapshot refers to yet.      *)
PrepareAttempt(f) ==
  /\ flush[f].pc = "load"
  /\ flush' = [flush EXCEPT ![f].pc = "commit", ![f].base = Len(table), ![f].tries = 1]
  /\ UNCHANGED <<todo, call, buffer, batchSize, table, ambiguous>>

(* A commit that takes its own snapshot for a conflict and tries again.    *)
CommitLandsTwice(f) ==
  /\ flush[f].pc = "commit"
  /\ flush[f].base = Len(table)
  /\ table' = Append(table, flush[f].events)
  /\ flush' = [flush EXCEPT ![f] = IF @.tries < MaxCommitTries
                 THEN [@ EXCEPT !.tries = @ + 1, !.base = Len(table')]
                 ELSE [@ EXCEPT !.pc = "landed"]]
  /\ UNCHANGED <<todo, call, buffer, batchSize, ambiguous>>

(* The catalog accepts the fast_append of a transaction whose base is      *)
(* still the current snapshot.                                             *)
CommitLands(f) ==
  /\ flush[f].pc = "commit"
  /\ flush[f].base = Len(table)
  /\ table' = Append(table, flush[f].events)
  /\ flush' = [flush EXCEPT ![f].pc = "landed"]
  /\ UNCHANGED <<todo, call, buffer, batchSize, ambiguous>>

-----------------------------------------------------------------------------
(* adjust_batch_size: the floor and the cap are the code's.                *)
MinBatch == 100
MaxBatchSize == 10000
Smaller(a, b) == IF a < b THEN a ELSE b
Larger(a, b) == IF a > b THEN a ELSE b

(* The adjustment without its floor.                                       *)
AdjustUnfloored(latency, count) ==
  IF latency = "low" /\ count >= batchSize
  THEN Smaller((batchSize * 12) \div 10, MaxBatchSize)
  ELSE IF latency = "high" THEN (batchSize * 8) \div 10
  ELSE batchSize

AdjustBatchSize(latency, count) ==
  IF latency = "low" /\ count >= batchSize
  THEN Smaller((batchSize * 12) \div 10, MaxBatchSize)
  ELSE IF latency = "high" THEN Larger((batchSize * 8) \div 10, MinBatch)
  ELSE batchSize

(* flush_topic after store.append returned: adjust the batch size by the   *)
(* latency, then send every waiting sender the result.                     *)
Answer(f, result) ==
  /\ \E latency \in todo.latencies :
       batchSize' = AdjustBatchSize(latency, Cardinality(flush[f].events))
  /\ call' = [e \in Event |-> IF e \in flush[f].events THEN result ELSE call[e]]
  /\ flush' = [flush EXCEPT ![f] = NoFlush]

AppendSucceeds(f) ==
  /\ flush[f].pc = "landed"
  /\ Answer(f, "ok")
  /\ UNCHANGED <<todo, buffer, table, ambiguous>>

(* retry_with_backoff_config: a failed attempt starts append_internal over *)
(* until the attempts are used up; the error then goes to the senders.     *)
RetryOrFail(f) ==
  IF flush[f].attempt < MaxAttempts
  THEN /\ flush' = [flush EXCEPT ![f].pc = "load", ![f].attempt = @ + 1]
       /\ UNCHANGED <<call, batchSize>>
  ELSE Answer(f, "failed")

(* Another writer's commit came first: reload the table and try again, at  *)
(* most MaxCommitTries times within the attempt.                           *)
CommitConflict(f) ==
  /\ flush[f].pc = "commit"
  /\ flush[f].base # Len(table)
  /\ IF flush[f].tries < MaxCommitTries
     THEN /\ flush' = [flush EXCEPT ![f].tries = @ + 1, ![f].base = Len(table)]
          /\ UNCHANGED <<call, batchSize>>
     ELSE RetryOrFail(f)
  /\ UNCHANGED <<todo, buffer, table, ambiguous>>

(* An attempt fails or runs into its 30 s timeout, wherever it is: before  *)
(* the commit, or after the commit landed and before the answer was read.  *)
(* A call an open breaker rejects is such a failure.                       *)
AttemptFails(f) ==
  /\ todo.faults > 0
  /\ f \in InFlight
  /\ todo' = [todo EXCEPT !.faults = @ - 1]
  /\ ambiguous' = IF flush[f].pc = "landed" THEN ambiguous \cup flush[f].events ELSE ambiguous
  /\ RetryOrFail(f)
  /\ UNCHANGED <<buffer, table>>

FlushStep(f) ==
  \/ TakeBuffer(f) \/ PrepareAttempt(f) \/ CommitLands(f)
  \/ CommitConflict(f) \/ AppendSucceeds(f)

LogNext ==
  \/ \E e \in Event : AppendEvent(e)
  \/ Tick
  \/ FlushAll
  \/ \E f \in Flusher : FlushStep(f) \/ AttemptFails(f)

(* The worker's timer and the spawned tasks run; failures need not happen. *)
LogFairness == WF_logVars(Tick) /\ \A f \in Flusher : WF_logVars(FlushStep(f))

-----------------------------------------------------------------------------
LogTypeOK ==
  /\ call \in [Event -> {"idle", "waiting", "ok", "failed"}]
  /\ buffer \subseteq Event
  /\ batchSize \in 1 .. Larger(StartBatchSize, MaxBatchSize)
  /\ flush \in [Flusher -> [pc : {"idle", "take", "load", "commit", "landed"},
                            events : SUBSET Event, attempt : 0 .. MaxAttempts,
                            base : 0 .. Len(table), tries : 0 .. MaxCommitTries]]
  /\ table \in Seq(SUBSET Event)
  /\ ambiguous \subseteq Event

(* The copies of an event in the table.                                    *)
Copies(e, n) == Cardinality({i \in 1 .. n : e \in table[i]})

(* An append answered Ok is in the table, and the events still waiting are *)
(* in the buffer or in exactly one flush: no flush drops or shares them.   *)
OkIsCommitted ==
  \A e \in Event :
    /\ call[e] = "ok" => Copies(e, Len(table)) >= 1
    /\ call[e] = "waiting" <=>
         Cardinality({f \in Flusher : e \in flush[f].events})
           + (IF e \in buffer THEN 1 ELSE 0) = 1

(* append retries an operation that is not idempotent; still an event is   *)
(* in the table twice only if an attempt failed after its commit landed.   *)
AppendedOnceUnlessAmbiguous ==
  \A e \in Event \ ambiguous : Copies(e, Len(table)) <= 1

(* The writer's promise: no acknowledged event is missing, and none is     *)
(* doubled but by an attempt whose outcome was unknown.                    *)
AppendsExact == OkIsCommitted /\ AppendedOnceUnlessAmbiguous

(* Every append call is answered: a full buffer is flushed by the task it  *)
(* spawns, any other by the worker's timer, and retries are bounded.       *)
AppendPending == \E e \in Event : call[e] = "waiting"
EveryAppendAnswered == AppendPending ~> ~AppendPending
=============================================================================
