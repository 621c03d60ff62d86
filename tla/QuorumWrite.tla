---------------------------- MODULE QuorumWrite ----------------------------
(***************************************************************************)
(* The replica writer of one shard's owner                                 *)
(* (crates/nexora-zenoh/src/replica_writer.rs), with what it calls: the    *)
(* idempotency cache, the replication progress tracker, the circuit        *)
(* breakers and the spawned follower RPCs.  mode says which entry point a  *)
(* caller uses: "owner_first" is quorum_write, called after the owner has  *)
(* applied the write; "two_phase" is quorum_write_two_phase.  Calls of     *)
(* both may overlap on the one writer.                                     *)
(*                                                                         *)
(* A follower RPC runs in a task of its own.  The client may give up on it *)
(* (op_timeout, a broken connection) while the request is still on the     *)
(* wire, so a write that has failed can be applied by a follower later.    *)
(***************************************************************************)
EXTENDS Naturals, FiniteSets

CONSTANTS
    Followers,         \* followers of the shard
    Rank,              \* position of a follower in replica_set.followers
    Writes,            \* calls of the writer, duplicates and retries included
    RequestOf,         \* request_id of a call, or NoRequest
    NoRequest,
    Concern,           \* write_concern: "Majority", "All" or "One"
    FailureThreshold,  \* circuit_breaker_config.failure_threshold
    GcRuns             \* bound: may the idempotency GC evict (TTL elapsed)

ASSUME FollowersAssumption == IsFiniteSet(Followers)
ASSUME RankAssumption == Rank \in [Followers -> Nat]
ASSUME ThresholdAssumption == FailureThreshold \in Nat \ {0}
ASSUME ConcernAssumption == Concern \in {"Majority", "All", "One"}
ASSUME GcAssumption == GcRuns \in BOOLEAN

VARIABLES
    mode,        \* the entry point of each call (fixed by its caller)
    registered,  \* has the shard a replica set in replica_sets
    pc,          \* where each call is
    status,      \* what each call returned
    seq,         \* seq assigned to each call, 0 before
    handles,     \* followers whose task the call has still to await
    acked,       \* followers whose success the call has counted
    rpc,         \* state of each follower task of each call
    wire,        \* requests a follower has not handled yet
    replied,     \* requests a follower has answered with success
    applied,     \* calls each follower has applied
    owner,       \* calls applied on the owner's graph
    high_water,  \* the owner's replication log: the last seq handed out
    progress,    \* replication progress: commit index and acked seqs
    breaker,     \* circuit breaker of each follower
    cache        \* idempotency cache: request_id to cached result

callVars == <<pc, status, seq, handles, acked>>
netVars == <<rpc, wire, replied, applied>>
vars == <<mode, registered, callVars, netVars, owner, high_water, progress,
          breaker, cache>>

Modes == {"owner_first", "two_phase"}

Requests == {RequestOf[w] : w \in Writes} \ {NoRequest}

Statuses == {"none", "CommittedLocal", "CommittedQuorum", "AlreadyCommitted",
             "QuorumFailed", "Failed", "OwnerApplyFailed"}

-----------------------------------------------------------------------------
\* WriteConcern::min_acks, over the owner and its followers.
Total == 1 + Cardinality(Followers)

RequiredAcks ==
    CASE Concern = "Majority" -> (Total \div 2) + 1
      [] Concern = "All" -> Total
      [] Concern = "One" -> 1

\* ReplicaSet::min_ack: followers.len().div_ceil(2) + 1.
MinAck == ((Cardinality(Followers) + 1) \div 2) + 1

Acks(w) == 1 + Cardinality(acked[w])

-----------------------------------------------------------------------------
\* ReplicationProgress.  A follower is known once it has acked; the production
\* writer never calls init_shard, so an unknown follower is one with no ack.
Known(acks) == {f \in Followers : acks[f] > 0}

\* acked_seqs[len - quorum_size]: the greatest seq that a majority of the
\* known followers has reached.
QuorumSeq(acks) ==
    CHOOSE s \in {acks[f] : f \in Known(acks)} :
        \A t \in {acks[f] : f \in Known(acks)} :
            Cardinality({f \in Known(acks) : acks[f] >= t})
                >= (Cardinality(Known(acks)) \div 2) + 1 => t <= s

RecordWrite(p, s) ==
    [p EXCEPT !.last_written = IF s > @ THEN s ELSE @]

\* A fault: the tracker notes the next seq it expects, not the one acked.
RecordAckNext(p, f, s) ==
    [p EXCEPT !.acks[f] = s + 1,
              !.commit_index = IF s > @ THEN s ELSE @]

RecordAck(p, f, s) ==
    LET acks == [p.acks EXCEPT ![f] = IF s > @ THEN s ELSE @]
        q == QuorumSeq(acks)
    IN  [p EXCEPT !.acks = acks,
                  !.commit_index = IF q > @ THEN q ELSE @]

-----------------------------------------------------------------------------
\* CircuitBreakerState.  cooled says that reset_timeout (30 s) has passed since
\* last_failure; try_half_open uses the same 30 s.
ClosedBreaker == [fails |-> 0, state |-> "Closed", cooled |-> FALSE]

TryHalfOpen(b) ==
    IF b.state = "Open" /\ b.cooled THEN [b EXCEPT !.state = "HalfOpen"] ELSE b

ShouldSkip(b) == b.state = "Open" /\ ~b.cooled

RecordFailure(b) ==
    [fails |-> b.fails + 1,
     state |-> IF b.fails + 1 >= FailureThreshold THEN "Open" ELSE b.state,
     cooled |-> FALSE]

RecordSuccess(b) == ClosedBreaker

-----------------------------------------------------------------------------
Init ==
    /\ mode \in [Writes -> Modes]
    /\ registered \in BOOLEAN
    /\ pc = [w \in Writes |-> "new"]
    /\ status = [w \in Writes |-> "none"]
    /\ seq = [w \in Writes |-> 0]
    /\ handles = [w \in Writes |-> {}]
    /\ acked = [w \in Writes |-> {}]
    /\ rpc = [w \in Writes |-> [f \in Followers |-> "none"]]
    /\ wire = {}
    /\ replied = {}
    /\ applied = [f \in Followers |-> {}]
    /\ owner = {}
    /\ high_water = 0
    /\ progress = [commit_index |-> 0, last_written |-> 0,
                   acks |-> [f \in Followers |-> 0]]
    /\ breaker = [f \in Followers |-> ClosedBreaker]
    /\ cache = [r \in Requests |-> "absent"]

Return(w, result) ==
    /\ pc' = [pc EXCEPT ![w] = "returned"]
    /\ status' = [status EXCEPT ![w] = result]

\* register_replica_set: the shard gets followers after construction.
RegisterReplicaSet ==
    /\ ~registered
    /\ registered' = TRUE
    /\ UNCHANGED <<mode, callVars, netVars, owner, high_water, progress, breaker,
                   cache>>

\* check_duplicate.  An evicted entry is absent, too; the properties tell them
\* apart.
Cached(w) == RequestOf[w] # NoRequest /\ cache[RequestOf[w]] \in {"Committed", "Failed"}

\* The head of quorum_write.  The caller has applied the write on the owner.  A
\* cached request id of either outcome answers AlreadyCommitted.  The cache
\* lock is released before anything is recorded.
CheckDuplicate(w) ==
    /\ mode[w] = "owner_first" /\ pc[w] = "new"
    /\ owner' = owner \cup {w}
    /\ \/ /\ Cached(w)
          /\ Return(w, "AlreadyCommitted")
       \/ /\ ~Cached(w)
          /\ pc' = [pc EXCEPT ![w] = "checked"]
          /\ UNCHANGED status
    /\ UNCHANGED <<mode, registered, seq, handles, acked, netVars, high_water,
                   progress, breaker, cache>>

\* No replica set, or one without followers: returns without a seq and without
\* an entry in the idempotency cache.  The two-phase entry point starts here,
\* and its caller applies the write.
CommitLocal(w) ==
    /\ pc[w] = IF mode[w] = "two_phase" THEN "new" ELSE "checked"
    /\ ~registered \/ Followers = {}
    /\ Return(w, "CommittedLocal")
    /\ owner' = owner \cup {w}
    /\ UNCHANGED <<mode, registered, seq, handles, acked, netVars, high_water,
                   progress, breaker, cache>>

\* The followers the loop spawns a task for: the breakers are consulted by
\* quorum_write only.
Targets(w, b) ==
    IF mode[w] = "two_phase" THEN Followers
    ELSE {f \in Followers : ~ShouldSkip(b[f])}

\* record_owner, record_write and the spawning loop.  Of the locks taken between
\* them only record_owner's order shows: record_write keeps a maximum.
Replicate(w) ==
    LET tried == IF mode[w] = "two_phase" THEN breaker
                 ELSE [f \in Followers |-> TryHalfOpen(breaker[f])]
    IN  /\ pc[w] = IF mode[w] = "two_phase" THEN "new" ELSE "checked"
        /\ registered /\ Followers # {}
        /\ high_water' = high_water + 1
        /\ seq' = [seq EXCEPT ![w] = high_water + 1]
        /\ progress' = IF mode[w] = "two_phase" THEN progress
                       ELSE RecordWrite(progress, high_water + 1)
        /\ breaker' = tried
        /\ handles' = [handles EXCEPT ![w] = Targets(w, tried)]
        /\ rpc' = [rpc EXCEPT ![w] =
                      [f \in Followers |->
                          IF f \in Targets(w, tried) THEN "waiting" ELSE "none"]]
        /\ wire' = wire \cup ({w} \X Targets(w, tried))
        /\ pc' = [pc EXCEPT ![w] = "collecting"]
        /\ UNCHANGED <<mode, registered, status, acked, replied, applied, owner,
                       cache>>

-----------------------------------------------------------------------------
\* A follower handles the request and answers Ok.
FollowerApplies(w, f) ==
    /\ <<w, f>> \in wire
    /\ wire' = wire \ {<<w, f>>}
    /\ applied' = [applied EXCEPT ![f] = @ \cup {w}]
    /\ replied' = replied \cup {<<w, f>>}
    /\ UNCHANGED <<mode, registered, callVars, rpc, owner, high_water, progress,
                   breaker, cache>>

\* The request is lost, or the follower rejects it (fenced, apply error).
FollowerRejects(w, f) ==
    /\ <<w, f>> \in wire
    /\ wire' = wire \ {<<w, f>>}
    /\ UNCHANGED <<mode, registered, callVars, rpc, replied, applied, owner, high_water,
                   progress, breaker, cache>>

\* The task's execute returns Ok.  It runs whether or not the call still waits.
TaskSucceeds(w, f) ==
    /\ rpc[w][f] = "waiting" /\ <<w, f>> \in replied
    /\ rpc' = [rpc EXCEPT ![w][f] = "ok"]
    /\ breaker' = IF mode[w] = "two_phase" THEN breaker
                  ELSE [breaker EXCEPT ![f] = RecordSuccess(@)]
    /\ UNCHANGED <<mode, registered, callVars, wire, replied, applied, owner,
                   high_water, progress, cache>>

\* A fault: the task answers success whatever execute returned.
TaskIgnoresError(w, f) ==
    /\ rpc[w][f] = "waiting"
    /\ rpc' = [rpc EXCEPT ![w][f] = "ok"]
    /\ UNCHANGED <<mode, registered, callVars, wire, replied, applied, owner,
                   high_water, progress, breaker, cache>>

\* The task's execute returns Err: a rejection, a lost reply or the client's own
\* timeout, whatever the follower did or will do.
TaskFails(w, f) ==
    /\ rpc[w][f] = "waiting"
    /\ rpc' = [rpc EXCEPT ![w][f] = "err"]
    /\ breaker' = IF mode[w] = "two_phase" THEN breaker
                  ELSE [breaker EXCEPT ![f] = RecordFailure(@)]
    /\ UNCHANGED <<mode, registered, callVars, wire, replied, applied, owner,
                   high_water, progress, cache>>

\* Thirty seconds pass since the last failure of an open breaker.
BreakerCools(f) ==
    /\ breaker[f].state = "Open" /\ ~breaker[f].cooled
    /\ breaker' = [breaker EXCEPT ![f].cooled = TRUE]
    /\ UNCHANGED <<mode, registered, callVars, netVars, owner, high_water,
                   progress, cache>>

-----------------------------------------------------------------------------
\* One turn of the collecting loop: the tasks are awaited in the order of
\* replica_set.followers.  quorum_write records the ack in the progress tracker
\* and leaves the loop as soon as the write concern is met.
AwaitHandle(w, f) ==
    /\ pc[w] = "collecting" /\ f \in handles[w]
    /\ \A g \in handles[w] : Rank[f] <= Rank[g]
    /\ \/ /\ rpc[w][f] = "ok"
          /\ acked' = [acked EXCEPT ![w] = @ \cup {f}]
          /\ progress' = IF mode[w] = "two_phase" THEN progress
                         ELSE RecordAck(progress, f, seq[w])
          /\ handles' = [handles EXCEPT ![w] =
                IF mode[w] = "owner_first" /\ Acks(w) + 1 >= RequiredAcks
                THEN {} ELSE @ \ {f}]
       \/ /\ rpc[w][f] = "err"
          /\ handles' = [handles EXCEPT ![w] = @ \ {f}]
          /\ UNCHANGED <<acked, progress>>
    /\ UNCHANGED <<mode, registered, pc, status, seq, netVars, owner, high_water,
                   breaker, cache>>

\* A fault: the timeout is checked between tasks, not around the loop.
TimeoutBetweenTasks(w) ==
    /\ pc[w] = "collecting" /\ handles[w] # {}
    /\ \A f \in handles[w] : rpc[w][f] # "waiting"
    /\ handles' = [handles EXCEPT ![w] = {}]
    /\ UNCHANGED <<mode, registered, pc, status, seq, acked, netVars, owner,
                   high_water, progress, breaker, cache>>

\* write_timeout elapses: the loop is dropped, its tasks keep running.
Timeout(w) ==
    /\ pc[w] = "collecting" /\ handles[w] # {}
    /\ handles' = [handles EXCEPT ![w] = {}]
    /\ UNCHANGED <<mode, registered, pc, status, seq, acked, netVars, owner,
                   high_water, progress, breaker, cache>>

\* The outcome of quorum_write and its record in the idempotency cache.
Outcome(w) == IF Acks(w) >= RequiredAcks THEN "CommittedQuorum" ELSE "QuorumFailed"

\* A fault: only failures are recorded.
CacheFailuresOnly(w) ==
    IF RequestOf[w] = NoRequest \/ Outcome(w) = "CommittedQuorum" THEN cache
    ELSE [cache EXCEPT ![RequestOf[w]] = "Failed"]

CacheResult(w) ==
    IF RequestOf[w] = NoRequest THEN cache
    ELSE [cache EXCEPT ![RequestOf[w]] =
             IF Outcome(w) = "CommittedQuorum" THEN "Committed" ELSE "Failed"]

Finish(w) ==
    /\ mode[w] = "owner_first" /\ pc[w] = "collecting" /\ handles[w] = {}
    /\ Return(w, Outcome(w))
    /\ cache' = CacheResult(w)
    /\ UNCHANGED <<mode, registered, seq, handles, acked, netVars, owner, high_water,
                   progress, breaker>>

\* A fault: the owner's own ack is counted twice.
DecideWithOneLess(w) ==
    /\ mode[w] = "two_phase" /\ pc[w] = "collecting" /\ handles[w] = {}
    /\ \/ Acks(w) + 1 >= MinAck /\ pc' = [pc EXCEPT ![w] = "applying"]
                                /\ UNCHANGED status
       \/ Acks(w) + 1 < MinAck /\ Return(w, "Failed")
    /\ UNCHANGED <<mode, registered, seq, handles, acked, netVars, owner, high_water,
                   progress, breaker, cache>>

\* Phase 1 of the two-phase write ends: give up, or go on to the owner.
DecidePhaseOne(w) ==
    /\ mode[w] = "two_phase" /\ pc[w] = "collecting" /\ handles[w] = {}
    /\ \/ Acks(w) >= MinAck /\ pc' = [pc EXCEPT ![w] = "applying"]
                            /\ UNCHANGED status
       \/ Acks(w) < MinAck /\ Return(w, "Failed")
    /\ UNCHANGED <<mode, registered, seq, handles, acked, netVars, owner, high_water,
                   progress, breaker, cache>>

\* Phase 2: the owner_apply callback succeeds or fails.
OwnerApply(w) ==
    /\ pc[w] = "applying"
    /\ \/ owner' = owner \cup {w} /\ Return(w, "CommittedQuorum")
       \/ UNCHANGED owner /\ Return(w, "OwnerApplyFailed")
    /\ UNCHANGED <<mode, registered, seq, handles, acked, netVars, high_water,
                   progress, breaker, cache>>

\* The background GC evicts an entry whose TTL has elapsed.
Gc(r) ==
    /\ GcRuns /\ cache[r] \in {"Committed", "Failed"}
    /\ cache' = [cache EXCEPT ![r] = "evicted"]
    /\ UNCHANGED <<mode, registered, callVars, netVars, owner, high_water,
                   progress, breaker>>

Done == /\ \A w \in Writes : pc[w] = "returned"
        /\ wire = {}
        /\ \A w \in Writes, f \in Followers : rpc[w][f] # "waiting"

Call(w) ==
    \/ CheckDuplicate(w) \/ CommitLocal(w) \/ Replicate(w) \/ Timeout(w)
    \/ Finish(w) \/ DecidePhaseOne(w) \/ OwnerApply(w)
    \/ \E f \in Followers : AwaitHandle(w, f)

Rpc(w, f) ==
    \/ FollowerApplies(w, f) \/ FollowerRejects(w, f)
    \/ TaskSucceeds(w, f) \/ TaskFails(w, f)

Next ==
    \/ RegisterReplicaSet
    \/ \E w \in Writes : Call(w)
    \/ \E w \in Writes, f \in Followers : Rpc(w, f)
    \/ \E f \in Followers : BreakerCools(f)
    \/ \E r \in Requests : Gc(r)
    \/ Done /\ UNCHANGED vars

Spec == Init /\ [][Next]_vars

\* The runtime polls every call, and its timer fires: Timeout is one of the
\* steps of Call.  Nothing is assumed of the followers or of the network.
FairSpec == Spec /\ \A w \in Writes : WF_vars(Call(w))

-----------------------------------------------------------------------------
\* Types; no call, ack or commit index is ahead of the seqs the log has handed out.
TypeOK ==
    /\ mode \in [Writes -> Modes]
    /\ registered \in BOOLEAN
    /\ pc \in [Writes -> {"new", "checked", "collecting", "applying", "returned"}]
    /\ status \in [Writes -> Statuses]
    /\ high_water \in Nat
    /\ seq \in [Writes -> 0..high_water]
    /\ handles \in [Writes -> SUBSET Followers]
    /\ acked \in [Writes -> SUBSET Followers]
    /\ rpc \in [Writes -> [Followers -> {"none", "waiting", "ok", "err"}]]
    /\ wire \subseteq Writes \X Followers
    /\ replied \subseteq Writes \X Followers
    /\ applied \in [Followers -> SUBSET Writes]
    /\ owner \subseteq Writes
    /\ progress \in [commit_index : 0..high_water, last_written : 0..high_water,
                     acks : [Followers -> 0..high_water]]
    /\ breaker \in [Followers -> [fails : Nat, cooled : BOOLEAN,
                                 state : {"Closed", "Open", "HalfOpen"}]]
    /\ cache \in [Requests -> {"absent", "evicted", "Committed", "Failed"}]

\* The replicas, owner included, that hold a write.
Holders(w) == (IF w \in owner THEN 1 ELSE 0)
              + Cardinality({f \in Followers : w \in applied[f]})

\* The acks a call needs: the write concern's for quorum_write, the replica
\* set's min_ack for the two-phase write.
Needed(w) == IF mode[w] = "two_phase" THEN MinAck ELSE RequiredAcks

\* A call that returns CommittedQuorum has its write on as many replicas as the
\* write concern (or min_ack) asks for, whatever timed out, was skipped by a
\* breaker or answered late.
CommittedIsReplicated ==
    \A w \in Writes : status[w] = "CommittedQuorum" => Holders(w) >= Needed(w)

\* The commit index is the seq of a write that the owner and at least one
\* follower hold.  record_ack takes its quorum over the followers that have acked
\* so far, so this is all that it promises: a majority at replication factor 3,
\* less than one at 5 (ShardProgress::commit_index is "Highest sequence number
\* committed to a quorum").
CommitIndexReplicated ==
    progress.commit_index > 0 =>
        \E w \in Writes : seq[w] = progress.commit_index /\ Holders(w) >= 2

\* AlreadyCommitted: the duplicate's request was committed before.
AlreadyCommittedIsDurable ==
    \A w \in Writes : status[w] = "AlreadyCommitted" =>
        \E v \in Writes : RequestOf[v] = RequestOf[w] /\ status[v] = "CommittedQuorum"

\* A retry of a request that a finished call committed is sent to the followers
\* again only if the GC has evicted the request's entry, whatever other calls
\* have since recorded under the same id (the check of quorum_write against the
\* cache, with retries that overlap the first attempt; quorum_write_two_phase
\* does not use the cache).
CommittedRequestNotResent ==
    [][\A v, w \in Writes :
         /\ pc[w] = "new" /\ pc[w]' = "checked"
         /\ RequestOf[w] # NoRequest /\ RequestOf[v] = RequestOf[w]
         /\ mode[v] = "owner_first" /\ status[v] = "CommittedQuorum"
         => cache[RequestOf[w]] = "evicted"]_vars

\* The two-phase write reaches the owner only when enough followers hold it, and
\* never when the call reports Failed.
OwnerAfterQuorum ==
    \A w \in owner : mode[w] = "two_phase" /\ seq[w] > 0
        => Holders(w) >= MinAck /\ status[w] # "Failed"

\* What the writer reports is true of the replicas, whichever entry points the
\* overlapping calls use: the commit index is the seq of a replicated write, and
\* the owner has nothing of a two-phase call whose followers did not reach their
\* quorum (types included).
ReportsTrue == TypeOK /\ CommitIndexReplicated /\ OwnerAfterQuorum

\* Every call that has started returns, though followers may never answer and
\* the network may lose everything: write_timeout bounds the wait.
EveryCallReturns ==
    \A w \in Writes : pc[w] # "new" ~> pc[w] = "returned"
=============================================================================
