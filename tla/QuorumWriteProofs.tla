-------------------------- MODULE QuorumWriteProofs --------------------------
(***************************************************************************)
(* For any followers, calls, request ids, threshold and either entry       *)
(* point: a write reported as CommittedQuorum is on as many replicas as    *)
(* its write concern asks for, what the writer reports of its writes is    *)
(* true, and a committed request is not sent again.                        *)
(***************************************************************************)
EXTENDS QuorumWrite, FiniteSetTheorems, WellFoundedInduction, TLAPS

\* The part of the type invariant the argument uses.
Shape ==
    /\ mode \in [Writes -> Modes]
    /\ pc \in [Writes -> {"new", "checked", "collecting", "applying", "returned"}]
    /\ status \in [Writes -> Statuses]
    /\ acked \in [Writes -> SUBSET Followers]
    /\ handles \in [Writes -> SUBSET Followers]
    /\ rpc \in [Writes -> [Followers -> {"none", "waiting", "ok", "err"}]]
    /\ applied \in [Followers -> SUBSET Writes]

\* Where an ack comes from: a counted ack is a task that succeeded, a task
\* succeeds on a reply, a follower replies after it applied.
AcksAreReal ==
    \A w \in Writes, f \in Followers :
        /\ f \in acked[w] => rpc[w][f] = "ok"
        /\ rpc[w][f] = "ok" => <<w, f>> \in replied
        /\ <<w, f>> \in replied => w \in applied[f]

\* What the pc and the status of a call say of its acks and of the owner.
StatusIsEarned ==
    \A w \in Writes :
        /\ mode[w] = "owner_first" /\ pc[w] # "new" => w \in owner
        /\ pc[w] = "applying" => mode[w] = "two_phase" /\ Acks(w) >= MinAck
        /\ pc[w] # "returned" => status[w] # "CommittedQuorum"
        /\ pc[w] = "new" => acked[w] = {} /\ \A f \in Followers : rpc[w][f] = "none"
        /\ pc[w] = "checked" => acked[w] = {} /\ \A f \in Followers : rpc[w][f] = "none"
        /\ status[w] = "CommittedQuorum" => w \in owner /\ Acks(w) >= Needed(w)

IInv == Shape /\ AcksAreReal /\ StatusIsEarned

\* The counted acks and the owner are distinct holders of the write.
LEMMA HoldersCoverAcks ==
    ASSUME Shape, AcksAreReal, NEW w \in Writes, w \in owner
    PROVE  Holders(w) >= Acks(w)
<1> DEFINE H == {f \in Followers : w \in applied[f]}
<1>1. acked[w] \subseteq H
  BY Zenon DEF Shape, AcksAreReal
<1>2. IsFiniteSet(H)
  BY FollowersAssumption, FS_Subset
<1>3. Cardinality(acked[w]) <= Cardinality(H)
  BY <1>1, <1>2, FS_Subset
<1>4. Cardinality(H) \in Nat /\ Cardinality(acked[w]) \in Nat
  BY <1>1, <1>2, FS_Subset, FS_CardinalityType
<1> HIDE DEF H
<1>5. Holders(w) = 1 + Cardinality(H)
  BY DEF Holders, H
<1> QED
  BY <1>3, <1>4, <1>5 DEF Acks

\* The invariant gives the property.
LEMMA IInvCommitted == IInv => CommittedIsReplicated
<1> SUFFICES ASSUME IInv, NEW w \in Writes, status[w] = "CommittedQuorum"
             PROVE  Holders(w) >= Needed(w)
  BY DEF CommittedIsReplicated
<1>1. w \in owner /\ Acks(w) >= Needed(w)
  BY DEF IInv, StatusIsEarned
<1>2. Holders(w) >= Acks(w)
  BY <1>1, HoldersCoverAcks DEF IInv
<1>3. IsFiniteSet(acked[w]) /\ IsFiniteSet({f \in Followers : w \in applied[f]})
  BY FollowersAssumption, FS_Subset DEF IInv, Shape
<1>4. Acks(w) \in Nat /\ Holders(w) \in Nat
  BY <1>3, FS_CardinalityType DEF Acks, Holders
<1>5. Cardinality(Followers) \in Nat
  BY FollowersAssumption, FS_CardinalityType
<1>6. Needed(w) \in Nat
  BY <1>5, ConcernAssumption DEF Needed, MinAck, RequiredAcks, Total
<1> QED
  BY <1>1, <1>2, <1>4, <1>6

LEMMA InitIInv == Init => IInv
  BY DEF Init, IInv, Shape, AcksAreReal, StatusIsEarned, Statuses, Modes

\* A call keeps its entry point.
LEMMA ModeFixed == [Next]_vars => mode' = mode
  BY Zenon DEF Next, Call, Rpc, vars, RegisterReplicaSet, CheckDuplicate, CommitLocal, Replicate,
     Timeout, Finish, DecidePhaseOne, OwnerApply, AwaitHandle, FollowerApplies,
     FollowerRejects, TaskSucceeds, TaskFails, BreakerCools, Gc

\* Every action keeps the invariant.
LEMMA NextIInv == IInv /\ [Next]_vars => IInv'
<1> SUFFICES ASSUME IInv, [Next]_vars PROVE IInv'
  OBVIOUS
<1>m. mode' = mode
  BY ModeFixed
<1>0. MinAck' = MinAck /\ \A w \in Writes : Needed(w)' = Needed(w)
  BY <1>m DEF Needed
<1> USE <1>m, <1>0
<1> USE DEF IInv, Shape, AcksAreReal, StatusIsEarned, Statuses, Acks, Modes
<1>1. CASE RegisterReplicaSet
  BY <1>1 DEF RegisterReplicaSet, callVars, netVars
<1>2. ASSUME NEW w \in Writes, CheckDuplicate(w) PROVE IInv'
  <2>1. /\ mode[w] = "owner_first" /\ pc[w] = "new" /\ owner' = owner \cup {w}
        /\ UNCHANGED <<handles, acked, rpc, replied, applied>>
    BY <1>2 DEF CheckDuplicate, netVars
  <2>2. CASE pc' = [pc EXCEPT ![w] = "checked"] /\ UNCHANGED status
    BY <2>1, <2>2
  <2>3. CASE Return(w, "AlreadyCommitted")
    BY <2>1, <2>3 DEF Return
  <2> QED
    BY <1>2, <2>2, <2>3 DEF CheckDuplicate
<1>3. ASSUME NEW w \in Writes, CommitLocal(w) PROVE IInv'
  BY <1>3 DEF CommitLocal, Return, netVars
<1>4. ASSUME NEW w \in Writes, Replicate(w) PROVE IInv'
  <2> DEFINE b == IF mode[w] = "two_phase" THEN breaker
                  ELSE [f \in Followers |-> TryHalfOpen(breaker[f])]
  <2>1. /\ handles' = [handles EXCEPT ![w] = Targets(w, b)]
        /\ rpc' = [rpc EXCEPT ![w] =
             [f \in Followers |-> IF f \in Targets(w, b) THEN "waiting" ELSE "none"]]
    BY <1>4, Zenon DEF Replicate
  <2> HIDE DEF b
  <2>2. Targets(w, b) \subseteq Followers
    BY DEF Targets
  <2>3. /\ pc[w] = IF mode[w] = "two_phase" THEN "new" ELSE "checked"
        /\ pc' = [pc EXCEPT ![w] = "collecting"]
        /\ UNCHANGED <<status, acked, replied, applied, owner>>
    BY <1>4 DEF Replicate
  <2>4. Shape'
    BY <2>1, <2>2, <2>3
  <2>5. acked[w] = {}
    BY <2>3
  <2>7. mode[w] = "owner_first" => w \in owner
    BY <2>3
  <2>8. ASSUME NEW v \in Writes, v # w
        PROVE  pc'[v] = pc[v] /\ rpc'[v] = rpc[v]
    BY <2>1, <2>3, <2>8
  <2>6. AcksAreReal'
    <3> SUFFICES ASSUME NEW v \in Writes, NEW g \in Followers
                 PROVE  AcksAreReal!(v, g)'
      BY Zenon
    <3>1. CASE v = w
      <4>1. rpc'[w][g] # "ok" /\ g \notin acked'[w]
        BY <2>1, <2>3, <2>5
      <4> QED
        BY <2>3, <3>1, <4>1
    <3>2. CASE v # w
      BY <2>3, <2>8, <3>2
    <3> QED
      BY <3>1, <3>2
  <2>9. pc'[w] = "collecting" /\ status[w] # "CommittedQuorum"
    BY <2>3
  <2>10. StatusIsEarned'
    <3> SUFFICES ASSUME NEW v \in Writes PROVE StatusIsEarned!(v)'
      OBVIOUS
    <3>1. CASE v = w
      BY <1>0, <2>3, <2>7, <2>9, <3>1
    <3>2. CASE v # w
      BY <1>0, <2>3, <2>8, <3>2
    <3> QED
      BY <3>1, <3>2
  <2> QED
    BY <2>4, <2>6, <2>10
<1>5. ASSUME NEW w \in Writes, Timeout(w) PROVE IInv'
  BY <1>5 DEF Timeout, netVars
<1>6. ASSUME NEW w \in Writes, Finish(w) PROVE IInv'
  BY <1>6 DEF Finish, Return, Outcome, Needed, netVars
<1>7. ASSUME NEW w \in Writes, DecidePhaseOne(w) PROVE IInv'
  <2>1. /\ mode[w] = "two_phase" /\ pc[w] = "collecting"
        /\ UNCHANGED <<handles, acked, rpc, replied, applied, owner>>
    BY <1>7 DEF DecidePhaseOne, netVars
  <2>2. CASE /\ Acks(w) >= MinAck /\ pc' = [pc EXCEPT ![w] = "applying"]
             /\ UNCHANGED status
    BY <1>0, <2>1, <2>2
  <2>3. CASE Return(w, "Failed")
    BY <1>0, <2>1, <2>3 DEF Return
  <2> QED
    BY <1>7, <2>2, <2>3 DEF DecidePhaseOne
<1>8. ASSUME NEW w \in Writes, OwnerApply(w) PROVE IInv'
  <2>1. /\ pc[w] = "applying" /\ Acks(w) >= Needed(w)
        /\ UNCHANGED <<handles, acked, rpc, replied, applied>>
    BY <1>8 DEF OwnerApply, Needed, netVars
  <2>2. CASE owner' = owner \cup {w} /\ Return(w, "CommittedQuorum")
    BY <1>0, <2>1, <2>2 DEF Return
  <2>3. CASE UNCHANGED owner /\ Return(w, "OwnerApplyFailed")
    BY <1>0, <2>1, <2>3 DEF Return
  <2> QED
    BY <1>8, <2>2, <2>3 DEF OwnerApply
<1>9. ASSUME NEW w \in Writes, NEW f \in Followers, AwaitHandle(w, f) PROVE IInv'
  <2>1. /\ pc[w] = "collecting"
        /\ UNCHANGED <<pc, status, rpc, replied, applied, owner>>
    BY <1>9 DEF AwaitHandle, netVars
  <2>2. \/ handles' = [handles EXCEPT ![w] = {}]
        \/ handles' = [handles EXCEPT ![w] = @ \ {f}]
    BY <1>9 DEF AwaitHandle
  <2>3. CASE rpc[w][f] = "ok" /\ acked' = [acked EXCEPT ![w] = @ \cup {f}]
    <3>1. Shape' /\ AcksAreReal'
      BY <2>1, <2>2, <2>3
    <3>2. ASSUME NEW v \in Writes, v # w PROVE acked'[v] = acked[v]
      BY <2>3, <3>2
    <3>3. StatusIsEarned'
      BY <1>0, <2>1, <3>2
    <3> QED
      BY <3>1, <3>3
  <2>4. CASE UNCHANGED acked
    <3>1. Shape'
      BY <2>1, <2>2, <2>4
    <3>2. AcksAreReal' /\ StatusIsEarned'
      BY <1>0, <2>1, <2>4
    <3> QED
      BY <3>1, <3>2
  <2> QED
    BY <1>9, <2>3, <2>4 DEF AwaitHandle
<1>10. ASSUME NEW w \in Writes, NEW f \in Followers, FollowerApplies(w, f) PROVE IInv'
  BY <1>10 DEF FollowerApplies, callVars
<1>11. ASSUME NEW w \in Writes, NEW f \in Followers, FollowerRejects(w, f) PROVE IInv'
  BY <1>11 DEF FollowerRejects, callVars
<1>12. ASSUME NEW w \in Writes, NEW f \in Followers, TaskSucceeds(w, f) PROVE IInv'
  <2>1. /\ rpc[w][f] = "waiting" /\ <<w, f>> \in replied
        /\ rpc' = [rpc EXCEPT ![w][f] = "ok"]
        /\ UNCHANGED <<pc, status, handles, acked, replied, applied, owner>>
    BY <1>12 DEF TaskSucceeds, callVars
  <2>2. Shape'
    BY <2>1
  <2>3. \A v \in Writes, g \in Followers :
           rpc'[v][g] = IF v = w /\ g = f THEN "ok" ELSE rpc[v][g]
    BY <2>1
  <2>4. AcksAreReal'
    <3> SUFFICES ASSUME NEW v \in Writes, NEW g \in Followers
                 PROVE  AcksAreReal!(v, g)'
      BY Zenon
    <3>1. CASE v = w /\ g = f
      BY <2>1, <2>3, <3>1
    <3>2. CASE ~(v = w /\ g = f)
      BY <2>1, <2>3, <3>2
    <3> QED
      BY <3>1, <3>2
  <2>5. StatusIsEarned'
    BY <1>0, <2>1, <2>3
  <2> QED
    BY <2>2, <2>4, <2>5
<1>13. ASSUME NEW w \in Writes, NEW f \in Followers, TaskFails(w, f) PROVE IInv'
  BY <1>13 DEF TaskFails, callVars
<1>14. ASSUME NEW f \in Followers, BreakerCools(f) PROVE IInv'
  BY <1>14 DEF BreakerCools, callVars, netVars
<1>15. ASSUME NEW r \in Requests, Gc(r) PROVE IInv'
  BY <1>15 DEF Gc, callVars, netVars
<1>16. CASE UNCHANGED vars
  BY <1>16 DEF vars, callVars, netVars
<1> QED
  BY <1>1, <1>2, <1>3, <1>4, <1>5, <1>6, <1>7, <1>8, <1>9, <1>10, <1>11,
     <1>12, <1>13, <1>14, <1>15, <1>16, Zenon DEF Next, Call, Rpc

\* Whatever the followers, the request ids and the schedule, a call returns
\* CommittedQuorum only with its write on as many replicas as the write concern,
\* or min_ack, asks for.
THEOREM CommittedReplicated == Spec => []CommittedIsReplicated
<1>1. Init => IInv
  BY InitIInv
<1>2. IInv /\ [Next]_vars => IInv'
  BY NextIInv
<1>3. IInv => CommittedIsReplicated
  BY IInvCommitted
<1> QED
  BY <1>1, <1>2, <1>3, PTL DEF Spec

-----------------------------------------------------------------------------
\* What the writer reports.  Types of the rest of the state first: the greatest
\* of the acks exists, so record_ack's quorum seq is the ack of some follower.
LEMMA QuorumSeqAcked ==
    ASSUME NEW n \in Nat, NEW acks \in [Followers -> 0..n],
           NEW g \in Followers, acks[g] > 0
    PROVE  \E f \in Followers : acks[f] > 0 /\ acks[f] = QuorumSeq(acks)
<1> DEFINE S == {acks[f] : f \in Known(acks)}
           P(s) == \A t \in S :
                      Cardinality({f \in Known(acks) : acks[f] >= t})
                          >= (Cardinality(Known(acks)) \div 2) + 1 => t <= s
           U == {m \in Nat : \A s \in S : s <= m}
<1>1. S \subseteq 0..n /\ acks[g] \in S
  BY DEF Known
<1>2. U \subseteq Nat /\ n \in U
  BY <1>1
<1>3. PICK m \in U : \A y \in U : ~(<<y, m>> \in OpToRel(<, Nat))
  BY <1>2, NatLessThanWellFounded, WFMin, Zenon
<1>4. \A y \in U : ~(y < m)
  BY <1>2, <1>3, Zenon DEF OpToRel
<1>5. m \in S
  <2> SUFFICES ASSUME m \notin S PROVE FALSE
    OBVIOUS
  <2>1. m \in Nat /\ \A s \in S : s \in Nat /\ s < m
    BY <1>1
  <2>2. m - 1 \in U
    <3>1. m - 1 \in Nat
      BY <1>1, <2>1
    <3>2. \A s \in S : s <= m - 1
      BY <2>1
    <3> QED
      BY <3>1, <3>2
  <2> QED
    BY <1>4, <2>1, <2>2
<1>6. P(m)
  OBVIOUS
<1>7. QuorumSeq(acks) = CHOOSE s \in S : P(s)
  BY DEF QuorumSeq
<1> HIDE DEF P, S
<1>8. QuorumSeq(acks) \in S
  BY <1>5, <1>6, <1>7
<1> QED
  BY <1>8 DEF S, Known

\* A progress tracker whose seqs are at most n.
Tracker(n) == [commit_index : 0..n, last_written : 0..n, acks : [Followers -> 0..n]]

\* How recording an ack changes the progress tracker.
LEMMA RecordAckProps ==
    ASSUME NEW n \in Nat, NEW p \in Tracker(n),
           NEW f \in Followers, NEW s \in 1..n
    PROVE  LET q == RecordAck(p, f, s) IN
           /\ q \in Tracker(n)
           /\ \A g \in Followers : q.acks[g] = p.acks[g] \/ (g = f /\ q.acks[g] = s)
           /\ \/ q.commit_index = p.commit_index
              \/ \E g \in Followers : q.acks[g] > 0 /\ q.acks[g] = q.commit_index
<1> DEFINE acks == [p.acks EXCEPT ![f] = IF s > @ THEN s ELSE @]
           qs == QuorumSeq(acks)
<1>1. acks \in [Followers -> 0..n] /\ acks[f] > 0
  BY DEF Tracker
<1>2. \A g \in Followers : acks[g] = p.acks[g] \/ (g = f /\ acks[g] = s)
  BY DEF Tracker
<1>3. RecordAck(p, f, s) =
        [p EXCEPT !.acks = acks, !.commit_index = IF qs > @ THEN qs ELSE @]
  BY DEF RecordAck
<1> HIDE DEF acks
<1>4. PICK g \in Followers : acks[g] > 0 /\ acks[g] = qs
  BY <1>1, QuorumSeqAcked
<1>5. qs \in 1..n
  BY <1>1, <1>4
<1> HIDE DEF qs
<1> QED
  BY <1>1, <1>2, <1>3, <1>4, <1>5, Zenon DEF Tracker

Breakers == [fails : Nat, cooled : BOOLEAN, state : {"Closed", "Open", "HalfOpen"}]

LEMMA BreakerTypes ==
    /\ ClosedBreaker \in Breakers
    /\ \A b \in Breakers : TryHalfOpen(b) \in Breakers /\ RecordFailure(b) \in Breakers
<1>1. ASSUME NEW b \in Breakers
      PROVE  TryHalfOpen(b) \in Breakers /\ RecordFailure(b) \in Breakers
  BY DEF Breakers, TryHalfOpen, RecordFailure
<1> QED
  BY <1>1 DEF ClosedBreaker, Breakers

\* TypeOK in two parts: Shape above, and what the calls share.
Shared ==
    /\ registered \in BOOLEAN
    /\ high_water \in Nat
    /\ seq \in [Writes -> 0..high_water]
    /\ wire \subseteq Writes \X Followers
    /\ replied \subseteq Writes \X Followers
    /\ owner \subseteq Writes
    /\ progress \in Tracker(high_water)
    /\ breaker \in [Followers -> Breakers]
    /\ cache \in [Requests -> {"absent", "evicted", "Committed", "Failed"}]

\* A call that collects has a seq, one that has not begun to replicate has none.
SeqsAssigned ==
    \A w \in Writes :
        /\ pc[w] = "new" => seq[w] = 0
        /\ pc[w] = "checked" => seq[w] = 0
        /\ pc[w] = "collecting" => seq[w] > 0

TypesInv == IInv /\ Shared /\ SeqsAssigned

LEMMA InitTypesInv == Init => TypesInv
<1> SUFFICES ASSUME Init PROVE TypesInv
  OBVIOUS
<1>1. IInv
  BY InitIInv
<1>2. breaker \in [Followers -> Breakers]
  BY BreakerTypes DEF Init
<1>3. cache \in [Requests -> {"absent", "evicted", "Committed", "Failed"}]
  BY DEF Init
<1>4. Shared
  BY <1>2, <1>3 DEF Init, Shared, Tracker
<1>5. SeqsAssigned
  BY DEF Init, SeqsAssigned
<1> QED
  BY <1>1, <1>4, <1>5 DEF TypesInv

\* A larger mark keeps the types that it bounds.
LEMMA LargerMark ==
    ASSUME Shared
    PROVE  /\ seq \in [Writes -> 0..(high_water + 1)]
           /\ progress \in Tracker(high_water + 1)
<1>1. 0..high_water \subseteq 0..(high_water + 1)
  BY DEF Shared
<1> QED
  BY <1>1 DEF Shared, Tracker

\* Every action keeps the types: the seqs stay below the mark, acks and commit
\* index stay below the seqs.
LEMMA NextTypesInv == TypesInv /\ [Next]_vars => TypesInv'
<1> SUFFICES ASSUME TypesInv, [Next]_vars PROVE Shared' /\ SeqsAssigned'
  BY NextIInv DEF TypesInv
<1>s. /\ Shared /\ SeqsAssigned /\ IInv
      /\ pc \in [Writes -> {"new", "checked", "collecting", "applying", "returned"}]
      /\ rpc \in [Writes -> [Followers -> {"none", "waiting", "ok", "err"}]]
  BY DEF TypesInv, IInv, Shape
<1>1. CASE RegisterReplicaSet
  BY <1>s, <1>1 DEF RegisterReplicaSet, callVars, netVars, Shared, SeqsAssigned
<1>2. ASSUME NEW w \in Writes, CheckDuplicate(w) PROVE Shared' /\ SeqsAssigned'
  BY <1>s, <1>2 DEF CheckDuplicate, Return, netVars, Shared, SeqsAssigned
<1>3. ASSUME NEW w \in Writes, CommitLocal(w) PROVE Shared' /\ SeqsAssigned'
  BY <1>s, <1>3 DEF CommitLocal, Return, netVars, Shared, SeqsAssigned
<1>4. ASSUME NEW w \in Writes, Replicate(w) PROVE Shared' /\ SeqsAssigned'
  <2> DEFINE b == IF mode[w] = "two_phase" THEN breaker
                  ELSE [f \in Followers |-> TryHalfOpen(breaker[f])]
  <2>1. /\ breaker' = b /\ wire' = wire \cup ({w} \X Targets(w, b))
        /\ progress' = IF mode[w] = "two_phase" THEN progress
                       ELSE RecordWrite(progress, high_water + 1)
    BY <1>4, Zenon DEF Replicate
  <2>2. /\ high_water' = high_water + 1
        /\ seq' = [seq EXCEPT ![w] = high_water + 1]
        /\ pc' = [pc EXCEPT ![w] = "collecting"]
        /\ UNCHANGED <<registered, replied, owner, cache>>
    BY <1>4 DEF Replicate
  <2>3. b \in [Followers -> Breakers]
    BY <1>s, BreakerTypes DEF Shared
  <2> HIDE DEF b
  <2>4. wire' \subseteq Writes \X Followers
    BY <1>s, <2>1 DEF Targets, Shared
  <2>5. high_water' \in Nat /\ seq' \in [Writes -> 0..high_water']
    BY <1>s, <2>2, LargerMark DEF Shared
  <2>6. progress' \in Tracker(high_water')
    BY <1>s, <2>1, <2>2, LargerMark DEF RecordWrite, Shared, Tracker
  <2>7. Shared'
    BY <1>s, <2>1, <2>2, <2>3, <2>4, <2>5, <2>6 DEF Shared
  <2>8. SeqsAssigned'
    BY <1>s, <2>2 DEF SeqsAssigned, Shared
  <2> QED
    BY <2>7, <2>8
<1>5. ASSUME NEW w \in Writes, Timeout(w) PROVE Shared' /\ SeqsAssigned'
  BY <1>s, <1>5 DEF Timeout, netVars, Shared, SeqsAssigned
<1>6. ASSUME NEW w \in Writes, Finish(w) PROVE Shared' /\ SeqsAssigned'
  <2>1. /\ pc' = [pc EXCEPT ![w] = "returned"]
        /\ UNCHANGED <<registered, seq, wire, replied, owner, high_water, progress, breaker>>
    BY <1>6 DEF Finish, Return, netVars
  <2>2. cache' \in [Requests -> {"absent", "evicted", "Committed", "Failed"}]
    BY <1>s, <1>6 DEF Finish, CacheResult, Requests, Shared
  <2> QED
    BY <1>s, <2>1, <2>2 DEF Shared, SeqsAssigned
<1>7. ASSUME NEW w \in Writes, DecidePhaseOne(w) PROVE Shared' /\ SeqsAssigned'
  BY <1>s, <1>7 DEF DecidePhaseOne, Return, netVars, Shared, SeqsAssigned
<1>8. ASSUME NEW w \in Writes, OwnerApply(w) PROVE Shared' /\ SeqsAssigned'
  BY <1>s, <1>8 DEF OwnerApply, Return, netVars, Shared, SeqsAssigned
<1>9. ASSUME NEW w \in Writes, NEW f \in Followers, AwaitHandle(w, f)
      PROVE  Shared' /\ SeqsAssigned'
  <2>1. /\ pc[w] = "collecting"
        /\ \/ progress' = progress
           \/ progress' = RecordAck(progress, f, seq[w])
        /\ UNCHANGED <<registered, pc, seq, wire, replied, owner, high_water, breaker, cache>>
    BY <1>9 DEF AwaitHandle, netVars
  <2>2. seq[w] \in 1..high_water
    BY <1>s, <2>1 DEF Shared, SeqsAssigned
  <2>3. progress' \in Tracker(high_water)
    BY <1>s, <2>1, <2>2, RecordAckProps DEF Shared
  <2> QED
    BY <1>s, <2>1, <2>3 DEF Shared, SeqsAssigned
<1>10. ASSUME NEW w \in Writes, NEW f \in Followers, FollowerApplies(w, f)
       PROVE  Shared' /\ SeqsAssigned'
  BY <1>s, <1>10 DEF FollowerApplies, callVars, Shared, SeqsAssigned
<1>11. ASSUME NEW w \in Writes, NEW f \in Followers, FollowerRejects(w, f)
       PROVE  Shared' /\ SeqsAssigned'
  BY <1>s, <1>11 DEF FollowerRejects, callVars, Shared, SeqsAssigned
<1>12. ASSUME NEW w \in Writes, NEW f \in Followers, TaskSucceeds(w, f) \/ TaskFails(w, f)
       PROVE  Shared' /\ SeqsAssigned'
  <2>1. UNCHANGED <<registered, pc, seq, wire, replied, owner, high_water, progress, cache>>
    BY <1>12 DEF TaskSucceeds, TaskFails, callVars
  <2>2. breaker' \in [Followers -> Breakers]
    BY <1>s, <1>12, BreakerTypes DEF TaskSucceeds, TaskFails, RecordSuccess, Shared
  <2> QED
    BY <1>s, <2>1, <2>2 DEF Shared, SeqsAssigned
<1>13. ASSUME NEW f \in Followers, BreakerCools(f) PROVE Shared' /\ SeqsAssigned'
  <2>1. UNCHANGED <<registered, pc, seq, wire, replied, owner, high_water, progress, cache>>
    BY <1>13 DEF BreakerCools, callVars, netVars
  <2>2. breaker' \in [Followers -> Breakers]
    BY <1>s, <1>13, Zenon DEF BreakerCools, Breakers, Shared
  <2> QED
    BY <1>s, <2>1, <2>2 DEF Shared, SeqsAssigned
<1>14. ASSUME NEW r \in Requests, Gc(r) PROVE Shared' /\ SeqsAssigned'
  BY <1>s, <1>14 DEF Gc, callVars, netVars, Shared, SeqsAssigned
<1>15. CASE UNCHANGED vars
  BY <1>s, <1>15 DEF vars, callVars, netVars, Shared, SeqsAssigned
<1> QED
  BY <1>1, <1>2, <1>3, <1>4, <1>5, <1>6, <1>7, <1>8, <1>9, <1>10, <1>11,
     <1>12, <1>13, <1>14, <1>15 DEF Next, Call, Rpc

-----------------------------------------------------------------------------
\* Acked(s, f): s is the seq of a write on the owner that follower f has acked.
Acked(s, f) == \E w \in Writes : seq[w] = s /\ f \in acked[w] /\ w \in owner

\* The tracker's acks and its commit index are seqs of writes that were acked.
ProgressIsReal ==
    /\ \A f \in Followers : progress.acks[f] > 0 => Acked(progress.acks[f], f)
    /\ progress.commit_index > 0 => \E f \in Followers : Acked(progress.commit_index, f)

\* A two-phase write is on the owner only after its call returned, and then it
\* was local or had its quorum.
OwnerIsLast ==
    \A w \in Writes : mode[w] = "two_phase" /\ w \in owner =>
        /\ pc[w] = "returned"
        /\ seq[w] = 0 \/ (Acks(w) >= MinAck /\ status[w] # "Failed")

\* A request that quorum_write has committed was recorded in the cache.
CommitIsRecorded ==
    \A v \in Writes :
        mode[v] = "owner_first" /\ status[v] = "CommittedQuorum" /\ RequestOf[v] # NoRequest
            => cache[RequestOf[v]] # "absent"

ReportInv == TypesInv /\ ProgressIsReal /\ OwnerIsLast /\ CommitIsRecorded

LEMMA InitReportInv == Init => ReportInv
  BY InitTypesInv DEF Init, ReportInv, ProgressIsReal, OwnerIsLast, CommitIsRecorded

\* An acked write stays acked while no call that has acks gets another seq.
LEMMA AckedStays ==
    ASSUME \A v \in Writes : acked[v] \subseteq acked'[v]
                             /\ (acked[v] # {} => seq'[v] = seq[v]),
           owner \subseteq owner', NEW s, NEW f, Acked(s, f)
    PROVE  Acked(s, f)'
  BY DEF Acked

\* Steps that leave acks, seqs and the tracker alone.
LEMMA ProgressStays ==
    ASSUME ProgressIsReal, UNCHANGED <<progress, acked, seq>>, owner \subseteq owner'
    PROVE  ProgressIsReal'
<1>1. \A s, f : Acked(s, f) => Acked(s, f)'
  BY DEF Acked
<1> QED
  BY <1>1 DEF ProgressIsReal

\* Steps that leave the outcome of every call and the cache alone.
LEMMA OutcomesStay ==
    ASSUME OwnerIsLast, CommitIsRecorded,
           UNCHANGED <<mode, pc, status, seq, acked, owner, cache>>
    PROVE  OwnerIsLast' /\ CommitIsRecorded'
<1>1. \A w \in Writes : Acks(w)' = Acks(w)
  BY DEF Acks
<1> QED
  BY <1>1 DEF OwnerIsLast, CommitIsRecorded

\* Every action keeps what the reports rest on.
LEMMA NextReportInv == ReportInv /\ [Next]_vars => ReportInv'
<1> SUFFICES ASSUME ReportInv, [Next]_vars
             PROVE  ProgressIsReal' /\ OwnerIsLast' /\ CommitIsRecorded'
  BY NextTypesInv DEF ReportInv
<1>m. mode' = mode /\ MinAck' = MinAck
  BY ModeFixed
<1>s. /\ ProgressIsReal /\ OwnerIsLast /\ CommitIsRecorded
      /\ Shared /\ SeqsAssigned /\ AcksAreReal /\ StatusIsEarned
      /\ mode \in [Writes -> {"owner_first", "two_phase"}]
      /\ pc \in [Writes -> {"new", "checked", "collecting", "applying", "returned"}]
      /\ status \in [Writes -> Statuses] /\ acked \in [Writes -> SUBSET Followers]
      /\ cache \in [Requests -> {"absent", "evicted", "Committed", "Failed"}]
  BY DEF ReportInv, TypesInv, IInv, Shape, Shared, Modes
<1>a. acked' = acked => \A w \in Writes : Acks(w)' = Acks(w)
  BY DEF Acks
<1>1. CASE RegisterReplicaSet
  BY <1>s, <1>1, ProgressStays, OutcomesStay DEF RegisterReplicaSet, callVars
<1>2. ASSUME NEW w \in Writes, CheckDuplicate(w)
      PROVE  ProgressIsReal' /\ OwnerIsLast' /\ CommitIsRecorded'
  <2>1. /\ mode[w] = "owner_first" /\ pc[w] = "new" /\ owner' = owner \cup {w}
        /\ UNCHANGED <<seq, acked, progress, cache>>
        /\ \/ pc' = [pc EXCEPT ![w] = "returned"]
              /\ status' = [status EXCEPT ![w] = "AlreadyCommitted"]
           \/ pc' = [pc EXCEPT ![w] = "checked"] /\ status' = status
    BY <1>2 DEF CheckDuplicate, Return
  <2>2. ProgressIsReal'
    BY <1>s, <2>1, ProgressStays
  <2>3. OwnerIsLast' /\ CommitIsRecorded'
    BY <1>m, <1>s, <1>a, <2>1 DEF OwnerIsLast, CommitIsRecorded
  <2> QED
    BY <2>2, <2>3
<1>3. ASSUME NEW w \in Writes, CommitLocal(w)
      PROVE  ProgressIsReal' /\ OwnerIsLast' /\ CommitIsRecorded'
  <2>1. /\ mode[w] = "two_phase" => pc[w] = "new"
        /\ owner' = owner \cup {w} /\ UNCHANGED <<seq, acked, progress, cache>>
        /\ pc' = [pc EXCEPT ![w] = "returned"]
        /\ status' = [status EXCEPT ![w] = "CommittedLocal"]
    BY <1>3 DEF CommitLocal, Return
  <2>2. ProgressIsReal'
    BY <1>s, <2>1, ProgressStays
  <2>3. OwnerIsLast'
    BY <1>m, <1>s, <1>a, <2>1 DEF OwnerIsLast, SeqsAssigned
  <2>4. CommitIsRecorded'
    BY <1>m, <1>s, <2>1 DEF CommitIsRecorded
  <2> QED
    BY <2>2, <2>3, <2>4
<1>4. ASSUME NEW w \in Writes, Replicate(w)
      PROVE  ProgressIsReal' /\ OwnerIsLast' /\ CommitIsRecorded'
  <2>1. /\ pc[w] = "new" \/ pc[w] = "checked"
        /\ seq' = [seq EXCEPT ![w] = high_water + 1]
        /\ pc' = [pc EXCEPT ![w] = "collecting"]
        /\ UNCHANGED <<status, acked, owner, cache>>
    BY <1>4 DEF Replicate
  <2>2. acked[w] = {}
    BY <1>s, <2>1 DEF StatusIsEarned
  <2>3. progress'.acks = progress.acks /\ progress'.commit_index = progress.commit_index
    BY <1>s, <1>4 DEF Replicate, RecordWrite, Shared, Tracker
  <2>4. ASSUME NEW s, NEW f, Acked(s, f) PROVE Acked(s, f)'
    <3>1. \A v \in Writes : acked[v] \subseteq acked'[v]
                            /\ (acked[v] # {} => seq'[v] = seq[v])
      BY <1>s, <2>1, <2>2 DEF Shared
    <3> QED
      BY <2>1, <2>4, <3>1, AckedStays
  <2>5. ProgressIsReal'
    BY <1>s, <2>3, <2>4 DEF ProgressIsReal
  <2>6. OwnerIsLast'
    BY <1>m, <1>s, <1>a, <2>1 DEF OwnerIsLast, Shared
  <2>7. CommitIsRecorded'
    BY <1>m, <1>s, <2>1 DEF CommitIsRecorded
  <2> QED
    BY <2>5, <2>6, <2>7
<1>5. ASSUME NEW w \in Writes, Timeout(w)
      PROVE  ProgressIsReal' /\ OwnerIsLast' /\ CommitIsRecorded'
  BY <1>s, <1>5, ProgressStays, OutcomesStay DEF Timeout
<1>6. ASSUME NEW w \in Writes, Finish(w)
      PROVE  ProgressIsReal' /\ OwnerIsLast' /\ CommitIsRecorded'
  <2>1. /\ mode[w] = "owner_first" /\ pc' = [pc EXCEPT ![w] = "returned"]
        /\ status' = [status EXCEPT ![w] = Outcome(w)] /\ cache' = CacheResult(w)
        /\ UNCHANGED <<seq, acked, progress, owner>>
    BY <1>6 DEF Finish, Return
  <2>2. ProgressIsReal'
    BY <1>s, <2>1, ProgressStays
  <2>3. OwnerIsLast'
    BY <1>m, <1>s, <1>a, <2>1 DEF OwnerIsLast
  <2>4. ASSUME NEW v \in Writes, RequestOf[v] # NoRequest
        PROVE  /\ RequestOf[v] \in Requests
               /\ cache[RequestOf[v]] # "absent" => cache'[RequestOf[v]] # "absent"
               /\ v = w => cache'[RequestOf[v]] # "absent"
    BY <1>s, <2>1, <2>4 DEF CacheResult, Requests
  <2>5. CommitIsRecorded'
    BY <1>m, <1>s, <2>1, <2>4 DEF CommitIsRecorded
  <2> QED
    BY <2>2, <2>3, <2>5
<1>7. ASSUME NEW w \in Writes, DecidePhaseOne(w)
      PROVE  ProgressIsReal' /\ OwnerIsLast' /\ CommitIsRecorded'
  <2>1. /\ mode[w] = "two_phase" /\ pc[w] = "collecting"
        /\ UNCHANGED <<seq, acked, progress, owner, cache>>
        /\ \/ pc' = [pc EXCEPT ![w] = "applying"] /\ status' = status
           \/ /\ pc' = [pc EXCEPT ![w] = "returned"]
              /\ status' = [status EXCEPT ![w] = "Failed"]
    BY <1>7, Zenon DEF DecidePhaseOne, Return
  <2>2. ProgressIsReal'
    BY <1>s, <2>1, ProgressStays
  <2>3. OwnerIsLast' /\ CommitIsRecorded'
    BY <1>m, <1>s, <1>a, <2>1 DEF OwnerIsLast, CommitIsRecorded
  <2> QED
    BY <2>2, <2>3
<1>8. ASSUME NEW w \in Writes, OwnerApply(w)
      PROVE  ProgressIsReal' /\ OwnerIsLast' /\ CommitIsRecorded'
  <2>1. /\ pc[w] = "applying" /\ pc' = [pc EXCEPT ![w] = "returned"]
        /\ UNCHANGED <<seq, acked, progress, cache>>
        /\ \/ /\ owner' = owner \cup {w}
              /\ status' = [status EXCEPT ![w] = "CommittedQuorum"]
           \/ /\ owner' = owner
              /\ status' = [status EXCEPT ![w] = "OwnerApplyFailed"]
    BY <1>8 DEF OwnerApply, Return
  <2>2. mode[w] = "two_phase" /\ Acks(w) >= MinAck
    BY <1>s, <2>1 DEF StatusIsEarned
  <2>3. ProgressIsReal'
    BY <1>s, <2>1, ProgressStays
  <2>4. OwnerIsLast' /\ CommitIsRecorded'
    BY <1>m, <1>s, <1>a, <2>1, <2>2 DEF OwnerIsLast, CommitIsRecorded
  <2> QED
    BY <2>3, <2>4
<1>9. ASSUME NEW w \in Writes, NEW f \in Followers, AwaitHandle(w, f)
      PROVE  ProgressIsReal' /\ OwnerIsLast' /\ CommitIsRecorded'
  <2>1. /\ pc[w] = "collecting" /\ UNCHANGED <<pc, status, seq, owner, cache>>
        /\ \/ /\ acked' = [acked EXCEPT ![w] = @ \cup {f}]
              /\ progress' = IF mode[w] = "two_phase" THEN progress
                             ELSE RecordAck(progress, f, seq[w])
           \/ UNCHANGED <<acked, progress>>
    BY <1>9 DEF AwaitHandle
  <2>2. \A v \in Writes : acked[v] \subseteq acked'[v] /\ seq'[v] = seq[v]
    BY <1>s, <2>1
  <2>4. ASSUME mode[w] = "owner_first", progress' = RecordAck(progress, f, seq[w]),
               acked' = [acked EXCEPT ![w] = @ \cup {f}]
        PROVE  ProgressIsReal'
    <3>1. seq[w] \in 1..high_water /\ high_water \in Nat
      BY <1>s, <2>1 DEF Shared, SeqsAssigned
    <3>t. progress \in Tracker(high_water)
      BY <1>s DEF Shared
    <3>k. PICK n, p, s, q : /\ n \in Nat /\ p \in Tracker(n) /\ s \in 1..n
                            /\ p = progress /\ s = seq[w] /\ q = RecordAck(p, f, s)
      BY <3>1, <3>t
    <3>q. /\ \A g \in Followers : q.acks[g] = p.acks[g] \/ (g = f /\ q.acks[g] = s)
          /\ \/ q.commit_index = p.commit_index
             \/ \E g \in Followers : q.acks[g] > 0 /\ q.acks[g] = q.commit_index
      BY <3>k, RecordAckProps
    <3>p. progress' = q
      BY <2>4, <3>k, Zenon
    <3>2. /\ \A g \in Followers : progress'.acks[g] = progress.acks[g]
                                  \/ (g = f /\ progress'.acks[g] = seq[w])
          /\ \/ progress'.commit_index = progress.commit_index
             \/ \E g \in Followers : progress'.acks[g] > 0
                                     /\ progress'.acks[g] = progress'.commit_index
      BY <3>q, <3>p, <3>k, Zenon
    <3>3. seq'[w] = seq[w] /\ f \in acked'[w] /\ w \in owner'
      BY <1>s, <2>1, <2>4 DEF StatusIsEarned
    <3>4. ASSUME NEW g \in Followers, progress'.acks[g] > 0
          PROVE  \E v \in Writes : seq'[v] = progress'.acks[g] /\ g \in acked'[v] /\ v \in owner'
      <4>1. CASE progress'.acks[g] = progress.acks[g]
        BY <1>s, <2>1, <2>2, <3>4, <4>1 DEF ProgressIsReal, Acked
      <4>2. CASE g = f /\ progress'.acks[g] = seq[w]
        BY <3>3, <4>2
      <4> QED
        BY <3>2, <4>1, <4>2, Zenon
    <3>5. ASSUME progress'.commit_index > 0
          PROVE  \E g \in Followers : \E v \in Writes :
                   seq'[v] = progress'.commit_index /\ g \in acked'[v] /\ v \in owner'
      <4>1. CASE progress'.commit_index = progress.commit_index
        BY <1>s, <2>1, <2>2, <3>5, <4>1 DEF ProgressIsReal, Acked
      <4>2. CASE \E g \in Followers : progress'.acks[g] > 0
                                      /\ progress'.acks[g] = progress'.commit_index
        BY <3>4, <4>2
      <4> QED
        BY <3>2, <4>1, <4>2
    <3> QED
      BY <3>4, <3>5 DEF ProgressIsReal, Acked
  <2>5. ASSUME progress' = progress PROVE ProgressIsReal'
    <3>1. ASSUME NEW g \in Followers, progress.acks[g] > 0
          PROVE  \E v \in Writes : seq'[v] = progress.acks[g] /\ g \in acked'[v] /\ v \in owner'
      BY <1>s, <2>1, <2>2, <3>1 DEF ProgressIsReal, Acked
    <3>2. ASSUME progress.commit_index > 0
          PROVE  \E g \in Followers : \E v \in Writes :
                   seq'[v] = progress.commit_index /\ g \in acked'[v] /\ v \in owner'
      BY <1>s, <2>1, <2>2, <3>2 DEF ProgressIsReal, Acked
    <3> QED
      BY <2>5, <3>1, <3>2 DEF ProgressIsReal, Acked
  <2>6. ProgressIsReal'
    BY <1>s, <2>1, <2>4, <2>5
  <2>7. OwnerIsLast'
    BY <1>m, <1>s, <2>1 DEF OwnerIsLast, Acks
  <2>8. CommitIsRecorded'
    BY <1>m, <1>s, <2>1 DEF CommitIsRecorded
  <2> QED
    BY <2>6, <2>7, <2>8
<1>10. ASSUME NEW w \in Writes, NEW f \in Followers, Rpc(w, f)
       PROVE  ProgressIsReal' /\ OwnerIsLast' /\ CommitIsRecorded'
  <2>1. UNCHANGED <<mode, pc, status, seq, acked, progress, owner, cache>>
    BY <1>10 DEF Rpc, FollowerApplies, FollowerRejects, TaskSucceeds, TaskFails, callVars
  <2> QED
    BY <1>s, <2>1, ProgressStays, OutcomesStay
<1>11. ASSUME NEW f \in Followers, BreakerCools(f)
       PROVE  ProgressIsReal' /\ OwnerIsLast' /\ CommitIsRecorded'
  BY <1>s, <1>11, ProgressStays, OutcomesStay DEF BreakerCools, callVars
<1>12. ASSUME NEW r \in Requests, Gc(r)
       PROVE  ProgressIsReal' /\ OwnerIsLast' /\ CommitIsRecorded'
  <2>1. /\ cache' = [cache EXCEPT ![r] = "evicted"]
        /\ UNCHANGED <<mode, pc, status, seq, acked, progress, owner>>
    BY <1>12 DEF Gc, callVars
  <2>2. ProgressIsReal' /\ OwnerIsLast'
    BY <1>s, <1>a, <1>m, <2>1, ProgressStays DEF OwnerIsLast
  <2>3. CommitIsRecorded'
    BY <1>s, <2>1 DEF CommitIsRecorded, Requests
  <2> QED
    BY <2>2, <2>3
<1>13. CASE UNCHANGED vars
  BY <1>s, <1>13, ProgressStays, OutcomesStay DEF vars, callVars
<1> QED
  BY <1>1, <1>2, <1>3, <1>4, <1>5, <1>6, <1>7, <1>8, <1>9, <1>10, <1>11,
     <1>12, <1>13 DEF Next, Call

\* A write that a follower has acked is on the owner and on that follower.
LEMMA AckedHeldTwice ==
    ASSUME IInv, NEW w \in Writes, NEW f \in Followers, f \in acked[w], w \in owner
    PROVE  Holders(w) >= 2
<1>1. Holders(w) >= Acks(w)
  BY HoldersCoverAcks DEF IInv
<1>2. IsFiniteSet(acked[w]) /\ IsFiniteSet({g \in Followers : w \in applied[g]})
  BY FollowersAssumption, FS_Subset DEF IInv, Shape
<1>3. Cardinality(acked[w]) \in Nat /\ Holders(w) \in Nat
  BY <1>2, FS_CardinalityType DEF Holders
<1>4. Cardinality(acked[w]) # 0
  BY <1>2, FS_EmptySet
<1> QED
  BY <1>1, <1>3, <1>4 DEF Acks

LEMMA ReportInvTrue == ReportInv => ReportsTrue
<1> SUFFICES ASSUME ReportInv PROVE ReportsTrue
  OBVIOUS
<1>i. IInv
  BY DEF ReportInv, TypesInv
<1>1. TypeOK
  BY DEF ReportInv, TypesInv, IInv, Shape, Shared, Tracker, Breakers, TypeOK
<1>2. CommitIndexReplicated
  BY <1>i, AckedHeldTwice, Zenon DEF ReportInv, ProgressIsReal, Acked, CommitIndexReplicated
<1>3. OwnerAfterQuorum
  <2> SUFFICES ASSUME NEW w \in owner, mode[w] = "two_phase", seq[w] > 0
               PROVE  Holders(w) >= MinAck /\ status[w] # "Failed"
    BY DEF OwnerAfterQuorum
  <2>1. w \in Writes /\ seq[w] # 0
    BY DEF ReportInv, TypesInv, Shared
  <2>2. Acks(w) >= MinAck /\ status[w] # "Failed"
    BY <2>1 DEF ReportInv, OwnerIsLast
  <2>3. Holders(w) >= Acks(w)
    BY <1>i, <2>1, HoldersCoverAcks DEF IInv
  <2>4. IsFiniteSet(acked[w]) /\ IsFiniteSet({f \in Followers : w \in applied[f]})
    BY <1>i, <2>1, FollowersAssumption, FS_Subset DEF IInv, Shape
  <2>5. Acks(w) \in Nat /\ Holders(w) \in Nat
    BY <2>4, FS_CardinalityType DEF Acks, Holders
  <2>6. MinAck \in Nat
    BY FollowersAssumption, FS_CardinalityType DEF MinAck
  <2> QED
    BY <2>2, <2>3, <2>5, <2>6
<1> QED
  BY <1>1, <1>2, <1>3 DEF ReportsTrue

\* Whatever overlaps, times out or answers late, and whichever entry points the
\* calls use, the tracker's commit index is the seq of a write on the owner and a
\* follower, and quorum_write_two_phase touches the owner only after the
\* followers' quorum.
THEOREM ReportsAreTrue == Spec => []ReportsTrue
<1> QED
  BY InitReportInv, NextReportInv, ReportInvTrue, PTL DEF Spec

\* quorum_write sends a request that was committed before to the followers again
\* only if the GC has evicted its entry, for any number of overlapping retries.
THEOREM CommittedNotResent == Spec => CommittedRequestNotResent
<1>1. ASSUME ReportInv, [Next]_vars
      PROVE  [\A v, w \in Writes :
                /\ pc[w] = "new" /\ pc[w]' = "checked"
                /\ RequestOf[w] # NoRequest /\ RequestOf[v] = RequestOf[w]
                /\ mode[v] = "owner_first" /\ status[v] = "CommittedQuorum"
                => cache[RequestOf[w]] = "evicted"]_vars
  <2> SUFFICES ASSUME NEW v \in Writes, NEW w \in Writes, Next,
                      pc[w] = "new", pc'[w] = "checked",
                      RequestOf[w] # NoRequest, RequestOf[v] = RequestOf[w],
                      mode[v] = "owner_first", status[v] = "CommittedQuorum"
               PROVE  cache[RequestOf[w]] = "evicted"
    BY <1>1
  <2>1. cache[RequestOf[w]] # "absent"
    BY <1>1 DEF ReportInv, CommitIsRecorded
  <2>2. cache[RequestOf[w]] \in {"absent", "evicted", "Committed", "Failed"}
    BY <1>1 DEF ReportInv, TypesInv, Shared, Requests
  <2>3. pc \in [Writes -> {"new", "checked", "collecting", "applying", "returned"}]
    BY <1>1 DEF ReportInv, TypesInv, IInv, Shape
  <2>4. CheckDuplicate(w)
    <3>1. ASSUME NEW u \in Writes, Call(u) PROVE CheckDuplicate(w)
      <4>1. CASE CheckDuplicate(u)
        BY <2>3, <4>1 DEF CheckDuplicate, Return
      <4>2. CASE ~CheckDuplicate(u)
        BY <2>3, <3>1, <4>2, Zenon
        DEF Call, CommitLocal, Replicate, Timeout, Finish, DecidePhaseOne, OwnerApply,
            AwaitHandle, Return
      <4> QED
        BY <4>1, <4>2
    <3>2. pc' # pc
      OBVIOUS
    <3> QED
      BY <3>1, <3>2, Zenon
      DEF Next, Rpc, RegisterReplicaSet, FollowerApplies, FollowerRejects, TaskSucceeds,
          TaskFails, BreakerCools, Gc, callVars, vars
  <2>5. ~Cached(w)
    BY <2>3, <2>4, Zenon DEF CheckDuplicate, Return
  <2> QED
    BY <2>1, <2>2, <2>5 DEF Cached
<1> QED
  BY <1>1, InitReportInv, NextReportInv, PTL DEF Spec, CommittedRequestNotResent
=============================================================================
