----------------------- MODULE ShardReplicationProofs -----------------------
(***************************************************************************)
(* For any number of nodes, writes, failovers and any log bound: a seq     *)
(* names one write on every node, a write sent when every follower has     *)
(* fenced its epoch is never acknowledged, and, with three replicas, a     *)
(* promotion loses an acknowledged write only through a hole in a log.     *)
(***************************************************************************)
EXTENDS ShardReplication, FiniteSetTheorems, TLAPS

\* The entry that push_back adds above every other is not the one that leaves.
LEMMA PushedStays ==
    ASSUME NEW entries, NEW e, \A x \in entries : x.seq < e.seq
    PROVE  e \in PushBounded(entries, e) /\ PushBounded(entries, e) \subseteq entries \cup {e}
<1>1. CASE entries = {}
  <2>1. entries \cup {e} = {e} /\ Cardinality({e}) = 1
    BY <1>1, FS_Singleton
  <2>2. ~(Cardinality(entries \cup {e}) > MaxEntries)
    BY <2>1, MaxEntriesAssumption
  <2> QED
    BY <2>2 DEF PushBounded
<1>2. CASE entries # {}
  BY <1>2 DEF PushBounded
<1> QED
  BY <1>1, <1>2

\* The push keeps the ring within its bound: once over it, the oldest entry goes.
LEMMA PushKeepsBound ==
    ASSUME NEW entries, entries \subseteq Entry, IsFiniteSet(entries),
           Cardinality(entries) <= MaxEntries, NEW e \in Entry, e \notin entries
    PROVE  LET pb == PushBounded(entries, e) IN IsFiniteSet(pb) /\ Cardinality(pb) <= MaxEntries
<1> DEFINE pushed == entries \cup {e}
           kept == {x \in pushed : \E y \in pushed : y.seq < x.seq}
<1>1. IsFiniteSet(pushed) /\ Cardinality(pushed) = Cardinality(entries) + 1
  BY FS_AddElement
<1>2. Cardinality(entries) \in Nat /\ MaxEntries \in Nat
  BY FS_CardinalityType, MaxEntriesAssumption
<1>3. kept # pushed
  <2> DEFINE S == {x.seq : x \in pushed}
  <2>1. S \subseteq Nat /\ S # {}
    BY DEF Entry
  <2>2. PICK m \in S : \A y \in S : ~(<<y, m>> \in OpToRel(<, Nat))
    BY <2>1, NatLessThanWellFounded, WFMin
  <2>3. \A y \in S : ~(y < m)
    BY <2>1, <2>2 DEF OpToRel
  <2>4. PICK x \in pushed : x.seq = m
    BY <2>2
  <2>5. x \notin kept
    BY <2>3, <2>4
  <2> QED
    BY <2>5
<1>4. IsFiniteSet(kept) /\ Cardinality(kept) <= Cardinality(pushed)
      /\ Cardinality(kept) # Cardinality(pushed)
  BY <1>1, <1>3, FS_Subset, kept \in SUBSET pushed
<1>5. Cardinality(kept) \in Nat
  BY <1>4, FS_CardinalityType
<1>6. PushBounded(entries, e) = IF Cardinality(pushed) > MaxEntries THEN kept ELSE pushed
  BY DEF PushBounded
<1> HIDE DEF pushed, kept
<1> QED
  BY <1>1, <1>2, <1>4, <1>5, <1>6

\* Pushing an entry above the high-water mark keeps the log well formed.
LEMMA PushKeepsWellFormed ==
    ASSUME NEW l, WellFormed(l), NEW op \in Ops, NEW s \in Nat \ {0}, s > l.high_water,
           NEW r, r = [entries |-> PushBounded(l.entries, [seq |-> s, op |-> op]),
                       high_water |-> s]
    PROVE  WellFormed(r)
<1> DEFINE e == [seq |-> s, op |-> op]
<1>1. e \in Entry /\ e.seq = s /\ \A x \in l.entries : x.seq < e.seq
  BY DEF WellFormed, Entry
<1>2. e \in r.entries /\ r.entries \subseteq l.entries \cup {e} /\ r.high_water = s
  BY <1>1, PushedStays
<1>3. IsFiniteSet(r.entries) /\ Cardinality(r.entries) <= MaxEntries
  <2>1. e \notin l.entries
    BY <1>1
  <2> QED
    BY <1>1, <2>1, PushKeepsBound DEF WellFormed
<1> HIDE DEF e
<1>4. r.high_water \in Nat /\ r.entries \subseteq Entry
  BY <1>1, <1>2 DEF WellFormed
<1>5. \A x, y \in r.entries : x.seq = y.seq => x = y
  BY <1>1, <1>2 DEF WellFormed, Entry
<1>6. \A x \in r.entries : x.seq <= r.high_water
  BY <1>1, <1>2 DEF WellFormed, Entry
<1>7. r.high_water \in SeqsOf(r.entries)
  BY <1>1, <1>2 DEF SeqsOf
<1> QED
  BY <1>3, <1>4, <1>5, <1>6, <1>7 DEF WellFormed

\* record_owner leaves a well-formed log.
LEMMA RecordOwnerWellFormed ==
    ASSUME NEW l, WellFormed(l), NEW op \in Ops
    PROVE  WellFormed(RecordOwner(l, op))
<1>1. NextSeq(l) \in Nat \ {0} /\ NextSeq(l) > l.high_water
  BY DEF NextSeq, WellFormed
<1> QED
  BY <1>1, PushKeepsWellFormed DEF RecordOwner

\* record_replica leaves a well-formed log.
LEMMA RecordReplicaWellFormed ==
    ASSUME NEW l, WellFormed(l), NEW op \in Ops, NEW s \in Nat \ {0}
    PROVE  WellFormed(RecordReplica(l, s, op))
<1>1. CASE s > l.high_water
  BY <1>1, PushKeepsWellFormed DEF RecordReplica
<1>2. CASE ~(s > l.high_water)
  BY <1>2 DEF RecordReplica
<1> QED
  BY <1>1, <1>2

Shape ==
    /\ map \in [Nodes -> [owner : Nodes, epoch : Nat, replicas : Seq(Nodes)]]
    /\ fence \in [Nodes -> Nat]
    /\ DOMAIN log = Nodes /\ \A n \in Nodes : WellFormed(log[n])
    /\ pc \in [Ops -> {"new", "routed", "checked", "applied", "sent", "ok", "failed"}]
    /\ at \in [Ops -> Nodes]
    /\ epoch \in [Ops -> Nat]
    /\ seq \in [Ops -> Nat]
    /\ h \in [Ops -> [Nodes -> {"none", "wire", "admitted", "recorded",
                              "applied", "rejected"}]]
    /\ doomed \subseteq Ops

\* Only a write that has been sent has a seq and handlers, and only followers
\* of the node it executes on handle it.
SentWrites ==
    \A w \in Ops :
        /\ pc[w] \in {"new", "routed", "checked", "applied"} =>
              seq[w] = 0 /\ \A f \in Nodes : h[w][f] = "none"
        /\ \A f \in Nodes : h[w][f] # "none" => seq[w] > 0 /\ f \in Followers(at[w])

\* Seqs come from the first owner's log, one for each write, and every entry of
\* every log carries the seq of its write.
SeqsFromOwner ==
    /\ \A w \in Ops : seq[w] <= log[Owner0].high_water
    /\ \A v, w \in Ops : v # w /\ seq[v] = seq[w] => seq[v] = 0
    /\ \A n \in Nodes : \A e \in log[n].entries : seq[e.op] = e.seq

\* No follower has admitted, or will admit, a doomed write.
DoomedFenced ==
    \A w \in doomed :
        /\ pc[w] \in {"sent", "failed"}
        /\ Followers(at[w]) # {}
        /\ \A f \in Followers(at[w]) :
              fence[f] > epoch[w] /\ h[w][f] \in {"wire", "rejected"}

IInv == Shape /\ SentWrites /\ SeqsFromOwner /\ DoomedFenced

-----------------------------------------------------------------------------
\* The first owner follows nobody, and followers are nodes.
LEMMA FollowersFacts ==
    /\ Owner0 \in Nodes
    /\ \A n \in Nodes : /\ Followers(n) \subseteq Nodes
                        /\ Owner0 \notin Followers(n)
                        /\ Followers(n) # {} => n = Owner0
    /\ Followers(Owner0) # {}
<1>1. Owner0 = Ring[1] /\ 1 \in 1..Len(Ring)
  BY RingAssumption DEF Owner0
<1>2. \A i \in 1..Len(Ring) : Ring[i] \in Nodes
  BY RingAssumption
<1>3. \A i \in 2..Len(Ring) : i \in 1..Len(Ring) /\ Ring[i] # Ring[1]
  BY RingAssumption
<1>4. Ring[2] \in Followers(Owner0)
  BY RingAssumption DEF Followers
<1> QED
  BY <1>1, <1>2, <1>3, <1>4 DEF Followers

\* What the record functions add to a log.
LEMMA RecordedEntries ==
    ASSUME NEW l, NEW op, NEW s
    PROVE  /\ RecordOwner(l, op).entries
                \subseteq l.entries \cup {[seq |-> NextSeq(l), op |-> op]}
           /\ RecordOwner(l, op).high_water = NextSeq(l)
           /\ RecordReplica(l, s, op).entries
                \subseteq l.entries \cup {[seq |-> s, op |-> op]}
  BY DEF RecordOwner, RecordReplica, PushBounded

LEMMA InitIInv == Init => IInv
<1> SUFFICES ASSUME Init PROVE IInv
  OBVIOUS
<1>1. WellFormed(EmptyLog)
  BY FS_EmptySet, MaxEntriesAssumption DEF WellFormed, EmptyLog
<1>2. Tail(Ring) \in Seq(Nodes)
  BY RingAssumption
<1>5. Shape
  BY <1>1, <1>2, FollowersFacts DEF Init, Shape
<1>3. SentWrites /\ DoomedFenced
  BY DEF Init, SentWrites, DoomedFenced
<1>4. SeqsFromOwner
  BY FollowersFacts DEF Init, SeqsFromOwner, EmptyLog
<1> QED
  BY <1>3, <1>4, <1>5 DEF IInv

\* The invariant gives the two properties.
LEMMA IInvProperties == IInv => SeqNamesOneWrite /\ DeposedNeverCommits
<1> SUFFICES ASSUME IInv PROVE SeqNamesOneWrite /\ DeposedNeverCommits
  OBVIOUS
<1>1. \A n \in Nodes : \A e \in log[n].entries : e.op \in Ops /\ e.seq \in Nat \ {0}
  BY DEF IInv, Shape, WellFormed, Entry
<1>2. SeqNamesOneWrite
  BY <1>1 DEF IInv, SeqsFromOwner, SeqNamesOneWrite
<1>3. DeposedNeverCommits
  BY Zenon DEF IInv, Shape, DoomedFenced, DeposedNeverCommits
<1> QED
  BY <1>2, <1>3

-----------------------------------------------------------------------------
\* A step that only moves a write that is not doomed, or gives it up.
LEMMA MoveKeepsIInv ==
    ASSUME IInv, NEW w \in Ops,
           NEW p \in {"routed", "checked", "applied", "ok", "failed"},
           pc' = [pc EXCEPT ![w] = p],
           NEW n \in Nodes, at' = [at EXCEPT ![w] = n],
           NEW k \in Nat, epoch' = [epoch EXCEPT ![w] = k],
           UNCHANGED <<map, fence, log, seq, h, doomed>>,
           \/ pc[w] \in {"new", "routed", "checked", "applied"}
           \/ /\ pc[w] = "sent" /\ p \in {"ok", "failed"} /\ n = at[w] /\ k = epoch[w]
              /\ w \notin doomed \/ p = "failed"
    PROVE  IInv'
<1>1. Shape'
  BY DEF IInv, Shape
<1>2. SentWrites'
  <2> SUFFICES ASSUME NEW v \in Ops PROVE SentWrites!(v)'
    BY DEF SentWrites
  <2>1. CASE v = w
    BY <2>1 DEF IInv, Shape, SentWrites
  <2>2. CASE v # w
    BY <2>2 DEF IInv, Shape, SentWrites
  <2> QED
    BY <2>1, <2>2
<1>3. SeqsFromOwner'
  BY DEF IInv, SeqsFromOwner
<1>4. DoomedFenced'
  <2> SUFFICES ASSUME NEW v \in doomed PROVE DoomedFenced!(v)'
    BY DEF DoomedFenced
  <2>1. CASE v = w
    BY <2>1 DEF IInv, Shape, DoomedFenced
  <2>2. CASE v # w
    BY <2>2 DEF IInv, Shape, DoomedFenced
  <2> QED
    BY <2>1, <2>2
<1> QED
  BY <1>1, <1>2, <1>3, <1>4 DEF IInv

\* The owner's own write is never a majority: a commit has a follower's ack.
LEMMA CommitNeedsFollower ==
    ASSUME NEW w \in Ops, at[w] \in Nodes, Followers(at[w]) # {}, Commit(w)
    PROVE  \E f \in Nodes : h[w][f] = "applied"
<1> SUFFICES ASSUME \A f \in Nodes : h[w][f] # "applied" PROVE FALSE
  OBVIOUS
<1>1. {f \in Nodes : h[w][f] = "applied"} = {}
  OBVIOUS
<1>2. Cardinality({f \in Nodes : h[w][f] = "applied"}) = 0
  BY <1>1, FS_EmptySet
<1>3. IsFiniteSet(Followers(at[w]))
  BY FollowersFacts, NodesAssumption, FS_Subset
<1>4. Cardinality(Followers(at[w])) \in Nat \ {0}
  BY <1>3, FS_CardinalityType, FS_EmptySet
<1>5. \A k \in Nat \ {0} : ((1 + k) \div 2) + 1 \in Nat /\ ((1 + k) \div 2) + 1 >= 2
  OBVIOUS
<1>6. RequiredAcks(at[w]) \in Nat /\ RequiredAcks(at[w]) >= 2
  BY <1>4, <1>5, Zenon DEF RequiredAcks
<1> QED
  BY <1>2, <1>6 DEF Commit

\* The steps of a client write.
LEMMA WriteKeepsIInv ==
    ASSUME IInv, NEW w \in Ops, Write(w)
    PROVE  IInv'
<1>0. /\ at[w] \in Nodes /\ at = [at EXCEPT ![w] = at[w]]
      /\ epoch[w] \in Nat /\ epoch = [epoch EXCEPT ![w] = epoch[w]]
      /\ \A n \in Nodes : map[n].owner \in Nodes /\ map[n].epoch \in Nat
  BY DEF IInv, Shape
<1>1. ASSUME NEW n \in Nodes, StartWrite(n, w) PROVE IInv'
  BY <1>0, <1>1, MoveKeepsIInv, Zenon DEF StartWrite, nodeVars, history
<1>2. ASSUME NEW n \in Nodes, ForwardWrite(n, w) PROVE IInv'
  BY <1>0, <1>2, MoveKeepsIInv, Zenon DEF ForwardWrite, nodeVars, history
<1>8. CASE RemoteApplies(w)
  BY <1>0, <1>8, MoveKeepsIInv, Zenon DEF RemoteApplies, history
<1>9. CASE RemoteFails(w)
  BY <1>0, <1>9, MoveKeepsIInv, Zenon DEF RemoteFails, history
<1>10. CASE LocalError(w)
  BY <1>0, <1>10, MoveKeepsIInv, Zenon DEF LocalError, nodeVars, history
<1>3. CASE ApplyLocally(w)
  BY <1>0, <1>3, MoveKeepsIInv, Zenon DEF ApplyLocally, history
<1>4. CASE CommitLocally(w)
  BY <1>0, <1>4, MoveKeepsIInv, Zenon DEF CommitLocally, nodeVars, history
<1>5. CASE Replicate(w)
  <2> USE DEF IInv, Shape, SentWrites, SeqsFromOwner, DoomedFenced
  <2> DEFINE e == [seq |-> NextSeq(log[Owner0]), op |-> w]
  <2>1. at[w] = Owner0 /\ Owner0 \in Nodes /\ Followers(Owner0) \subseteq Nodes
    BY <1>5, FollowersFacts DEF Replicate
  <2>2. /\ pc[w] = "applied" /\ Followers(Owner0) # {}
        /\ pc' = [pc EXCEPT ![w] = "sent"]
        /\ epoch' = [epoch EXCEPT ![w] = map[Owner0].epoch]
        /\ seq' = [seq EXCEPT ![w] = NextSeq(log[Owner0])]
        /\ log' = [log EXCEPT ![Owner0] = RecordOwner(@, w)]
        /\ h' = [h EXCEPT ![w] =
              [f \in Nodes |-> IF f \in Followers(Owner0) THEN "wire" ELSE "none"]]
        /\ doomed' = IF \A f \in Followers(Owner0) : fence[f] > map[Owner0].epoch
                     THEN doomed \cup {w} ELSE doomed
        /\ UNCHANGED <<map, fence, at>>
    BY <1>5, <2>1 DEF Replicate
  <2>3. WellFormed(RecordOwner(log[Owner0], w))
    BY <2>1, RecordOwnerWellFormed
  <2>4. NextSeq(log[Owner0]) \in Nat \ {0}
    BY <2>1 DEF NextSeq, WellFormed
  <2>5. Shape'
    <3>1. DOMAIN log' = Nodes /\ \A n \in Nodes : WellFormed(log[n])'
      BY <2>1, <2>2, <2>3
    <3> QED
      BY <2>1, <2>2, <2>4, <3>1
  <2>6. SentWrites'
    BY <2>1, <2>2, <2>4
  <2>7. SeqsFromOwner'
    <3>1. /\ log'[Owner0].high_water = NextSeq(log[Owner0])
          /\ log'[Owner0].entries \subseteq log[Owner0].entries \cup {e}
      <4>1. log'[Owner0] = RecordOwner(log[Owner0], w)
        BY <2>1, <2>2
      <4> HIDE DEF IInv, Shape, SentWrites, SeqsFromOwner, DoomedFenced
      <4> QED
        BY <4>1, RecordedEntries, Zenon
    <3>2. seq[w] = 0
      BY <2>2
    <3>3. \A v \in Ops : seq'[v] = IF v = w THEN NextSeq(log[Owner0]) ELSE seq[v]
      BY <2>2
    <3>4. \A v \in Ops : seq[v] < NextSeq(log[Owner0])
      <4>1. log[Owner0].high_water \in Nat
        BY <2>1 DEF WellFormed
      <4> QED
        BY <4>1 DEF NextSeq
    <3>8. \A v \in Ops : seq[v] \in Nat
      OBVIOUS
    <3>9. \A u, v \in Ops : u # v /\ seq[u] = seq[v] => seq[u] = 0
      OBVIOUS
    <3> HIDE DEF IInv, Shape, SentWrites, SeqsFromOwner, DoomedFenced
    <3>5. \A v \in Ops : seq'[v] <= log'[Owner0].high_water
      BY <2>4, <3>1, <3>3, <3>4, <3>8
    <3>6. \A u, v \in Ops : u # v /\ seq'[u] = seq'[v] => seq'[u] = 0
      BY <2>4, <3>3, <3>4, <3>8, <3>9
    <3>7. ASSUME NEW n \in Nodes, NEW x \in log'[n].entries PROVE seq'[x.op] = x.seq
      <4>1. CASE x \in log[n].entries
        <5>1. x.op \in Ops /\ x.seq \in Nat \ {0} /\ seq[x.op] = x.seq
          BY <4>1 DEF WellFormed, Entry, IInv, Shape, SeqsFromOwner
        <5> QED
          BY <5>1, <3>2, <3>3
      <4>2. CASE x \notin log[n].entries
        <5>1. x = e
          BY <2>1, <2>2, <3>1, <3>7, <4>2 DEF IInv, Shape
        <5> QED
          BY <5>1, <3>3
      <4> QED
        BY <4>1, <4>2
    <3> QED
      BY <3>5, <3>6, <3>7 DEF SeqsFromOwner
  <2>8. DoomedFenced'
    <3> SUFFICES ASSUME NEW v \in doomed' PROVE DoomedFenced!(v)'
      OBVIOUS
    <3>1. CASE v = w
      <4>1. w \notin doomed
        BY <2>2, Zenon
      <4>2. \A f \in Followers(Owner0) : fence'[f] > epoch'[w] /\ h'[w][f] = "wire"
        BY <2>1, <2>2, <3>1, <4>1
      <4>3. pc'[w] = "sent" /\ at'[w] = Owner0
        BY <2>1, <2>2
      <4> HIDE DEF IInv, Shape, SentWrites, SeqsFromOwner
      <4> QED
        BY <2>2, <3>1, <4>2, <4>3
    <3>2. CASE v # w
      BY <2>2, <3>2
    <3> QED
      BY <3>1, <3>2
  <2> QED
    BY <2>5, <2>6, <2>7, <2>8
<1>6. CASE Commit(w)
  <2>1. w \notin doomed
    <3> USE DEF IInv, Shape, SentWrites, DoomedFenced
    <3> SUFFICES ASSUME w \in doomed PROVE FALSE
      OBVIOUS
    <3>1. \A f \in Nodes : h[w][f] # "applied"
      BY Zenon
    <3>2. at[w] \in Nodes /\ Followers(at[w]) # {}
      OBVIOUS
    <3> QED
      BY <1>6, <3>1, <3>2, CommitNeedsFollower
  <2> QED
    BY <1>0, <1>6, <2>1, MoveKeepsIInv, Zenon DEF Commit, nodeVars, history
<1>7. CASE GiveUp(w)
  BY <1>0, <1>7, MoveKeepsIInv, Zenon DEF GiveUp, nodeVars, history
<1> QED
  BY <1>1, <1>2, <1>3, <1>4, <1>5, <1>6, <1>7, <1>8, <1>9, <1>10 DEF Write

\* The steps of a follower's handler.
LEMMA HandleKeepsIInv ==
    ASSUME IInv, NEW w \in Ops, NEW f \in Nodes, Handle(w, f)
    PROVE  IInv'
<1> DEFINE Answered == {"admitted", "recorded", "applied", "rejected"}
\* What every step of the handler has in common.
<1>1. PICK a \in Answered :
        /\ h[w][f] # "none" /\ h' = [h EXCEPT ![w][f] = a]
        /\ a # "rejected" => w \notin doomed
        /\ UNCHANGED <<map, pc, at, epoch, seq, doomed>>
  <2>1. /\ f \in Followers(at[w]) \/ h[w][f] = "none"
        /\ w \in doomed => \A g \in Followers(at[w]) :
              fence[g] > epoch[w] /\ h[w][g] \in {"wire", "rejected"}
        /\ fence[f] \in Nat /\ epoch[w] \in Nat
    BY DEF IInv, Shape, SentWrites, DoomedFenced
  <2>2. CASE Admit(w, f)
    BY <2>1, <2>2 DEF Admit, history
  <2>3. CASE Fenced(w, f)
    BY <2>3 DEF Fenced, nodeVars, history
  <2>4. CASE Lose(w, f)
    BY <2>4 DEF Lose, nodeVars, history
  <2>5. CASE Record(w, f)
    BY <2>1, <2>5 DEF Record, history
  <2>6. CASE ApplyReplica(w, f)
    BY <2>1, <2>6 DEF ApplyReplica, history
  <2>7. CASE ApplyFails(w, f)
    BY <2>7 DEF ApplyFails, nodeVars, history
  <2> QED
    BY <2>2, <2>3, <2>4, <2>5, <2>6, <2>7 DEF Handle
<1>2. /\ fence' \in [Nodes -> Nat]
      /\ \A n \in Nodes : fence'[n] >= fence[n]
  <2>1. CASE Admit(w, f)
    BY <2>1 DEF Admit, IInv, Shape
  <2>2. CASE ~Admit(w, f)
    <3>1. fence' = fence
      BY <2>2 DEF Handle, Fenced, Lose, Record, ApplyReplica, ApplyFails, nodeVars
    <3> QED
      BY <3>1 DEF IInv, Shape
  <2> QED
    BY <2>1, <2>2
<1>3. /\ f # Owner0 /\ Owner0 \in Nodes /\ seq[w] \in Nat \ {0}
      /\ pc[w] \notin {"new", "routed", "checked", "applied"} /\ f \in Followers(at[w])
  BY <1>1, FollowersFacts DEF IInv, Shape, SentWrites
\* The log of the follower gains at most the write, under the write's seq.
<1>4. /\ DOMAIN log' = Nodes /\ \A n \in Nodes : WellFormed(log[n])'
      /\ \A n \in Nodes : log'[n].entries
             \subseteq log[n].entries \cup {[seq |-> seq[w], op |-> w]}
      /\ log'[Owner0] = log[Owner0]
  <2>1. CASE Record(w, f)
    <3>1. WellFormed(RecordReplica(log[f], seq[w], w))
      BY <1>3, RecordReplicaWellFormed DEF IInv, Shape
    <3>2. log' = [log EXCEPT ![f] = RecordReplica(log[f], seq[w], w)]
      BY <2>1 DEF Record
    <3>3. RecordReplica(log[f], seq[w], w).entries
             \subseteq log[f].entries \cup {[seq |-> seq[w], op |-> w]}
      BY RecordedEntries
    <3> QED
      BY <1>3, <3>1, <3>2, <3>3 DEF IInv, Shape
  <2>2. CASE ~Record(w, f)
    <3>1. log' = log
      BY <2>2 DEF Handle, Admit, Fenced, Lose, ApplyReplica, ApplyFails, nodeVars
    <3> QED
      BY <3>1 DEF IInv, Shape
  <2> QED
    BY <2>1, <2>2
<1>5. Shape'
  BY <1>1, <1>2, <1>4 DEF IInv, Shape
<1>6. SentWrites'
  <2> SUFFICES ASSUME NEW v \in Ops PROVE SentWrites!(v)'
    BY DEF SentWrites
  <2>1. CASE v = w
    BY <1>1, <1>3, <2>1 DEF IInv, Shape, SentWrites
  <2>2. CASE v # w
    BY <1>1, <2>2 DEF IInv, Shape, SentWrites
  <2> QED
    BY <2>1, <2>2
<1>7. SeqsFromOwner'
  <2>1. \A n \in Nodes : \A e \in log'[n].entries : seq'[e.op] = e.seq
    BY <1>1, <1>4 DEF IInv, SeqsFromOwner
  <2> QED
    BY <1>1, <1>4, <2>1 DEF IInv, SeqsFromOwner
<1>8. DoomedFenced'
  <2> SUFFICES ASSUME NEW v \in doomed PROVE DoomedFenced!(v)'
    BY <1>1 DEF DoomedFenced
  <2>1. /\ v \in Ops /\ epoch[v] \in Nat
        /\ \A g \in Followers(at[v]) : g \in Nodes /\ fence[g] \in Nat
    BY FollowersFacts DEF IInv, Shape
  <2>2. \A g \in Followers(at[v]) : fence'[g] > epoch[v]
    BY <1>2, <2>1 DEF IInv, DoomedFenced
  <2>3. \A g \in Followers(at[v]) : h'[v][g] \in {"wire", "rejected"}
    BY <1>1, <2>1 DEF IInv, Shape, DoomedFenced
  <2> QED
    BY <1>1, <2>2, <2>3 DEF IInv, DoomedFenced
<1> QED
  BY <1>5, <1>6, <1>7, <1>8 DEF IInv

\* The steps of a failure detector: a map or a fence moves up, nothing else of
\* the invariant changes.
LEMMA DetectorKeepsIInv ==
    ASSUME IInv, NEW n \in Nodes, FailoverShard(n) \/ CatchUp(n)
    PROVE  IInv'
<1>1. /\ map' \in [Nodes -> [owner : Nodes, epoch : Nat, replicas : Seq(Nodes)]]
      /\ UNCHANGED <<log, pc, at, epoch, seq, h, doomed>>
  <2>1. CASE FailoverShard(n)
    <3> DEFINE old == map[n]
    <3>1. PICK i \in 1..Len(old.replicas) :
            map' = [map EXCEPT ![n] =
                [owner |-> old.replicas[i], epoch |-> old.epoch + 1,
                 replicas |-> Without(old.replicas, i)]]
      BY <2>1, Zenon DEF FailoverShard
    <3>2. old.replicas \in Seq(Nodes) /\ old.epoch \in Nat
      BY DEF IInv, Shape
    <3>3. old.replicas[i] \in Nodes
      BY <3>1, <3>2
    <3>4. Without(old.replicas, i) \in Seq(Nodes)
      <4>1. SubSeq(old.replicas, 1, i - 1) \in Seq(Nodes)
        BY <3>2
      <4>2. SubSeq(old.replicas, i + 1, Len(old.replicas)) \in Seq(Nodes)
        BY <3>2
      <4> QED
        BY <4>1, <4>2 DEF Without
    <3> HIDE DEF old
    <3>5. map' \in [Nodes -> [owner : Nodes, epoch : Nat, replicas : Seq(Nodes)]]
      BY <3>1, <3>2, <3>3, <3>4 DEF IInv, Shape
    <3>6. UNCHANGED <<log, pc, at, epoch, seq, h, doomed>>
      BY <2>1 DEF FailoverShard, writeVars
    <3> QED
      BY <3>5, <3>6
  <2>2. CASE CatchUp(n)
    <3>1. UNCHANGED <<map, log, pc, at, epoch, seq, h, doomed>>
      BY <2>2, Zenon DEF CatchUp, ObserveMap, BeginCatchUp, FetchDelta, FetchSnapshot,
         ReplayOp, InstallSnapshot, AbortCatchUp, EndCatchUp, writeVars, history
    <3> QED
      BY <3>1 DEF IInv, Shape
  <2> QED
    BY <2>1, <2>2
<1>2. fence' \in [Nodes -> Nat] /\ \A m \in Nodes : fence'[m] >= fence[m]
  <2>1. CASE ObserveMap(n)
    BY <2>1 DEF ObserveMap, IInv, Shape
  <2>2. CASE ~ObserveMap(n)
    <3>1. fence' = fence
      BY <2>2 DEF FailoverShard, CatchUp, BeginCatchUp, FetchDelta, FetchSnapshot,
         ReplayOp, InstallSnapshot, AbortCatchUp, EndCatchUp
    <3> QED
      BY <3>1 DEF IInv, Shape
  <2> QED
    BY <2>1, <2>2
<1>3. Shape'
  BY <1>1, <1>2 DEF IInv, Shape
<1>4. SentWrites' /\ SeqsFromOwner'
  BY <1>1 DEF IInv, SentWrites, SeqsFromOwner
<1>5. DoomedFenced'
  <2> SUFFICES ASSUME NEW v \in doomed PROVE DoomedFenced!(v)'
    BY <1>1 DEF DoomedFenced
  <2>1. /\ v \in Ops /\ epoch[v] \in Nat
        /\ \A g \in Followers(at[v]) : g \in Nodes /\ fence[g] \in Nat
    BY FollowersFacts DEF IInv, Shape
  <2>2. \A g \in Followers(at[v]) : fence'[g] > epoch[v]
    BY <1>2, <2>1 DEF IInv, DoomedFenced
  <2> QED
    BY <1>1, <2>2 DEF IInv, DoomedFenced
<1> QED
  BY <1>3, <1>4, <1>5 DEF IInv

LEMMA NextIInv == IInv /\ [Next]_vars => IInv'
<1> SUFFICES ASSUME IInv, [Next]_vars PROVE IInv'
  OBVIOUS
<1>1. CASE UNCHANGED vars
  <2>1. UNCHANGED <<map, fence, log, pc, at, epoch, seq, h, doomed>>
    BY <1>1 DEF vars, nodeVars, writeVars, history
  <2>2. Shape'
    BY <2>1 DEF IInv, Shape
  <2>3. SentWrites' /\ SeqsFromOwner'
    BY <2>1 DEF IInv, SentWrites, SeqsFromOwner
  <2>4. DoomedFenced'
    BY <2>1 DEF IInv, DoomedFenced
  <2> QED
    BY <2>2, <2>3, <2>4 DEF IInv
<1>2. ASSUME NEW w \in Ops, Write(w) PROVE IInv'
  BY <1>2, WriteKeepsIInv
<1>3. ASSUME NEW w \in Ops, NEW f \in Nodes, Handle(w, f) PROVE IInv'
  BY <1>3, HandleKeepsIInv
<1>4. ASSUME NEW n \in Nodes, FailoverShard(n) \/ CatchUp(n) PROVE IInv'
  BY <1>4, DetectorKeepsIInv
<1> QED
  BY <1>1, <1>2, <1>3, <1>4 DEF Next

\* All replicas share one seq space: no two logs of the cluster ever hold
\* different writes under one seq (record_owner, record_replica), through any
\* number of failovers.
THEOREM OneSeqSpace == Spec => []SeqNamesOneWrite
<1>1. Spec => []IInv
  BY InitIInv, NextIInv, PTL DEF Spec
<1> QED
  BY <1>1, IInvProperties, PTL

\* An owner that every follower has fenced (ShardFence::admit) never again gets
\* a quorum for a write it sends.
THEOREM DeposedOwnerCannotCommit == Spec => []DeposedNeverCommits
<1>1. Spec => []IInv
  BY InitIInv, NextIInv, PTL DEF Spec
<1> QED
  BY <1>1, IInvProperties, PTL

-----------------------------------------------------------------------------
(* What a promotion keeps.                                                 *)

Dets == [pc : {"idle", "promoted", "fenced", "fetching", "replaying", "snapshotting",
               "installing", "done"},
         source : Nodes \cup {NoOp}, from : Nat, ops : SUBSET Entry, snap : Data]

\* The rest of the types.
NodeShape ==
    /\ \A n \in Nodes : map[n].epoch \in 1..MaxEpoch /\ fence[n] \in 1..MaxEpoch
    /\ \A w \in Ops : epoch[w] \in 0..MaxEpoch
    /\ data \in [Nodes -> Data]
    /\ blocked \in [Nodes -> BOOLEAN]
    /\ det \in [Nodes -> Dets]
    /\ before \in [Nodes -> SUBSET Ops]
    /\ dropped \in [Nodes -> SUBSET Ops]
    /\ \A n \in Nodes : blocked[n] <=> Reconciling(n) \/ det[n].pc = "done"

\* A write is in the log, or older than all of it.
Kept(w, f) ==
    \/ \E e \in log[f].entries : e.op = w
    \/ \A e \in log[f].entries : seq[w] < e.seq

\* What the state of a follower's handler says of the follower.
HandlerOk(w, f) ==
    /\ h[w][f] = "applied" => w \in data[f].has
    /\ h[w][f] \in {"recorded", "applied"} => seq[w] <= log[f].high_water
    /\ h[w][f] \in {"recorded", "applied"} /\ w \notin dropped[f] => Kept(w, f)

\* Only the first owner replicates, and a replicated write is acknowledged only
\* once a follower has applied it.
ReplicatedByOwner == \A w \in Ops : seq[w] > 0 => at[w] = Owner0

AckedOnFollower ==
    \A w \in Ops : pc[w] = "ok" /\ seq[w] > 0 =>
        \E f \in Followers(Owner0) : h[w][f] = "applied"

\* Promotions go from follower to follower, and catch up from a follower.
Promotable(n) ==
    /\ map[n].replicas \in Seq(Followers(Owner0))
    /\ \A w \in before[n] : pc[w] = "ok"
    /\ det[n].source # NoOp =>
           n \in Followers(Owner0) /\ det[n].source \in Followers(Owner0) \ {n}

\* A write that n still has to get from its source.
Missing(n, w) ==
    /\ w \in before[n] /\ seq[w] > 0
    /\ w \notin data[n].has /\ seq[w] > log[n].high_water
    /\ w \notin dropped[det[n].source]

\* Where a missing write is, at each step of the catch-up.
CatchUpOk(n) ==
    /\ det[n].pc \notin {"idle", "promoted"} => det[n].source # NoOp
    /\ det[n].pc = "fetching" => det[n].from <= log[n].high_water
    /\ det[n].source # NoOp =>
           \A w \in Ops : Missing(n, w) =>
               /\ h[w][det[n].source] = "applied"
               /\ det[n].pc = "replaying" => \E e \in det[n].ops : e.op = w
               /\ det[n].pc = "installing" => w \in det[n].snap.has
               /\ det[n].pc # "done"

KeepInv ==
    /\ IInv /\ NodeShape /\ ReplicatedByOwner /\ AckedOnFollower
    /\ \A w \in Ops, f \in Nodes : HandlerOk(w, f)
    /\ \A n \in Nodes : Promotable(n) /\ CatchUpOk(n)

\* A sequence is over any set that holds its elements.
LEMMA SeqNarrows ==
    ASSUME NEW S, NEW T, NEW s \in Seq(S), \A i \in 1..Len(s) : s[i] \in T
    PROVE  s \in Seq(T)
<1>1. s \in [1..Len(s) -> S] /\ Len(s) \in Nat
  OBVIOUS
<1>2. s \in [1..Len(s) -> T]
  BY <1>1
<1> QED
  BY <1>1, <1>2

LEMMA InitKeepInv == Init => KeepInv
<1> SUFFICES ASSUME Init PROVE KeepInv
  OBVIOUS
<1>1. Tail(Ring) \in Seq(Followers(Owner0))
  <2>1. \A i \in 2..Len(Ring) : Ring[i] \in Followers(Owner0)
    BY DEF Followers
  <2>2. /\ Tail(Ring) \in Seq(Nodes) /\ Len(Tail(Ring)) = Len(Ring) - 1
        /\ \A i \in 1..Len(Tail(Ring)) : Tail(Ring)[i] = Ring[i + 1]
    BY RingAssumption
  <2>3. \A i \in 1..Len(Tail(Ring)) : Tail(Ring)[i] \in Followers(Owner0)
    BY <2>1, <2>2, RingAssumption
  <2> QED
    BY <2>2, <2>3, SeqNarrows, Zenon
<1>2. IdleDetector \in Dets /\ IdleDetector.source = NoOp /\ IdleDetector.pc = "idle"
  BY DEF IdleDetector, Dets, Data
<1>3. NodeShape
  BY <1>2, MaxEpochAssumption DEF Init, NodeShape, Data, Reconciling
<1>4. ReplicatedByOwner /\ AckedOnFollower
  BY DEF Init, ReplicatedByOwner, AckedOnFollower
<1>5. \A w \in Ops, f \in Nodes : HandlerOk(w, f)
  BY DEF Init, HandlerOk
<1>6. \A n \in Nodes : Promotable(n) /\ CatchUpOk(n)
  BY <1>1, <1>2, Zenon DEF Init, Promotable, CatchUpOk
<1> QED
  BY <1>3, <1>4, <1>5, <1>6, InitIInv DEF KeepInv

\* While the detector of a node rests, what it misses can only shrink.
LEMMA CatchUpRests ==
    ASSUME NEW n \in Nodes, CatchUpOk(n), det[n] \in Dets, det'[n] = det[n],
           before'[n] = before[n], before[n] \subseteq Ops,
           \A w \in before[n] : seq'[w] = seq[w],
           data[n].has \subseteq data'[n].has,
           log[n].high_water \in Nat, log'[n].high_water \in Nat,
           log'[n].high_water >= log[n].high_water,
           seq \in [Ops -> Nat],
           \A m \in Nodes : dropped[m] \subseteq dropped'[m],
           \A w \in Ops, m \in Nodes : h[w][m] = "applied" => h'[w][m] = "applied"
    PROVE  CatchUpOk(n)'
<1>1. det[n].from \in Nat
  BY DEF Dets
<1>2. det[n].source # NoOp => det[n].source \in Nodes
  BY DEF Dets
<1>3. ASSUME NEW w \in Ops, det[n].source # NoOp, Missing(n, w)' PROVE Missing(n, w)
  <2>1. w \in before[n] /\ seq'[w] = seq[w] /\ seq[w] \in Nat
    BY <1>3 DEF Missing
  <2>2. /\ seq[w] > 0 /\ w \notin data'[n].has /\ seq[w] > log'[n].high_water
        /\ w \notin dropped'[det[n].source]
    BY <1>3, <2>1 DEF Missing
  <2> QED
    BY <1>2, <1>3, <2>1, <2>2 DEF Missing
<1>4. det'[n].pc = "fetching" => det'[n].from <= log'[n].high_water
  BY <1>1 DEF CatchUpOk
<1>5. ASSUME NEW w \in Ops, det[n].source # NoOp, Missing(n, w)'
      PROVE  /\ h'[w][det[n].source] = "applied"
             /\ det[n].pc = "replaying" => \E e \in det[n].ops : e.op = w
             /\ det[n].pc = "installing" => w \in det[n].snap.has
             /\ det[n].pc # "done"
  BY <1>2, <1>3, <1>5 DEF CatchUpOk
<1> QED
  BY <1>4, <1>5 DEF CatchUpOk

\* The steps of a client write.
LEMMA WriteKeepsKeepInv ==
    ASSUME KeepInv, NEW w \in Ops, Write(w)
    PROVE  KeepInv'
<1>1. IInv' /\ Shape /\ Shape' /\ NodeShape /\ SentWrites
  BY WriteKeepsIInv DEF KeepInv, IInv
<1>2. /\ UNCHANGED <<map, fence, blocked, det, before, dropped>>
      /\ pc[w] # "ok" /\ \A v \in Ops \ {w} : pc'[v] = pc[v]
  <2>1. pc \in [Ops -> {"new", "routed", "checked", "applied", "sent", "ok", "failed"}]
    BY <1>1 DEF Shape
  <2> QED
    BY <2>1 DEF Write, RemoteApplies, RemoteFails, ApplyLocally, LocalError, CommitLocally,
         Replicate, Commit, GiveUp, StartWrite, ForwardWrite, nodeVars, history
\* A graph gains at most the write, and only Replicate touches logs and handlers.
<1>3. data' \in [Nodes -> Data] /\ \A n \in Nodes : data[n].has \subseteq data'[n].has
  <2>1. CASE data' = data
    BY <1>1, <2>1, Zenon DEF NodeShape
  <2>2. CASE data' = [data EXCEPT ![at[w]] = ApplyTo(@, w)]
    BY <1>1, <2>2, Zenon DEF NodeShape, Shape, Data, ApplyTo
  <2> QED
    BY <2>1, <2>2, Zenon DEF Write, RemoteApplies, RemoteFails, ApplyLocally, LocalError,
         CommitLocally, Replicate, Commit, GiveUp, StartWrite, ForwardWrite, nodeVars
<1>4. \/ UNCHANGED <<log, seq, h>>
      \/ /\ log' = [log EXCEPT ![Owner0] = RecordOwner(@, w)]
         /\ seq' = [seq EXCEPT ![w] = NextSeq(log[Owner0])]
         /\ \A f \in Nodes : h'[w][f] \in {"wire", "none"}
         /\ \A v \in Ops \ {w} : h'[v] = h[v]
         /\ \A f \in Nodes : h[w][f] = "none"
         /\ pc[w] = "applied" /\ pc'[w] = "sent" /\ at' = at /\ at[w] = Owner0
  <2>1. CASE Replicate(w)
    <3>1. at[w] = Owner0 /\ pc[w] = "applied"
      BY <1>1, <2>1, FollowersFacts DEF Replicate, Shape
    <3>2. DOMAIN h = Ops /\ DOMAIN pc = Ops
      BY <1>1 DEF Shape
    <3>3. \A f \in Nodes : h[w][f] = "none"
      BY <1>1, <3>1 DEF SentWrites
    <3>4. \A f \in Nodes : h'[w][f] \in {"wire", "none"}
      BY <2>1, <3>2 DEF Replicate
    <3>5. \A v \in Ops \ {w} : h'[v] = h[v]
      BY <2>1, <3>2 DEF Replicate
    <3> QED
      BY <2>1, <3>1, <3>2, <3>3, <3>4, <3>5, Zenon DEF Replicate
  <2> QED
    BY <2>1, Zenon DEF Write, RemoteApplies, RemoteFails, ApplyLocally, LocalError, CommitLocally,
         Commit, GiveUp, StartWrite, ForwardWrite, nodeVars
<1>5. Owner0 \in Nodes /\ \A v \in Ops : h[v][Owner0] = "none"
  BY <1>1, FollowersFacts DEF Shape, SentWrites
<1>6. \A n \in Nodes : /\ log[n].high_water \in Nat /\ log'[n].high_water \in Nat
                       /\ log'[n].high_water >= log[n].high_water
                       /\ n # Owner0 => log'[n] = log[n]
  <2>1. \A n \in Nodes : log[n].high_water \in Nat
    BY <1>1 DEF Shape, WellFormed
  <2>2. RecordOwner(log[Owner0], w).high_water = log[Owner0].high_water + 1
    BY DEF RecordOwner, NextSeq
  <2>3. DOMAIN log = Nodes
    BY <1>1 DEF Shape
  <2> QED
    BY <1>4, <1>5, <2>1, <2>2, <2>3
<1>7. \A v \in Ops : v # w => seq'[v] = seq[v] /\ h'[v] = h[v]
  BY <1>1, <1>4 DEF Shape
<1>8. \A v \in Ops, f \in Nodes : h[v][f] = "applied" => h'[v][f] = "applied"
  BY <1>4, <1>7
<1>9. NodeShape'
  <2>1. \A v \in Ops : epoch'[v] \in 0..MaxEpoch
    <3>1. \A n \in Nodes : map[n].epoch \in 0..MaxEpoch
      BY <1>1, MaxEpochAssumption DEF NodeShape
    <3>2. at[w] \in Nodes /\ epoch \in [Ops -> Nat]
      BY <1>1 DEF Shape
    <3>3. epoch' = epoch \/ epoch' = [epoch EXCEPT ![w] = map[at[w]].epoch]
      BY DEF Write, RemoteApplies, RemoteFails, ApplyLocally, LocalError, CommitLocally,
           Replicate, Commit, GiveUp, StartWrite, ForwardWrite
    <3> QED
      BY <1>1, <3>1, <3>2, <3>3 DEF NodeShape
  <2> QED
    BY <1>1, <1>2, <1>3, <2>1 DEF NodeShape, Reconciling
<1>14. ReplicatedByOwner'
  <2>1. at' = at \/ (pc[w] = "new" /\ \A v \in Ops \ {w} : at'[v] = at[v])
    BY <1>1, Zenon DEF Shape, Write, RemoteApplies, RemoteFails, ApplyLocally, LocalError,
         CommitLocally, Replicate, Commit, GiveUp, StartWrite, ForwardWrite
  <2>2. pc[w] = "new" => seq[w] = 0 /\ seq' = seq
    BY <1>1, <1>4, Zenon DEF SentWrites
  <2>3. ReplicatedByOwner
    BY DEF KeepInv
  <2> QED
    BY <1>4, <1>7, <2>1, <2>2, <2>3 DEF ReplicatedByOwner
<1>10. AckedOnFollower'
  <2> SUFFICES ASSUME NEW v \in Ops, pc'[v] = "ok", seq'[v] > 0
               PROVE  \E f \in Followers(Owner0) : h'[v][f] = "applied"
    BY DEF AckedOnFollower
  <2>1. CASE v # w
    <3>1. \A f \in Followers(Owner0) : f \in Nodes
      BY FollowersFacts
    <3> QED
      BY <1>2, <1>7, <1>8, <2>1, <3>1 DEF KeepInv, AckedOnFollower
  <2>2. CASE v = w
    <3>1. h' = h /\ seq' = seq /\ pc[w] \notin {"new", "routed", "checked", "applied"}
      BY <1>1, <1>4, <2>2 DEF SentWrites
    <3>2. Commit(w)
      BY <1>1, <2>2, <3>1, Zenon DEF Write, RemoteApplies, RemoteFails, ApplyLocally, LocalError,
           CommitLocally, Replicate, GiveUp, StartWrite, ForwardWrite, Shape
    <3>5. at[w] = Owner0 /\ Owner0 \in Nodes /\ Followers(Owner0) # {}
      BY <2>2, <3>1, FollowersFacts DEF KeepInv, ReplicatedByOwner
    <3>3. PICK f \in Nodes : h[w][f] = "applied"
      BY <3>2, <3>5, CommitNeedsFollower
    <3>4. f \in Followers(at[w]) /\ at[w] \in Nodes
      BY <1>1, <3>3 DEF SentWrites, Shape
    <3> QED
      BY <2>2, <3>1, <3>3, <3>4, FollowersFacts
  <2> QED
    BY <2>1, <2>2
<1>11. ASSUME NEW v \in Ops, NEW f \in Nodes PROVE HandlerOk(v, f)'
  <2>1. CASE h'[v][f] \notin {"recorded", "applied"}
    BY <2>1 DEF HandlerOk
  <2>2. CASE h'[v][f] \in {"recorded", "applied"}
    <3>1. h'[v] = h[v] /\ seq'[v] = seq[v]
      BY <1>4, <1>7, <2>2
    <3>2. f # Owner0
      BY <1>5, <2>2, <3>1
    <3>3. log'[f] = log[f] /\ dropped' = dropped
      BY <1>2, <1>6, <3>2
    <3> QED
      BY <1>3, <3>1, <3>3 DEF KeepInv, HandlerOk, Kept
  <2> QED
    BY <2>1, <2>2
<1>12. ASSUME NEW n \in Nodes PROVE Promotable(n)'
  BY <1>1, <1>2, Zenon DEF KeepInv, Promotable, NodeShape, Followers
<1>13. ASSUME NEW n \in Nodes PROVE CatchUpOk(n)'
  <2>1. before[n] \subseteq Ops /\ \A v \in before[n] : seq'[v] = seq[v]
    <3>1. before[n] \subseteq Ops
      BY <1>1 DEF NodeShape
    <3>2. Promotable(n)
      BY DEF KeepInv
    <3>3. w \notin before[n]
      BY <1>2, <3>2 DEF Promotable
    <3> QED
      BY <1>7, <3>1, <3>3
  <2>2. det[n] \in Dets /\ seq \in [Ops -> Nat] /\ CatchUpOk(n)
    BY <1>1, Zenon DEF NodeShape, Shape, KeepInv
  <2> QED
    BY <1>2, <1>3, <1>6, <1>8, <2>1, <2>2, CatchUpRests, Zenon
<1> QED
  BY <1>1, <1>9, <1>10, <1>11, <1>12, <1>13, <1>14 DEF KeepInv

\* Recording never lowers the mark, and an entry that leaves the ring, or had left
\* it, is older than the rest.
LEMMA RecordReplicaKeeps ==
    ASSUME NEW l, WellFormed(l), NEW op \in Ops, NEW s \in Nat \ {0}
    PROVE  LET r == RecordReplica(l, s, op) IN
           /\ r.high_water \in Nat /\ r.high_water >= l.high_water /\ r.high_water >= s
           /\ \A x \in l.entries : x \in r.entries \/ \A y \in r.entries : x.seq < y.seq
           /\ \A k \in Nat : k <= l.high_water /\ (\A x \in l.entries : k < x.seq)
                             => \A y \in r.entries : k < y.seq
           /\ s > l.high_water => \/ [seq |-> s, op |-> op] \in r.entries
                                  \/ \A y \in r.entries : s < y.seq
<1> DEFINE e == [seq |-> s, op |-> op]
           pushed == l.entries \cup {e}
           r == RecordReplica(l, s, op)
<1>1. /\ l.high_water \in Nat /\ l.entries \subseteq Entry /\ e \in Entry
      /\ \A x \in Entry : x.seq \in Nat
  BY DEF WellFormed, Entry
<1>2. CASE s > l.high_water
  <2>1. r.high_water = s /\ r.entries = PushBounded(l.entries, e)
    BY <1>2 DEF RecordReplica
  <2>2. r.entries \subseteq pushed
    BY <2>1 DEF PushBounded
  <2>3. ASSUME NEW x \in pushed, x \notin r.entries PROVE \A y \in r.entries : x.seq < y.seq
    <3>1. r.entries = {z \in pushed : \E y \in pushed : y.seq < z.seq}
      BY <2>1, <2>3 DEF PushBounded
    <3>2. \A y \in pushed : ~(y.seq < x.seq) /\ y.seq \in Nat /\ x.seq \in Nat
      BY <1>1, <2>3, <3>1
    <3> QED
      BY <3>1, <3>2
  <2>4. ASSUME NEW k \in Nat, k <= l.high_water, \A x \in l.entries : k < x.seq
        PROVE  \A y \in r.entries : k < y.seq
    <3>1. k < e.seq
      BY <1>1, <1>2, <2>4
    <3> QED
      BY <2>2, <2>4, <3>1
  <2> HIDE DEF r
  <2>5. e.seq = s
    OBVIOUS
  <2>6. \A x \in l.entries : x \in r.entries \/ \A y \in r.entries : x.seq < y.seq
    BY <2>3
  <2>7. e \in r.entries \/ \A y \in r.entries : s < y.seq
    BY <2>3, <2>5
  <2>8. r.high_water \in Nat /\ r.high_water >= l.high_water /\ r.high_water >= s
    BY <1>1, <1>2, <2>1
  <2> HIDE DEF pushed
  <2>9. \A k \in Nat : k <= l.high_water /\ (\A x \in l.entries : k < x.seq)
                       => \A y \in r.entries : k < y.seq
    BY <2>4
  <2> QED
    BY <2>6, <2>7, <2>8, <2>9 DEF r
<1>3. CASE ~(s > l.high_water)
  <2>1. r = l
    BY <1>3 DEF RecordReplica
  <2> QED
    BY <1>1, <1>3, <2>1
<1> QED
  BY <1>2, <1>3

\* The steps of a follower's handler.
LEMMA HandleKeepsKeepInv ==
    ASSUME KeepInv, NEW w \in Ops, NEW f \in Nodes, Handle(w, f)
    PROVE  KeepInv'
<1>1. IInv' /\ Shape /\ Shape' /\ NodeShape /\ SentWrites
  BY HandleKeepsIInv DEF KeepInv, IInv
<1>2. /\ UNCHANGED <<map, blocked, det, pc, at, epoch, seq, before>>
      /\ h[w][f] \in {"wire", "admitted", "recorded"}
      /\ \E a \in {"admitted", "recorded", "applied", "rejected"} : h' = [h EXCEPT ![w][f] = a]
  <2>1. CASE Admit(w, f)
    BY <2>1 DEF Admit, history
  <2>2. CASE Fenced(w, f) \/ Lose(w, f)
    BY <2>2 DEF Fenced, Lose, nodeVars, history
  <2>3. CASE Record(w, f)
    BY <2>3 DEF Record
  <2>4. CASE ApplyReplica(w, f)
    BY <2>4 DEF ApplyReplica, history
  <2>5. CASE ApplyFails(w, f)
    BY <2>5 DEF ApplyFails, nodeVars, history
  <2> QED
    BY <2>1, <2>2, <2>3, <2>4, <2>5 DEF Handle
<1>h. h \in [Ops -> [Nodes -> {"none", "wire", "admitted", "recorded", "applied", "rejected"}]]
  BY <1>1 DEF Shape
<1>3. \A v \in Ops, g \in Nodes : ~(v = w /\ g = f) => h'[v][g] = h[v][g]
  BY <1>h, <1>2
<1>4. \A v \in Ops, g \in Nodes : h[v][g] = "applied" => h'[v][g] = "applied"
  BY <1>2, <1>3
<1>5. \A n \in Nodes : fence'[n] \in 1..MaxEpoch
  <2>1. CASE Admit(w, f)
    <3>1. epoch[w] \in 0..MaxEpoch /\ fence[f] \in 1..MaxEpoch /\ epoch[w] >= fence[f]
      BY <1>1, <2>1 DEF Admit, NodeShape
    <3>2. epoch[w] \in 1..MaxEpoch
      BY <3>1, MaxEpochAssumption
    <3> QED
      BY <1>1, <2>1, <3>2 DEF Admit, NodeShape, Shape
  <2>2. CASE ~Admit(w, f)
    <3>1. fence' = fence
      BY <2>2 DEF Handle, Fenced, Lose, Record, ApplyReplica, ApplyFails, nodeVars
    <3> QED
      BY <1>1, <3>1 DEF NodeShape
  <2> QED
    BY <2>1, <2>2
<1>6. /\ data' \in [Nodes -> Data]
      /\ \A n \in Nodes : data[n].has \subseteq data'[n].has
      /\ \A n \in Nodes \ {f} : data'[n] = data[n]
      /\ h'[w][f] = "applied" => w \in data'[f].has
  <2>1. CASE ApplyReplica(w, f)
    BY <1>1, <2>1 DEF ApplyReplica, NodeShape, Data, ApplyTo
  <2>2. CASE ~ApplyReplica(w, f)
    <3>1. data' = data
      BY <2>2 DEF Handle, Admit, Fenced, Lose, Record, ApplyFails, nodeVars
    <3>2. h'[w][f] # "applied"
      BY <1>h, <2>2 DEF Handle, Admit, Fenced, Lose, Record, ApplyFails
    <3> QED
      BY <1>1, <3>1, <3>2 DEF NodeShape
  <2> QED
    BY <2>1, <2>2, Zenon
<1>7. seq[w] \in Nat \ {0} /\ WellFormed(log[f]) /\ DOMAIN log = Nodes
  <2>1. h[w][f] # "none"
    BY <1>2
  <2>2. seq[w] > 0
    BY <1>1, <2>1 DEF SentWrites
  <2>3. seq[w] \in Nat
    BY <1>1 DEF Shape
  <2>4. WellFormed(log[f]) /\ DOMAIN log = Nodes
    BY <1>1 DEF Shape
  <2> QED
    BY <2>2, <2>3, <2>4
<1>8. \/ /\ Record(w, f) /\ log' = [log EXCEPT ![f] = RecordReplica(log[f], seq[w], w)]
         /\ dropped' = [dropped EXCEPT ![f] =
                          IF seq[w] > log[f].high_water THEN @ ELSE @ \cup {w}]
      \/ ~Record(w, f) /\ UNCHANGED <<log, dropped>> /\ (h'[w][f] = "applied" => h[w][f] = "recorded")
         /\ h'[w][f] # "recorded"
  <2>1. CASE Record(w, f)
    BY <2>1 DEF Record
  <2>2. CASE ~Record(w, f)
    <3>1. UNCHANGED <<log, dropped>>
      BY <2>2 DEF Handle, Admit, Fenced, Lose, ApplyReplica, ApplyFails, nodeVars, history
    <3>2. (h'[w][f] = "applied" => h[w][f] = "recorded") /\ h'[w][f] # "recorded"
      BY <1>h, <2>2 DEF Handle, Admit, Fenced, Lose, ApplyReplica, ApplyFails
    <3> QED
      BY <2>2, <3>1, <3>2
  <2> QED
    BY <2>1, <2>2
<1>9. /\ dropped' \in [Nodes -> SUBSET Ops]
      /\ \A n \in Nodes : dropped[n] \subseteq dropped'[n]
  <2>1. dropped \in [Nodes -> SUBSET Ops]
    BY <1>1 DEF NodeShape
  <2> QED
    BY <1>8, <2>1
<1>10. \A n \in Nodes : /\ log[n].high_water \in Nat /\ log'[n].high_water \in Nat
                        /\ log'[n].high_water >= log[n].high_water
                        /\ n # f => log'[n] = log[n]
  <2>1. \A n \in Nodes : log[n].high_water \in Nat
    BY <1>1 DEF Shape, WellFormed
  <2>2. LET r == RecordReplica(log[f], seq[w], w) IN
        r.high_water \in Nat /\ r.high_water >= log[f].high_water
    BY <1>7, RecordReplicaKeeps, Zenon
  <2> QED
    BY <1>7, <1>8, <2>1, <2>2
<1>11. NodeShape'
  BY <1>1, <1>2, <1>5, <1>6, <1>9 DEF NodeShape, Reconciling
<1>12. ReplicatedByOwner' /\ AckedOnFollower'
  <2>1. \A g \in Followers(Owner0) : g \in Nodes
    BY FollowersFacts
  <2>2. ReplicatedByOwner'
    BY <1>2 DEF KeepInv, ReplicatedByOwner, Owner0
  <2>3. AckedOnFollower'
    BY <1>2, <1>4, <2>1 DEF KeepInv, AckedOnFollower, Followers, Owner0
  <2> QED
    BY <2>2, <2>3
<1>13. ASSUME NEW n \in Nodes PROVE Promotable(n)'
  BY <1>2, Zenon DEF KeepInv, Promotable, Followers, Owner0
<1>14. ASSUME NEW n \in Nodes PROVE CatchUpOk(n)'
  <2>1. before[n] \subseteq Ops /\ \A v \in before[n] : seq'[v] = seq[v]
    BY <1>1, <1>2 DEF NodeShape
  <2>2. det[n] \in Dets /\ seq \in [Ops -> Nat] /\ CatchUpOk(n)
    BY <1>1, Zenon DEF NodeShape, Shape, KeepInv
  <2> QED
    BY <1>2, <1>4, <1>6, <1>9, <1>10, <2>1, <2>2, CatchUpRests
<1>15. ASSUME NEW v \in Ops, NEW g \in Nodes PROVE HandlerOk(v, g)'
  <2>0. HandlerOk(v, g) /\ seq'[v] = seq[v] /\ seq[v] \in Nat
    BY <1>1, <1>2, Zenon DEF KeepInv, Shape
  <2>1. CASE g # f
    <3>1. /\ h'[v][g] = h[v][g] /\ data'[g] = data[g] /\ log'[g] = log[g]
          /\ dropped'[g] = dropped[g]
      BY <1>1, <1>3, <1>6, <1>8, <1>10, <2>1 DEF NodeShape
    <3>2. Kept(v, g)' = Kept(v, g)
      BY <2>0, <3>1 DEF Kept
    <3> QED
      BY <2>0, <3>1, <3>2, Zenon DEF HandlerOk
  <2>2. CASE g = f /\ v # w
    <3>1. h'[v][f] = h[v][f]
      BY <1>3, <2>2
    <3>2. h[v][f] \in {"recorded", "applied"} => seq[v] <= log'[f].high_water
      <4>1. h[v][f] \in {"recorded", "applied"} => seq[v] <= log[f].high_water
        BY <2>0, <2>2 DEF HandlerOk
      <4>2. /\ log[f].high_water \in Nat /\ log'[f].high_water \in Nat
            /\ log'[f].high_water >= log[f].high_water
        BY <1>10
      <4> QED
        BY <2>0, <4>1, <4>2
    <3>3. v \notin dropped'[f] => v \notin dropped[f]
      BY <1>9
    <3>4. ASSUME Kept(v, f), seq[v] <= log[f].high_water PROVE Kept(v, f)'
      <4>1. CASE Record(w, f)
        <5> DEFINE r == RecordReplica(log[f], seq[w], w)
        <5>1. log'[f] = r
          BY <1>7, <1>8, <4>1
        <5>2. /\ \A x \in log[f].entries : x \in r.entries \/ \A y \in r.entries : x.seq < y.seq
              /\ \A k \in Nat : k <= log[f].high_water /\ (\A x \in log[f].entries : k < x.seq)
                                => \A y \in r.entries : k < y.seq
          BY <1>7, RecordReplicaKeeps, Zenon
        <5>3. \A x \in log[f].entries : x.op = v => x.seq = seq[v]
          BY DEF KeepInv, IInv, SeqsFromOwner
        <5> HIDE DEF r
        <5> QED
          BY <2>0, <3>4, <5>1, <5>2, <5>3 DEF Kept
      <4>2. CASE ~Record(w, f)
        BY <1>2, <1>8, <3>4, <4>2 DEF Kept
      <4> QED
        BY <4>1, <4>2
    <3> QED
      BY <1>6, <2>0, <2>2, <3>1, <3>2, <3>3, <3>4 DEF HandlerOk
  <2>3. CASE g = f /\ v = w
    <3>1. CASE Record(w, f)
      <4> DEFINE r == RecordReplica(log[f], seq[w], w)
      <4>1. log'[f] = r
        BY <1>7, <1>8, <3>1
      <4>2. /\ r.high_water >= seq[w]
            /\ seq[w] > log[f].high_water => \/ [seq |-> seq[w], op |-> w] \in r.entries
                                             \/ \A y \in r.entries : seq[w] < y.seq
        BY <1>7, RecordReplicaKeeps
      <4>3. seq[w] > log[f].high_water => Kept(w, f)'
        <5> HIDE DEF r
        <5>1. [seq |-> seq[w], op |-> w].op = w
          OBVIOUS
        <5> QED
          BY <1>2, <4>1, <4>2, <5>1 DEF Kept
      <4>4. ~(seq[w] > log[f].high_water) => w \in dropped'[f]
        BY <1>1, <1>8, <3>1 DEF NodeShape
      <4>5. seq[w] <= log'[f].high_water
        BY <1>7, <1>10, <4>1, <4>2, Zenon
      <4>6. h'[w][f] = "recorded"
        BY <1>1, <3>1 DEF Record, Shape
      <4> QED
        BY <1>2, <2>3, <4>3, <4>4, <4>5, <4>6 DEF HandlerOk
    <3>2. CASE ~Record(w, f)
      <4>1. log' = log /\ dropped' = dropped /\ h'[w][f] # "recorded"
            /\ (h'[w][f] = "applied" => h[w][f] = "recorded")
        BY <1>8, <3>2
      <4>2. Kept(w, f)' = Kept(w, f)
        BY <1>2, <4>1 DEF Kept
      <4> QED
        BY <1>2, <1>6, <2>0, <2>3, <4>1, <4>2 DEF HandlerOk
    <3> QED
      BY <3>1, <3>2
  <2> QED
    BY <2>1, <2>2, <2>3
<1> QED
  BY <1>1, <1>11, <1>12, <1>13, <1>14, <1>15 DEF KeepInv

\* A step of n's detector leaves the handlers and the other nodes alone.
LEMMA DetectorFrame ==
    ASSUME KeepInv, IInv', NEW n \in Nodes,
           UNCHANGED <<log, pc, at, seq, h, dropped>>,
           \A m \in Nodes \ {n} : /\ det'[m] = det[m] /\ before'[m] = before[m]
                                  /\ map'[m] = map[m],
           \A m \in Nodes : data[m].has \subseteq data'[m].has,
           NodeShape', Promotable(n)', CatchUpOk(n)'
    PROVE  KeepInv'
<1>1. Shape /\ NodeShape
  BY DEF KeepInv, IInv
<1>2. ReplicatedByOwner' /\ AckedOnFollower'
  BY Zenon DEF KeepInv, ReplicatedByOwner, AckedOnFollower, Followers, Owner0
<1>3. ASSUME NEW v \in Ops, NEW g \in Nodes PROVE HandlerOk(v, g)'
  BY DEF KeepInv, HandlerOk, Kept
<1>4. ASSUME NEW m \in Nodes, m # n PROVE Promotable(m)'
  BY <1>4, Zenon DEF KeepInv, Promotable, Followers, Owner0
<1>5. ASSUME NEW m \in Nodes, m # n PROVE CatchUpOk(m)'
  <2>1. /\ before[m] \subseteq Ops /\ det[m] \in Dets /\ seq \in [Ops -> Nat] /\ CatchUpOk(m)
        /\ log[m].high_water \in Nat
    <3>1. before[m] \subseteq Ops /\ det[m] \in Dets
      BY <1>1 DEF NodeShape
    <3>2. seq \in [Ops -> Nat] /\ WellFormed(log[m])
      BY <1>1 DEF Shape
    <3>3. log[m].high_water \in Nat
      BY <3>2 DEF WellFormed
    <3> QED
      BY <3>1, <3>2, <3>3 DEF KeepInv
  <2>2. log'[m].high_water \in Nat /\ log'[m].high_water >= log[m].high_water
    BY <2>1
  <2> QED
    BY <1>5, <2>1, <2>2, CatchUpRests
<1> QED
  BY <1>2, <1>3, <1>4, <1>5 DEF KeepInv

\* On a ring of three a promoted follower catches up from the only other one.
LEMMA FailoverKeepsKeepInv ==
    ASSUME Len(Ring) = 3, KeepInv, NEW n \in Nodes, FailoverShard(n)
    PROVE  KeepInv'
<1> DEFINE F == Followers(Owner0)
           reps == map[n].replicas
<1>1. IInv' /\ Shape /\ NodeShape /\ Promotable(n)
  BY DetectorKeepsIInv DEF KeepInv, IInv
<1>2. PICK i \in 1..Len(reps), s \in Nodes \cup {NoOp} :
        /\ det[n].pc = "idle" /\ map[n].epoch < MaxEpoch
        /\ map' = [map EXCEPT ![n] = [owner |-> reps[i], epoch |-> map[n].epoch + 1,
                                      replicas |-> Without(reps, i)]]
        /\ IF reps[i] = n THEN IsSource(s, n, map[n].owner, reps) ELSE s = NoOp
        /\ det' = [det EXCEPT ![n].pc = "promoted", ![n].source = s]
        /\ before' = [before EXCEPT ![n] = {w \in Ops : pc[w] = "ok"}]
        /\ UNCHANGED <<fence, log, data, blocked, pc, at, epoch, seq, h, dropped>>
  BY Zenon DEF FailoverShard, writeVars
<1>3. reps \in Seq(F)
  BY <1>1 DEF Promotable
<1>4. /\ det'[n] \in Dets /\ det'[n].pc = "promoted" /\ det'[n].source = s
      /\ \A m \in Nodes \ {n} : det'[m] = det[m]
      /\ DOMAIN det' = Nodes
  <2>1. det \in [Nodes -> Dets] /\ det' = [det EXCEPT ![n].pc = "promoted", ![n].source = s]
    BY <1>1, <1>2 DEF NodeShape
  <2>2. det'[n] = [det[n] EXCEPT !.pc = "promoted", !.source = s]
    BY <2>1
  <2>3. det[n] \in Dets
    BY <2>1
  <2>4. det'[n] \in Dets /\ det'[n].pc = "promoted" /\ det'[n].source = s
    BY <2>2, <2>3, Zenon DEF Dets
  <2> QED
    BY <2>1, <2>4
<1>5. NodeShape'
  <2>1. \A m \in Nodes : map'[m].epoch \in 1..MaxEpoch
    <3>1. /\ DOMAIN map = Nodes /\ map[n].epoch \in 1..MaxEpoch /\ map[n].epoch < MaxEpoch
          /\ \A m \in Nodes : map[m].epoch \in 1..MaxEpoch
      BY <1>1, <1>2 DEF NodeShape, Shape
    <3>2. map'[n].epoch = map[n].epoch + 1 /\ \A m \in Nodes \ {n} : map'[m] = map[m]
      BY <1>2, <3>1
    <3>3. map[n].epoch + 1 \in 1..MaxEpoch
      BY <3>1, MaxEpochAssumption
    <3> QED
      BY <3>1, <3>2, <3>3
  <2>2. det' \in [Nodes -> Dets] /\ before' \in [Nodes -> SUBSET Ops]
    BY <1>1, <1>2, <1>4 DEF NodeShape
  <2>3. \A m \in Nodes : blocked'[m] <=> Reconciling(m)' \/ det'[m].pc = "done"
    BY <1>1, <1>2, <1>4 DEF NodeShape, Reconciling
  <2> QED
    BY <1>1, <1>2, <2>1, <2>2, <2>3 DEF NodeShape
<1>6. Without(reps, i) \in Seq(F)
  <2>1. SubSeq(reps, 1, i - 1) \in Seq(F)
    BY <1>3
  <2>2. SubSeq(reps, i + 1, Len(reps)) \in Seq(F)
    BY <1>3
  <2> QED
    BY <2>1, <2>2 DEF Without
<1>7. s # NoOp => n \in F /\ s \in F \ {n}
  <2>1. \A j \in 1..Len(reps) : reps[j] \in F
    BY <1>3
  <2> HIDE DEF F, reps
  <2>2. ASSUME s # NoOp PROVE reps[i] = n /\ \E j \in 1..Len(reps) : s = reps[j] /\ s # n
    BY <1>2, <2>2 DEF IsSource, IsFirst
  <2> QED
    BY <2>1, <2>2
<1>8. map'[n].replicas = Without(reps, i)
  BY <1>1, <1>2 DEF Shape
<1>9. before'[n] = {w \in Ops : pc[w] = "ok"}
  BY <1>1, <1>2 DEF NodeShape
<1>10. Promotable(n)'
  <2>1. F' = F
    BY DEF Followers, Owner0
  <2> HIDE DEF F, reps
  <2>2. map'[n].replicas \in Seq(F) /\ (det'[n].source # NoOp => n \in F /\ det'[n].source \in F \ {n})
    BY <1>4, <1>6, <1>7, <1>8
  <2> QED
    BY <1>2, <1>9, <2>1, <2>2 DEF Promotable, F
<1>11. CatchUpOk(n)'
  <2> SUFFICES ASSUME NEW w \in Ops, s # NoOp, Missing(n, w)' PROVE h[w][s] = "applied"
    BY <1>2, <1>4 DEF CatchUpOk
  <2>1. pc[w] = "ok" /\ seq[w] > 0 /\ w \notin data[n].has
    BY <1>2, <1>9 DEF Missing
  <2>2. PICK f \in F : h[w][f] = "applied"
    BY <2>1 DEF KeepInv, AckedOnFollower
  <2>3. F = {Ring[2], Ring[3]}
    BY DEF Followers
  <2>4. f = n \/ f = s
    BY <1>7, <2>2, <2>3
  <2>5. h[w][n] # "applied"
    BY <2>1 DEF KeepInv, HandlerOk
  <2> QED
    BY <2>2, <2>4, <2>5
<1>12. \A m \in Nodes \ {n} : before'[m] = before[m] /\ map'[m] = map[m]
  BY <1>1, <1>2 DEF NodeShape, Shape
<1>13. \A m \in Nodes : data[m].has \subseteq data'[m].has
  BY <1>2
<1> QED
  BY <1>1, <1>2, <1>4, <1>5, <1>10, <1>11, <1>12, <1>13, DetectorFrame

\* A step of the catch-up gives n's detector the state d and moves nothing else
\* of the other nodes.
LEMMA CatchUpFrame ==
    ASSUME KeepInv, NEW n \in Nodes, CatchUp(n),
           NEW d \in Dets, det' = [det EXCEPT ![n] = d],
           d.source \in {det[n].source, NoOp},
           UNCHANGED <<map, log, pc, at, epoch, seq, h, dropped, before>>,
           data' \in [Nodes -> Data],
           \A m \in Nodes : data[m].has \subseteq data'[m].has,
           NEW b \in BOOLEAN, blocked' = [blocked EXCEPT ![n] = b],
           b <=> d.pc \in {"fetching", "replaying", "snapshotting", "installing", "done"},
           \A m \in Nodes : fence'[m] \in 1..MaxEpoch,
           CatchUpOk(n)'
    PROVE  KeepInv'
<1>1. IInv' /\ NodeShape /\ Promotable(n)
  BY DetectorKeepsIInv, Zenon DEF KeepInv
<1>2. /\ det' \in [Nodes -> Dets] /\ det'[n] = d /\ \A m \in Nodes \ {n} : det'[m] = det[m]
      /\ blocked' \in [Nodes -> BOOLEAN] /\ blocked'[n] = b
      /\ \A m \in Nodes \ {n} : blocked'[m] = blocked[m]
  BY <1>1 DEF NodeShape
<1>3. \A m \in Nodes : blocked'[m] <=> Reconciling(m)' \/ det'[m].pc = "done"
  BY <1>1, <1>2 DEF NodeShape, Reconciling
<1>4. NodeShape'
  BY <1>1, <1>2, <1>3, Zenon DEF NodeShape
<1>5. Promotable(n)'
  <2>1. Followers(Owner0)' = Followers(Owner0)
    BY DEF Followers, Owner0
  <2> QED
    BY <1>1, <1>2, <2>1, Zenon DEF Promotable
<1> QED
  BY <1>1, <1>2, <1>4, <1>5, DetectorFrame

\* The steps that end a catch-up or need none.
LEMMA RestKeepsKeepInv ==
    ASSUME KeepInv, NEW n \in Nodes, AbortCatchUp(n) \/ EndCatchUp(n)
    PROVE  KeepInv'
<1>1. NodeShape
  BY DEF KeepInv
<1>2. IdleDetector \in Dets /\ IdleDetector.source = NoOp /\ IdleDetector.pc = "idle"
  BY DEF IdleDetector, Dets, Data
<1>3. /\ det' = [det EXCEPT ![n] = IdleDetector] /\ blocked' = [blocked EXCEPT ![n] = FALSE]
      /\ UNCHANGED <<map, fence, log, data, pc, at, epoch, seq, h, dropped, before>>
      /\ CatchUp(n)
  BY DEF AbortCatchUp, EndCatchUp, writeVars, history, CatchUp
<1>4. CatchUpOk(n)'
  BY <1>1, <1>2, <1>3, Zenon DEF CatchUpOk, NodeShape
<1>5. data' \in [Nodes -> Data] /\ \A m \in Nodes : data[m].has \subseteq data'[m].has
  BY <1>1, <1>3, Zenon DEF NodeShape
<1>6. \A m \in Nodes : fence'[m] \in 1..MaxEpoch
  BY <1>1, <1>3 DEF NodeShape
<1> QED
  BY <1>2, <1>3, <1>4, <1>5, <1>6, CatchUpFrame, Zenon

LEMMA ObserveKeepsKeepInv ==
    ASSUME KeepInv, NEW n \in Nodes, ObserveMap(n)
    PROVE  KeepInv'
<1>1. NodeShape /\ CatchUpOk(n) /\ Shape
  BY DEF KeepInv, IInv
<1>2. PICK d : d = IF det[n].source = NoOp THEN IdleDetector ELSE [det[n] EXCEPT !.pc = "fenced"]
  BY Zenon
<1>3. /\ d \in Dets /\ d.source = det[n].source /\ d.pc \in {"idle", "fenced"}
      /\ d.pc = "fenced" => d.source # NoOp
  <2>1. det[n] \in Dets
    BY <1>1 DEF NodeShape
  <2> QED
    BY <1>2, <2>1 DEF IdleDetector, Dets, Data
<1>4. /\ det' = [det EXCEPT ![n] = d] /\ det[n].pc = "promoted"
      /\ UNCHANGED <<map, log, data, blocked, pc, at, epoch, seq, h, dropped, before>>
      /\ CatchUp(n)
  BY <1>2 DEF ObserveMap, writeVars, history, CatchUp
<1>5. ~blocked[n] /\ blocked' = [blocked EXCEPT ![n] = FALSE]
  BY <1>1, <1>4 DEF NodeShape, Reconciling
<1>6. \A m \in Nodes : fence'[m] \in 1..MaxEpoch
  BY <1>1 DEF ObserveMap, NodeShape, Shape
<1>7. data' \in [Nodes -> Data] /\ \A m \in Nodes : data[m].has \subseteq data'[m].has
  BY <1>1, <1>4 DEF NodeShape
<1>8. CatchUpOk(n)'
  <2>1. det'[n] = d
    BY <1>1, <1>4 DEF NodeShape
  <2>2. \A w \in Ops : Missing(n, w)' = Missing(n, w)
    BY <1>3, <1>4, <2>1 DEF Missing
  <2> QED
    BY <1>1, <1>3, <1>4, <2>1, <2>2 DEF CatchUpOk
<1> QED
  BY <1>3, <1>4, <1>5, <1>6, <1>7, <1>8, CatchUpFrame, Zenon

\* The mark is read, and the barrier goes up.
LEMMA BeginKeepsKeepInv ==
    ASSUME KeepInv, NEW n \in Nodes, BeginCatchUp(n)
    PROVE  KeepInv'
<1>1. NodeShape /\ CatchUpOk(n) /\ Shape
  BY DEF KeepInv, IInv
<1>2. PICK d : d = [det[n] EXCEPT !.pc = "fetching", !.from = log[n].high_water]
  OBVIOUS
<1>3. log[n].high_water \in Nat
  BY <1>1, Zenon DEF Shape, WellFormed
<1>4. d \in Dets /\ d.source = det[n].source /\ d.pc = "fetching" /\ d.from = log[n].high_water
  <2>1. det[n] \in Dets
    BY <1>1 DEF NodeShape
  <2> QED
    BY <1>2, <1>3, <2>1, Zenon DEF Dets
<1>5. /\ det' = [det EXCEPT ![n] = d] /\ det[n].pc = "fenced"
      /\ blocked' = [blocked EXCEPT ![n] = TRUE]
      /\ UNCHANGED <<map, fence, log, data, pc, at, epoch, seq, h, dropped, before>>
      /\ CatchUp(n)
  BY <1>1, <1>2, Zenon DEF BeginCatchUp, writeVars, history, CatchUp, NodeShape
<1>6. data' \in [Nodes -> Data] /\ \A m \in Nodes : data[m].has \subseteq data'[m].has
  BY <1>1, <1>5 DEF NodeShape
<1>7. \A m \in Nodes : fence'[m] \in 1..MaxEpoch
  BY <1>1, <1>5 DEF NodeShape
<1>8. CatchUpOk(n)'
  <2>1. det'[n] = d
    BY <1>1, <1>5, Zenon DEF NodeShape
  <2>2. \A w \in Ops : Missing(n, w)' = Missing(n, w)
    BY <1>4, <1>5, <2>1 DEF Missing
  <2>3. det[n].source # NoOp
    BY <1>1, <1>5 DEF CatchUpOk
  <2>4. \A w \in Ops : Missing(n, w) => h[w][det[n].source] = "applied"
    BY <1>1, <2>3 DEF CatchUpOk
  <2>5. d.from <= log'[n].high_water /\ h' = h
    BY <1>3, <1>4, <1>5
  <2> QED
    BY <1>4, <2>1, <2>2, <2>3, <2>4, <2>5 DEF CatchUpOk
<1> QED
  BY <1>4, <1>5, <1>6, <1>7, <1>8, CatchUpFrame, Zenon

\* What the source answers: nothing is missing, or every missing write is in the
\* delta, or the delta is too old.
LEMMA FetchDeltaKeepsKeepInv ==
    ASSUME KeepInv, NEW n \in Nodes, FetchDelta(n)
    PROVE  KeepInv'
<1> DEFINE src == log[det[n].source]
           from == det[n].from
<1>1. NodeShape /\ CatchUpOk(n) /\ Shape
  BY DEF KeepInv, IInv
<1>2. /\ det[n] \in Dets /\ det[n].pc = "fetching" /\ det[n].source \in Nodes
      /\ det[n].source # NoOp /\ WellFormed(src) /\ from \in Nat
      /\ from <= log[n].high_water /\ log[n].high_water \in Nat
  <2>1. det[n] \in Dets /\ det[n].pc = "fetching"
    BY <1>1 DEF NodeShape, FetchDelta
  <2>2. det[n].source \in Nodes /\ det[n].source # NoOp /\ from <= log[n].high_water
    BY <1>1, <2>1 DEF CatchUpOk, Dets
  <2>3. WellFormed(src) /\ log[n].high_water \in Nat
    BY <1>1, <2>2, Zenon DEF Shape, WellFormed
  <2> QED
    BY <2>1, <2>2, <2>3 DEF Dets
<1>3. /\ UNCHANGED <<map, fence, log, data, blocked, pc, at, epoch, seq, h, dropped, before>>
      /\ CatchUp(n)
  BY DEF FetchDelta, writeVars, history, CatchUp
<1>4. blocked[n] /\ blocked' = [blocked EXCEPT ![n] = TRUE]
  BY <1>1, <1>2, <1>3 DEF NodeShape, Reconciling
<1>5. data' \in [Nodes -> Data] /\ \A m \in Nodes : data[m].has \subseteq data'[m].has
  BY <1>1, <1>3 DEF NodeShape
<1>6. \A m \in Nodes : fence'[m] \in 1..MaxEpoch
  BY <1>1, <1>3 DEF NodeShape
\* A missing write is one the source's log has, or has evicted.
<1>7. ASSUME NEW w \in Ops, Missing(n, w)
      PROVE  /\ h[w][det[n].source] = "applied" /\ seq[w] \in Nat /\ seq[w] > from
             /\ seq[w] <= src.high_water
             /\ \/ \E e \in src.entries : e.op = w /\ e.seq = seq[w]
                \/ \A e \in src.entries : seq[w] < e.seq
  <2>1. h[w][det[n].source] = "applied" /\ w \notin dropped[det[n].source]
    BY <1>1, <1>2, <1>7 DEF CatchUpOk, Missing
  <2>2. HandlerOk(w, det[n].source)
    BY <1>2 DEF KeepInv
  <2>3. seq[w] <= src.high_water /\ Kept(w, det[n].source)
    BY <2>1, <2>2 DEF HandlerOk
  <2>4. seq[w] \in Nat /\ seq[w] > log[n].high_water
    BY <1>1, <1>7 DEF Shape, Missing
  <2>5. \A e \in src.entries : e.op = w => e.seq = seq[w]
    BY <1>2 DEF KeepInv, IInv, SeqsFromOwner
  <2>6. seq[w] > from
    BY <1>2, <2>4
  <2> QED
    BY <2>1, <2>3, <2>4, <2>5, <2>6 DEF Kept
<1>8. ASSUME NEW d \in Dets, det' = [det EXCEPT ![n] = d], d.source = det[n].source,
             d.pc \in {"done", "replaying", "snapshotting"},
             \A w \in Ops : Missing(n, w) =>
                 d.pc # "done" /\ (d.pc = "replaying" => \E e \in d.ops : e.op = w)
      PROVE  KeepInv'
  <2>1. det'[n] = d
    BY <1>1, <1>8, Zenon DEF NodeShape
  <2>2. \A w \in Ops : Missing(n, w)' = Missing(n, w)
    BY <1>3, <1>8, <2>1, Zenon DEF Missing
  <2>3. CatchUpOk(n)'
    BY <1>2, <1>3, <1>7, <1>8, <2>1, <2>2, Zenon DEF CatchUpOk
  <2> QED
    BY <1>3, <1>4, <1>5, <1>6, <1>8, <2>3, CatchUpFrame, Zenon
<1>9. CASE UpToDate(src, from) /\ det' = [det EXCEPT ![n].pc = "done"]
  <2>1. PICK d : d = [det[n] EXCEPT !.pc = "done"]
    BY Zenon
  <2>2. d \in Dets /\ d.source = det[n].source /\ d.pc = "done"
    BY <1>2, <2>1 DEF Dets
  <2>3. det' = [det EXCEPT ![n] = d]
    BY <1>1, <1>9, <2>1 DEF NodeShape
  <2>4. \A w \in Ops : ~Missing(n, w)
    BY <1>2, <1>7, <1>9 DEF UpToDate, WellFormed
  <2> QED
    BY <1>8, <2>2, <2>3, <2>4, Zenon
<1>10. CASE /\ Incremental(src, from)
            /\ det' = [det EXCEPT ![n].pc = "replaying", ![n].ops = Delta(src, from)]
  <2>1. PICK d : d = [det[n] EXCEPT !.pc = "replaying", !.ops = Delta(src, from)]
    OBVIOUS
  <2>2. Delta(src, from) \subseteq Entry
    BY <1>2, Zenon DEF Delta, WellFormed
  <2>3. d \in Dets /\ d.source = det[n].source /\ d.pc = "replaying" /\ d.ops = Delta(src, from)
    BY <1>2, <2>1, <2>2, Zenon DEF Dets
  <2>4. det' = [det EXCEPT ![n] = d]
    BY <1>1, <1>10, <2>1, Zenon DEF NodeShape
  <2>a. src.high_water \in Nat /\ \A e \in src.entries : e.seq \in Nat
    BY <1>2, Zenon DEF WellFormed, Entry
  <2>5. PICK e0 \in src.entries : e0.seq <= from + 1 /\ e0.seq \in Nat
    <3>1. src.high_water # 0 /\ ~(from >= src.high_water)
      BY <1>10 DEF Incremental, TooOld, UpToDate
    <3>2. from < src.high_water
      BY <1>2, <2>a, <3>1
    <3>3. PICK e \in src.entries : ~(from + 1 < e.seq)
      BY <1>10, <3>2 DEF Incremental, TooOld
    <3> QED
      BY <1>2, <2>a, <3>3
  <2>6. ASSUME NEW w \in Ops, Missing(n, w) PROVE \E e \in Delta(src, from) : e.op = w
    <3>0. seq[w] \in Nat /\ seq[w] > from
      BY <1>7, <2>6
    <3>1. ~(seq[w] < e0.seq)
      BY <1>2, <2>5, <3>0
    <3>2. \/ \E e \in src.entries : e.op = w /\ e.seq = seq[w]
          \/ \A e \in src.entries : seq[w] < e.seq
      BY <1>7, <2>6
    <3>3. PICK e \in src.entries : e.op = w /\ e.seq = seq[w]
      BY <2>5, <3>1, <3>2
    <3> QED
      BY <3>0, <3>3 DEF Delta
  <2> QED
    BY <1>8, <2>3, <2>4, <2>6, Zenon
<1>11. CASE TooOld(src, from) /\ det' = [det EXCEPT ![n].pc = "snapshotting"]
  <2>1. PICK d : d = [det[n] EXCEPT !.pc = "snapshotting"]
    BY Zenon
  <2>2. d \in Dets /\ d.source = det[n].source /\ d.pc = "snapshotting"
    BY <1>2, <2>1 DEF Dets
  <2>3. det' = [det EXCEPT ![n] = d]
    BY <1>1, <1>11, <2>1 DEF NodeShape
  <2> QED
    BY <1>8, <2>2, <2>3, Zenon
<1> QED
  BY <1>9, <1>10, <1>11 DEF FetchDelta

\* The snapshot has what the source has applied.
LEMMA FetchSnapshotKeepsKeepInv ==
    ASSUME KeepInv, NEW n \in Nodes, FetchSnapshot(n)
    PROVE  KeepInv'
<1>1. NodeShape /\ CatchUpOk(n)
  BY DEF KeepInv
<1>2. det[n] \in Dets /\ det[n].pc = "snapshotting" /\ det[n].source \in Nodes
      /\ det[n].source # NoOp
  BY <1>1 DEF NodeShape, FetchSnapshot, CatchUpOk, Dets
<1>3. PICK d : d = [det[n] EXCEPT !.pc = "installing", !.snap = data[det[n].source]]
  OBVIOUS
<1>4. /\ d \in Dets /\ d.source = det[n].source /\ d.pc = "installing"
      /\ d.snap = data[det[n].source]
  <2>1. data[det[n].source] \in Data
    BY <1>1, <1>2 DEF NodeShape
  <2> QED
    BY <1>2, <1>3, <2>1, Zenon DEF Dets
<1>5. /\ det' = [det EXCEPT ![n] = d] /\ CatchUp(n)
      /\ UNCHANGED <<map, fence, log, data, blocked, pc, at, epoch, seq, h, dropped, before>>
  BY <1>1, <1>3, Zenon DEF FetchSnapshot, writeVars, history, CatchUp, NodeShape
<1>6. blocked[n] /\ blocked' = [blocked EXCEPT ![n] = TRUE]
  BY <1>1, <1>2, <1>5, Zenon DEF NodeShape, Reconciling
<1>7. data' \in [Nodes -> Data] /\ \A m \in Nodes : data[m].has \subseteq data'[m].has
  BY <1>1, <1>5, Zenon DEF NodeShape
<1>8. \A m \in Nodes : fence'[m] \in 1..MaxEpoch
  BY <1>1, <1>5 DEF NodeShape
<1>9. CatchUpOk(n)'
  <2>1. det'[n] = d
    BY <1>1, <1>5, Zenon DEF NodeShape
  <2>2. \A w \in Ops : Missing(n, w)' = Missing(n, w)
    BY <1>4, <1>5, <2>1 DEF Missing
  <2>3. ASSUME NEW w \in Ops, Missing(n, w)
        PROVE  h[w][det[n].source] = "applied" /\ w \in d.snap.has
    <3>1. h[w][det[n].source] = "applied"
      BY <1>1, <1>2, <2>3 DEF CatchUpOk
    <3>2. HandlerOk(w, det[n].source)
      BY <1>2 DEF KeepInv
    <3> QED
      BY <1>4, <3>1, <3>2 DEF HandlerOk
  <2> QED
    BY <1>2, <1>4, <1>5, <2>1, <2>2, <2>3, Zenon DEF CatchUpOk
<1> QED
  BY <1>4, <1>5, <1>6, <1>7, <1>8, <1>9, CatchUpFrame, Zenon

LEMMA ReplayKeepsKeepInv ==
    ASSUME KeepInv, NEW n \in Nodes, ReplayOp(n)
    PROVE  KeepInv'
<1>1. NodeShape /\ CatchUpOk(n)
  BY DEF KeepInv
<1>2. det[n] \in Dets /\ det[n].pc = "replaying" /\ det[n].source # NoOp
      /\ det[n].ops \subseteq Entry
  BY <1>1 DEF NodeShape, ReplayOp, CatchUpOk, Dets
<1>3. PICK e \in det[n].ops :
        /\ data' = [data EXCEPT ![n] = ApplyTo(@, e.op)]
        /\ det' = [det EXCEPT ![n].ops = @ \ {e},
                     ![n].pc = IF det[n].ops = {e} THEN "done" ELSE @]
  BY Zenon DEF ReplayOp
<1>4. PICK d : d = [det[n] EXCEPT !.ops = det[n].ops \ {e},
                                  !.pc = IF det[n].ops = {e} THEN "done" ELSE "replaying"]
  BY Zenon
<1>5. /\ d \in Dets /\ d.source = det[n].source /\ d.ops = det[n].ops \ {e}
      /\ d.pc = IF det[n].ops = {e} THEN "done" ELSE "replaying"
  BY <1>2, <1>4, Zenon DEF Dets
<1>6. det' = [det EXCEPT ![n] = d] /\ det'[n] = d
  <2>1. det \in [Nodes -> Dets]
    BY <1>1 DEF NodeShape
  <2> QED
    BY <1>2, <1>3, <1>4, <2>1, Zenon
<1>7. /\ UNCHANGED <<map, fence, log, blocked, pc, at, epoch, seq, h, dropped, before>>
      /\ CatchUp(n)
  BY Zenon DEF ReplayOp, writeVars, history, CatchUp
<1>8. blocked[n] /\ blocked' = [blocked EXCEPT ![n] = TRUE]
  BY <1>1, <1>2, <1>7, Zenon DEF NodeShape, Reconciling
<1>9. /\ data' \in [Nodes -> Data] /\ \A m \in Nodes : data[m].has \subseteq data'[m].has
      /\ e.op \in data'[n].has
  <2>1. e.op \in Ops
    BY <1>2, Zenon DEF Entry
  <2> QED
    BY <1>1, <1>3, <2>1 DEF NodeShape, Data, ApplyTo
<1>10. \A m \in Nodes : fence'[m] \in 1..MaxEpoch
  BY <1>1, <1>7 DEF NodeShape
<1>11. CatchUpOk(n)'
  <2>1. ASSUME NEW w \in Ops, Missing(n, w)' PROVE Missing(n, w) /\ w # e.op
    BY <1>5, <1>6, <1>7, <1>9, <2>1 DEF Missing
  <2>2. ASSUME NEW w \in Ops, Missing(n, w)'
        PROVE  h[w][det[n].source] = "applied" /\ \E x \in d.ops : x.op = w
    BY <1>1, <1>2, <1>5, <2>1, <2>2, Zenon DEF CatchUpOk
  <2>3. ASSUME NEW w \in Ops, Missing(n, w)' PROVE d.pc = "replaying"
    BY <1>5, <2>2, <2>3
  <2>4. d.pc \in {"replaying", "done"}
    BY <1>5
  <2>5. det'[n] = d /\ d.source = det[n].source /\ d.source # NoOp /\ h' = h
    BY <1>2, <1>5, <1>6, <1>7
  <2> QED
    BY <2>2, <2>3, <2>4, <2>5 DEF CatchUpOk
<1>12. d.pc \in {"fetching", "replaying", "snapshotting", "installing", "done"}
  BY <1>5
<1> QED
  BY <1>5, <1>6, <1>7, <1>8, <1>9, <1>10, <1>11, <1>12, CatchUpFrame, Zenon

LEMMA InstallKeepsKeepInv ==
    ASSUME KeepInv, NEW n \in Nodes, InstallSnapshot(n)
    PROVE  KeepInv'
<1>1. NodeShape /\ CatchUpOk(n)
  BY DEF KeepInv
<1>2. det[n] \in Dets /\ det[n].pc = "installing" /\ det[n].source # NoOp
      /\ det[n].snap \in Data
  BY <1>1 DEF NodeShape, InstallSnapshot, CatchUpOk, Dets
<1>3. PICK d : d = [det[n] EXCEPT !.pc = "done"]
  BY Zenon
<1>4. d \in Dets /\ d.source = det[n].source /\ d.pc = "done"
  BY <1>2, <1>3 DEF Dets
<1>5. /\ det' = [det EXCEPT ![n] = d] /\ det'[n] = d /\ CatchUp(n)
      /\ UNCHANGED <<map, fence, log, blocked, pc, at, epoch, seq, h, dropped, before>>
  BY <1>1, <1>3 DEF InstallSnapshot, writeVars, history, CatchUp, NodeShape
<1>6. blocked[n] /\ blocked' = [blocked EXCEPT ![n] = TRUE]
  BY <1>1, <1>2, <1>5, Zenon DEF NodeShape, Reconciling
<1>7. /\ data' \in [Nodes -> Data] /\ \A m \in Nodes : data[m].has \subseteq data'[m].has
      /\ det[n].snap.has \subseteq data'[n].has
  <2>1. data \in [Nodes -> Data]
    BY <1>1, Zenon DEF NodeShape
  <2>2. PICK v : v = [value |-> IF det[n].snap.value = NoOp THEN data[n].value
                                ELSE det[n].snap.value,
                      has |-> data[n].has \cup det[n].snap.has]
    BY Zenon
  <2>3. v \in Data /\ v.has = data[n].has \cup det[n].snap.has
    BY <1>2, <2>1, <2>2 DEF Data
  <2>4. data' = [data EXCEPT ![n] = v]
    BY <2>1, <2>2 DEF InstallSnapshot
  <2> QED
    BY <2>1, <2>3, <2>4
<1>8. \A m \in Nodes : fence'[m] \in 1..MaxEpoch
  BY <1>1, <1>5 DEF NodeShape
<1>9. CatchUpOk(n)'
  <2>1. ASSUME NEW w \in Ops, Missing(n, w)' PROVE FALSE
    <3>1. Missing(n, w) /\ w \notin det[n].snap.has
      BY <1>4, <1>5, <1>7, <2>1 DEF Missing
    <3> QED
      BY <1>1, <1>2, <3>1 DEF CatchUpOk
  <2> QED
    BY <1>2, <1>4, <1>5, <2>1, Zenon DEF CatchUpOk
<1> QED
  BY <1>4, <1>5, <1>6, <1>7, <1>8, <1>9, CatchUpFrame, Zenon

LEMMA NextKeepInv ==
    ASSUME Len(Ring) = 3
    PROVE  KeepInv /\ [Next]_vars => KeepInv'
<1> SUFFICES ASSUME KeepInv, [Next]_vars PROVE KeepInv'
  OBVIOUS
<1>1. ASSUME NEW w \in Ops, Write(w) PROVE KeepInv'
  BY <1>1, WriteKeepsKeepInv
<1>2. ASSUME NEW w \in Ops, NEW f \in Nodes, Handle(w, f) PROVE KeepInv'
  BY <1>2, HandleKeepsKeepInv
<1>3. ASSUME NEW n \in Nodes, FailoverShard(n) PROVE KeepInv'
  BY <1>3, FailoverKeepsKeepInv
<1>4. ASSUME NEW n \in Nodes, CatchUp(n) PROVE KeepInv'
  BY <1>4, ObserveKeepsKeepInv, BeginKeepsKeepInv, FetchDeltaKeepsKeepInv,
     FetchSnapshotKeepsKeepInv, ReplayKeepsKeepInv, InstallKeepsKeepInv, RestKeepsKeepInv
     DEF CatchUp
<1>5. CASE UNCHANGED vars
  <2>1. UNCHANGED <<map, fence, log, data, blocked, det, pc, at, epoch, seq, h, doomed, before,
                    dropped>>
    BY <1>5 DEF vars, nodeVars, writeVars, history
  <2>2. IInv'
    BY NextIInv DEF KeepInv
  <2>3. NodeShape'
    BY <2>1, Zenon DEF KeepInv, NodeShape, Reconciling
  <2>4. ReplicatedByOwner' /\ AckedOnFollower'
    BY <2>1 DEF KeepInv, ReplicatedByOwner, AckedOnFollower, Followers, Owner0
  <2>5. \A w \in Ops, f \in Nodes : HandlerOk(w, f)'
    BY <2>1 DEF KeepInv, HandlerOk, Kept
  <2>6. \A n \in Nodes : Promotable(n)'
    BY <2>1, Zenon DEF KeepInv, Promotable, Followers, Owner0
  <2>7. \A n \in Nodes : CatchUpOk(n)'
    BY <2>1, Zenon DEF KeepInv, CatchUpOk, Missing
  <2> QED
    BY <2>2, <2>3, <2>4, <2>5, <2>6, <2>7 DEF KeepInv
<1> QED
  BY <1>1, <1>2, <1>3, <1>4, <1>5 DEF Next

\* With three replicas, any number of nodes, writes and failovers and any log
\* bound: a write that was replicated and acknowledged before a promotion is
\* missing after the new owner's catch-up (catch_up_incremental) only through a
\* hole below its own mark or in the log of the replica it asked.
THEOREM CatchUpLosesOnlyHoles ==
    ASSUME Len(Ring) = 3
    PROVE  Spec => []PromotionLosesOnlyHoles
<1>1. KeepInv => PromotionLosesOnlyHoles
  <2> SUFFICES ASSUME KeepInv PROVE PromotionLosesOnlyHoles
    OBVIOUS
  <2>1. Shape /\ NodeShape
    BY DEF KeepInv, IInv
  <2>2. map \in [Nodes -> [owner : Nodes, epoch : 1..MaxEpoch, replicas : Seq(Nodes)]]
    BY <2>1, Zenon DEF Shape, NodeShape
  <2>3. TypeOK
    BY <2>1, <2>2, Zenon DEF Shape, NodeShape, TypeOK
  <2>4. ASSUME NEW n \in Nodes, det[n].pc = "done", NEW w \in before[n], seq[w] > 0
        PROVE  \/ w \in data[n].has \/ seq[w] <= log[n].high_water
               \/ w \in dropped[det[n].source]
    <3>1. w \in Ops /\ seq[w] \in Nat /\ log[n].high_water \in Nat
      BY <2>1, Zenon DEF Shape, NodeShape, WellFormed
    <3>2. ~Missing(n, w)
      BY <2>4, <3>1, Zenon DEF KeepInv, CatchUpOk
    <3> QED
      BY <2>4, <3>1, <3>2 DEF Missing
  <2> QED
    BY <2>3, <2>4, Zenon DEF PromotionLosesOnlyHoles
<1>2. KeepInv /\ [Next]_vars => KeepInv'
  BY NextKeepInv
<1> QED
  BY <1>1, <1>2, InitKeepInv, PTL DEF Spec
=============================================================================
