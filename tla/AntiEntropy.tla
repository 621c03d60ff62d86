----------------------------- MODULE AntiEntropy -----------------------------
(***************************************************************************)
(* Anti-entropy between the replicas of one shard                          *)
(* (crates/nexora-zenoh/src/anti_entropy.rs), over the replication logs of *)
(* ShardLog: each node compares the digest of its log with its peers' and  *)
(* on a difference pulls the peer's delta, or its whole shard, inside the  *)
(* catch-up barrier (catch_up_barrier.rs, state_transfer.rs).              *)
(*                                                                         *)
(* One epoch: the owner writes, followers record and apply what reaches    *)
(* them.  All writes set the same property, so a node's graph is the last  *)
(* write it applied.  A step is what runs between two awaits.              *)
(***************************************************************************)
EXTENDS ShardLog, Sequences

LOCAL INSTANCE Functions

CONSTANTS
  Node,     \* the cluster
  Owner,    \* the shard's owner
  NoOp,     \* the property is not set
  Plan      \* workloads: [ring, writes, clients, losses, restarts, outages, repairers]

ASSUME OwnerAssumption == Owner \in Node

VARIABLES
  plan,      \* what is left of the workload
  log,       \* node -> its replication log
  value,     \* node -> its graph
  blocked,   \* node -> its catch-up barrier is up
  write,     \* write -> where the owner's write path is
  message,   \* follower -> the writes on their way to it, or being handled
  repair,    \* node -> its repair round
  restarted  \* history: a node lost its log

vars == <<plan, log, value, blocked, write, message, repair, restarted>>

Follower == Node \ {Owner}

Idle == [pc |-> "idle", peers |-> <<>>, digest |-> {}, from |-> 0, ops |-> {}, snap |-> NoOp,
         racing |-> FALSE]  \* history: a write was under way when the barrier went up

Init ==
  /\ plan \in Plan
  /\ log = [n \in Node |-> EmptyLog]
  /\ value = [n \in Node |-> NoOp]
  /\ blocked = [n \in Node |-> FALSE]
  /\ write = [w \in Ops |-> "new"]
  /\ message = [f \in Follower |-> {}]
  /\ repair = [n \in Node |-> Idle]
  /\ restarted = FALSE

-----------------------------------------------------------------------------
InProgress == {w \in Ops : write[w] \in {"checked", "applied"}}

(* The owner's write path: rejected while the shard is barriered, ...      *)
StartWrite(w) ==
  /\ plan.writes # <<>> /\ w = Head(plan.writes)
  /\ Cardinality(InProgress) < plan.clients
  /\ ~blocked[Owner]
  /\ plan' = [plan EXCEPT !.writes = Tail(@)]
  /\ write' = [write EXCEPT ![w] = "checked"]
  /\ UNCHANGED <<log, value, blocked, message, repair, restarted>>

ApplyLocally(w) ==
  /\ write[w] = "checked"
  /\ write' = [write EXCEPT ![w] = "applied"]
  /\ value' = [value EXCEPT ![Owner] = w]
  /\ UNCHANGED <<plan, log, blocked, message, repair, restarted>>

(* ... recorded in the owner's log, and sent to every follower.            *)
Replicate(w) ==
  /\ write[w] = "applied"
  /\ write' = [write EXCEPT ![w] = "sent"]
  /\ log' = [log EXCEPT ![Owner] = RecordOwner(@, w)]
  /\ message' = [f \in Follower |->
       IF f \in Range(plan.ring)
       THEN message[f] \cup {[seq |-> NextSeq(log[Owner]), op |-> w, recorded |-> FALSE]}
       ELSE {}]
  /\ UNCHANGED <<plan, value, blocked, repair, restarted>>

(* The follower's FencedWrite arm: record at the owner's seq, then apply.  *)
RecordWrite(f, m) ==
  /\ ~m.recorded
  /\ log' = [log EXCEPT ![f] = RecordReplica(@, m.seq, m.op)]
  /\ message' = [message EXCEPT ![f] = (@ \ {m}) \cup {[m EXCEPT !.recorded = TRUE]}]
  /\ UNCHANGED <<plan, value, blocked, write, repair, restarted>>

ApplyWrite(f, m) ==
  /\ m.recorded
  /\ value' = [value EXCEPT ![f] = m.op]
  /\ message' = [message EXCEPT ![f] = @ \ {m}]
  /\ UNCHANGED <<plan, log, blocked, write, repair, restarted>>

LoseMessage(f, m) ==
  /\ ~m.recorded
  /\ plan.losses > 0
  /\ plan' = [plan EXCEPT !.losses = @ - 1]
  /\ message' = [message EXCEPT ![f] = @ \ {m}]
  /\ UNCHANGED <<log, value, blocked, write, repair, restarted>>

(* A follower restarts: the in-memory log is gone, the graph is not.       *)
Restart(f) ==
  /\ plan.restarts > 0
  /\ plan' = [plan EXCEPT !.restarts = @ - 1]
  /\ log' = [log EXCEPT ![f] = EmptyLog]
  /\ blocked' = [blocked EXCEPT ![f] = FALSE]
  /\ message' = [message EXCEPT ![f] = {m \in @ : ~m.recorded}]
  /\ repair' = [repair EXCEPT ![f] = Idle]
  /\ restarted' = TRUE
  /\ UNCHANGED <<value, write>>

-----------------------------------------------------------------------------
(* compute_shard_digest: the entries since(shard, 0) serves are hashed;    *)
(* anything but an incremental answer is the zero digest.                  *)
Digest(l) == IF Incremental(l, 0) THEN Delta(l, 0) ELSE {}

(* The other holders, the owner first.                                     *)
Peers(n) == SelectSeq(plan.ring, LAMBDA p : p # n)

RepairStep(n, fields) == repair' = [repair EXCEPT ![n] = fields]

(* repair_round and the start of repair_one_shard: the local digest is     *)
(* taken once for all peers.                                               *)
BeginRound(n) ==
  /\ n \in plan.repairers
  /\ repair[n].pc = "idle"
  /\ RepairStep(n, [Idle EXCEPT !.pc = "compare", !.peers = Peers(n), !.digest = Digest(log[n])])
  /\ UNCHANGED <<plan, log, value, blocked, write, message, restarted>>

Peer(n) == Head(repair[n].peers)

NextPeer(n) == [repair[n] EXCEPT !.pc = "compare", !.peers = Tail(@)]

(* A repair that does not look at the digests.                             *)
CompareNothing(n) ==
  /\ repair[n].pc = "compare"
  /\ repair[n].peers # <<>>
  /\ RepairStep(n, NextPeer(n))
  /\ UNCHANGED <<plan, log, value, blocked, write, message, restarted>>

(* ExportDigest of the next peer: equal roots go on to the next one, a     *)
(* difference starts a pull.                                               *)
CompareDigest(n) ==
  /\ repair[n].pc = "compare"
  /\ repair[n].peers # <<>>
  /\ RepairStep(n, IF Digest(log[Peer(n)]) = repair[n].digest THEN NextPeer(n)
                   ELSE [repair[n] EXCEPT !.pc = "pull"])
  /\ UNCHANGED <<plan, log, value, blocked, write, message, restarted>>

EndRound(n) ==
  /\ repair[n].pc = "compare"
  /\ repair[n].peers = <<>>
  /\ RepairStep(n, Idle)
  /\ UNCHANGED <<plan, log, value, blocked, write, message, restarted>>

(* The pull starts from the high-water mark, ...                           *)
ReadFrom(n) ==
  /\ repair[n].pc = "pull"
  /\ RepairStep(n, [repair[n] EXCEPT !.pc = "guard", !.from = log[n].high_water])
  /\ UNCHANGED <<plan, log, value, blocked, write, message, restarted>>

(* ... which may have moved before the barrier goes up.                    *)
RaiseBarrier(n) ==
  /\ repair[n].pc = "guard"
  /\ blocked' = [blocked EXCEPT ![n] = TRUE]
  /\ RepairStep(n, [repair[n] EXCEPT !.pc = "fetch",
                      !.racing = InProgress # {} \/ log[n].high_water # repair[n].from])
  /\ UNCHANGED <<plan, log, value, write, message, restarted>>

(* A pull that asks for the whole log of the peer.                         *)
FetchDeltaFromStart(n) ==
  LET source == log[Peer(n)]
  IN  /\ repair[n].pc = "fetch"
      /\ RepairStep(n,
           IF UpToDate(source, 0) THEN [repair[n] EXCEPT !.pc = "reopen"]
           ELSE IF TooOld(source, 0) THEN [repair[n] EXCEPT !.pc = "export"]
           ELSE [repair[n] EXCEPT !.pc = "apply", !.ops = Delta(source, 0)])
      /\ UNCHANGED <<plan, log, value, blocked, write, message, restarted>>

(* ExportDelta at the peer.  UpToDate ends the pull, with nothing applied; *)
(* TooOld asks for the whole shard.                                        *)
FetchDelta(n) ==
  LET source == log[Peer(n)]
      from == repair[n].from
  IN  /\ repair[n].pc = "fetch"
      /\ RepairStep(n,
           IF UpToDate(source, from) THEN [repair[n] EXCEPT !.pc = "reopen"]
           ELSE IF TooOld(source, from) THEN [repair[n] EXCEPT !.pc = "export"]
           ELSE [repair[n] EXCEPT !.pc = "apply", !.ops = Delta(source, from)])
      /\ UNCHANGED <<plan, log, value, blocked, write, message, restarted>>

Oldest(entries) == CHOOSE e \in entries : \A x \in entries : e.seq <= x.seq

(* Every op of the delta is executed on this node ...                      *)
ApplyOp(n) ==
  /\ repair[n].pc = "apply"
  /\ value' = [value EXCEPT ![n] = Oldest(repair[n].ops).op]
  /\ RepairStep(n, [repair[n] EXCEPT !.pc = "record"])
  /\ UNCHANGED <<plan, log, blocked, write, message, restarted>>

(* A repair that re-sequences what it pulled.                              *)
RecordOpAsOwner(n) ==
  LET e == Oldest(repair[n].ops)
      rest == repair[n].ops \ {e}
  IN  /\ repair[n].pc = "record"
      /\ log' = [log EXCEPT ![n] = RecordOwner(@, e.op)]
      /\ RepairStep(n, [repair[n] EXCEPT !.ops = rest,
                                         !.pc = IF rest = {} THEN "reopen" ELSE "apply"])
      /\ UNCHANGED <<plan, value, blocked, write, message, restarted>>

(* ... and recorded at its original seq.                                   *)
RecordOp(n) ==
  LET e == Oldest(repair[n].ops)
      rest == repair[n].ops \ {e}
  IN  /\ repair[n].pc = "record"
      /\ log' = [log EXCEPT ![n] = RecordReplica(@, e.seq, e.op)]
      /\ RepairStep(n, [repair[n] EXCEPT !.ops = rest,
                                         !.pc = IF rest = {} THEN "reopen" ELSE "apply"])
      /\ UNCHANGED <<plan, value, blocked, write, message, restarted>>

(* catch_up_shard: fetch the peer's shard and apply what it holds; the log *)
(* is left as it is.                                                       *)
FetchShard(n) ==
  /\ repair[n].pc = "export"
  /\ RepairStep(n, [repair[n] EXCEPT !.pc = "import", !.snap = value[Peer(n)]])
  /\ UNCHANGED <<plan, log, value, blocked, write, message, restarted>>

ImportShard(n) ==
  /\ repair[n].pc = "import"
  /\ value' = [value EXCEPT ![n] = IF repair[n].snap = NoOp THEN @ ELSE repair[n].snap]
  /\ RepairStep(n, [repair[n] EXCEPT !.pc = "reopen"])
  /\ UNCHANGED <<plan, log, blocked, write, message, restarted>>

(* A repair that returns without reopening the shard.                      *)
ReopenNever(n) ==
  /\ repair[n].pc = "reopen"
  /\ RepairStep(n, Idle)
  /\ UNCHANGED <<plan, log, value, blocked, write, message, restarted>>

(* guard ends the barrier; a successful pull ends the shard's round.       *)
Reopen(n) ==
  /\ repair[n].pc = "reopen"
  /\ blocked' = [blocked EXCEPT ![n] = FALSE]
  /\ RepairStep(n, Idle)
  /\ UNCHANGED <<plan, log, value, write, message, restarted>>

(* The peer cannot be reached, or an op cannot be applied: the barrier     *)
(* ends and the next peer is tried.                                        *)
PeerFails(n) ==
  /\ plan.outages > 0
  /\ repair[n].pc \in {"compare", "fetch", "apply", "export", "import"}
  /\ repair[n].peers # <<>>
  /\ plan' = [plan EXCEPT !.outages = @ - 1]
  /\ blocked' = [blocked EXCEPT ![n] = FALSE]
  /\ RepairStep(n, NextPeer(n))
  /\ UNCHANGED <<log, value, write, message, restarted>>

Repair(n) ==
  \/ BeginRound(n) \/ CompareDigest(n) \/ EndRound(n) \/ ReadFrom(n) \/ RaiseBarrier(n) \/ FetchDelta(n)
  \/ ApplyOp(n) \/ RecordOp(n) \/ FetchShard(n) \/ ImportShard(n) \/ Reopen(n)

Handle(f) == \E m \in message[f] : RecordWrite(f, m) \/ ApplyWrite(f, m)

WriteStep(w) == ApplyLocally(w) \/ Replicate(w)

Next ==
  \/ \E w \in Ops : StartWrite(w) \/ WriteStep(w)
  \/ \E f \in Follower : Handle(f) \/ Restart(f) \/ \E m \in message[f] : LoseMessage(f, m)
  \/ \E n \in Node : Repair(n) \/ PeerFails(n)

Spec == Init /\ [][Next]_vars

(* The repair timer ticks, handlers and the write path run on; no message  *)
(* has to be lost and no peer has to fail.                                 *)
FairSpec ==
  /\ Spec
  /\ \A n \in Node : WF_vars(Repair(n))
  /\ \A f \in Follower : WF_vars(Handle(f))
  /\ \A w \in Ops : WF_vars(WriteStep(w))

-----------------------------------------------------------------------------
TypeOK ==
  /\ \A n \in Node : WellFormed(log[n])
  /\ value \in [Node -> Ops \cup {NoOp}]
  /\ blocked \in [Node -> BOOLEAN]
  /\ write \in [Ops -> {"new", "checked", "applied", "sent"}]
  /\ \A n \in Node : /\ repair[n].from \in Nat
                     /\ repair[n].pc \in {"idle", "compare", "pull", "guard", "fetch", "apply",
                                          "record", "export", "import", "reopen"}
                     /\ repair[n].pc \in {"apply", "record"} => repair[n].ops # {}

(* Whatever messages are lost and however pulls interleave with deliveries *)
(* and evictions, a repair never gives a seq to another op: two logs that  *)
(* hold a seq hold the same op there, and no log is ahead of the owner's   *)
(* (types included).                                                       *)
RepairKeepsSeqs ==
  /\ TypeOK
  /\ \A n, p \in Node : \A e \in log[n].entries :
       /\ e.seq <= log[Owner].high_water
       /\ \A d \in log[p].entries : d.seq = e.seq => d.op = e.op

OwnerRepaired == value'[Owner] # value[Owner] /\ ~\E w \in Ops : ApplyLocally(w)

(* As long as no node lost its log, a repair whose barrier went up with no *)
(* write under way at the owner finds no delta to pull there: the write    *)
(* the owner serves is not replaced by an older op.  (The shard of a peer  *)
(* with an empty log is taken as it is, however old.)                      *)
QuietDeltaLeavesOwnerAlone ==
  [][OwnerRepaired => \/ restarted
                      \/ repair[Owner].racing
                      \/ repair[Owner].pc = "import"]_vars

(* "Applies go through the shared catch-up barrier so a repair can't       *)
(* clobber a concurrent write": only a write changes what the owner        *)
(* serves, unless a node lost its log.                                     *)
RepairNeverClobbers == [][OwnerRepaired => restarted]_vars

Quiet ==
  /\ InProgress = {}
  /\ \A f \in Follower : message[f] = {}

GapFree(n) == \A s \in 1 .. log[n].high_water : s \in SeqsOf(log[n].entries)

(* A follower that lost the end of the log is healed: with the writes at   *)
(* rest and every log complete up to its high-water mark, repair rounds    *)
(* bring the logs of the nodes that run them to the owner's.  (A hole      *)
(* below the high-water mark is not healed, as a comment of                *)
(* pull_and_apply_delta says.)                                             *)
LostTailHealed ==
  (plan.writes = <<>> /\ Quiet /\ ~restarted /\ \A n \in Range(plan.ring) : GapFree(n))
    ~> (restarted \/ \A n \in plan.repairers : log[n] = log[Owner])
=============================================================================
