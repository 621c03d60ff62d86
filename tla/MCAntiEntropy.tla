---------------------------- MODULE MCAntiEntropy ----------------------------
(* The two users of the catch-up barrier.  Repair rounds: lost tails and   *)
(* holes, restarts, unreachable peers, and a log window smaller than the   *)
(* writes.  Promotions: ShardReplication's failovers with one write, which *)
(* clients may send through any node.                                      *)
EXTENDS AntiEntropy

VARIABLES part, map, fence, log2, data, blocked2, det, pc, at, epoch, seq, h, doomed, before,
          dropped

promotionVars ==
  <<map, fence, log2, data, blocked2, det, pc, at, epoch, seq, h, doomed, before, dropped>>

P == INSTANCE ShardReplication WITH
       Nodes <- {"a", "b", "c"}, Ring <- <<"a", "b", "c">>, Ops <- {"w1"}, MaxEntries <- 4,
       MaxEpoch <- 3, Forwarding <- TRUE, ApplyMayFail <- TRUE, log <- log2, blocked <- blocked2

Writes == {"w1", "w2", "w3"}
Three == <<"a", "b", "c">>
Two == <<"a", "b">>

Workload(ring, writes, losses, restarts, outages, repairers) ==
  [ring |-> ring, writes |-> writes, clients |-> 2, losses |-> losses, restarts |-> restarts,
   outages |-> outages, repairers |-> repairers]

Losses == Workload(Three, <<"w1", "w2">>, 2, 0, 0, {"b"})
Outages == Workload(Three, <<"w1">>, 1, 0, 1, {"b", "c"})
Overflow == [Workload(Two, <<"w1", "w2", "w3">>, 1, 0, 0, {"b"}) EXCEPT !.clients = 1]
Restarts == Workload(Two, <<"w1", "w2">>, 1, 1, 0, {"a"})

MCPlan == {Losses, Outages, Overflow, Restarts}

MCInit ==
  /\ Init /\ P!Init
  /\ \/ part = "repair"
     \/ part = "promotion" /\ plan = CHOOSE p \in Plan : TRUE

MCNext ==
  /\ UNCHANGED part
  /\ \/ part = "repair" /\ Next /\ UNCHANGED promotionVars
     \/ part = "promotion" /\ P!Next /\ UNCHANGED vars

MCSpec ==
  /\ MCInit
  /\ [][MCNext]_<<vars, promotionVars, part>>
  /\ \A n \in Node : WF_vars(part = "repair" /\ Repair(n))
  /\ \A f \in Follower : WF_vars(part = "repair" /\ Handle(f))
  /\ \A w \in Ops : WF_vars(part = "repair" /\ WriteStep(w))
  /\ \A n \in Node : WF_promotionVars(part = "promotion" /\ P!CatchUp(n))

(* A raised catch-up barrier comes down again, whichever of the two raised *)
(* it and however its pull or its catch-up ends.                           *)
EveryBarrierReopens ==
  \A n \in Node : (blocked[n] \/ blocked2[n]) ~> ~(blocked[n] \/ blocked2[n])

ClobberPlan == {Workload(Two, <<"w1", "w2">>, 0, 0, 0, {"a"})}
=============================================================================
