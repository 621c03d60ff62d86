--------------------------- MODULE MCQuorumWrite ---------------------------
(* Two overlapping calls with one request id at replication factor 3: both   *)
(* of quorum_write, or one of quorum_write and one of                        *)
(* quorum_write_two_phase.                                                   *)
EXTENDS QuorumWrite, TLC

CONSTANTS w1, w2, f1, f2, r1

TwoFollowers == {f1, f2}

RankTwo == f1 :> 1 @@ f2 :> 2

\* Two calls that carry the same request id.
Retry == w1 :> r1 @@ w2 :> r1

(* The calls are interchangeable, so of the mixed pairs one is enough; two *)
(* two-phase calls have no state in common but the seq counter.            *)
MCInit == Init /\ mode[w1] = "owner_first"

MCSpec == MCInit /\ [][Next]_vars /\ \A w \in Writes : WF_vars(Call(w))
=============================================================================
