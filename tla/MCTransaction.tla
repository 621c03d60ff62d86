---------------------------- MODULE MCTransaction ----------------------------
(* Calls over two participants: c1 writes both shards, p1 twice; c2 writes one *)
(* shard under an id of its own; c3 has nothing to write and reuses c1's id.    *)
(* Apart from them, a participant that receives a prepare and a commit twice,   *)
(* and an abort.                                                                *)
EXTENDS Transaction, TxnParticipant, TLC

CONSTANTS c1, c2, c3, p1, p2, t1, t2, prep1, prep2, com1, com2, abt

MCCall == {c1, c2, c3}
MCParticipant == {p1, p2}
MCTxnId == {t1, t2}
MCIdOf == (c1 :> t1) @@ (c2 :> t2) @@ (c3 :> t1)
MCOrder == (c1 :> <<p1, p2>>) @@ (c2 :> <<p2>>) @@ (c3 :> <<p1>>)
MCNumOps ==
    (c1 :> (p1 :> 2 @@ p2 :> 1)) @@ (c2 :> (p1 :> 0 @@ p2 :> 1)) @@
    (c3 :> (p1 :> 0 @@ p2 :> 0))
MCRequest == {prep1, prep2, com1, com2, abt}
MCKind ==
    (prep1 :> "prepare") @@ (prep2 :> "prepare") @@ (com1 :> "commit") @@
    (com2 :> "commit") @@ (abt :> "abort")
MCTxn == [r \in MCRequest |-> t1]

\* The two sides do not talk to each other in the code: each behaviour is one of
\* the coordinator or one of the participant.
VARIABLE side

MCInit == Init /\ ParticipantInit /\ side \in {"coordinator", "participant"}

MCNext ==
    /\ UNCHANGED side
    /\ \/ side = "coordinator" /\ Next /\ UNCHANGED pvars
       \/ side = "participant" /\ ParticipantNext /\ UNCHANGED vars

MCSpec ==
    /\ MCInit
    /\ [][MCNext]_<<vars, pvars, side>>
    /\ \A c \in Call : WF_vars(Coordinator(c))
=============================================================================
