---------------------------- MODULE MCStreamIngest ----------------------------
(***************************************************************************)
(* Instances of StreamIngest.  Each plan is one kind of trouble.           *)
(***************************************************************************)
EXTENDS StreamIngest

MCShardOf(r) == r[2] % 2

\* Kafka, nothing goes wrong.
Quiet ==
    [kind |-> "kafka", ends |-> [p \in Partition |-> IF p = "p" THEN 2 ELSE 1],
     crashes |-> 0, stops |-> 0, polls |-> 0, commits |-> 0, batches |-> 0,
     nodes |-> 0, checkpoints |-> 0, saves |-> 0]

\* Three processes, the later ones numbering their epochs from one again.
Restarts == [Quiet EXCEPT !.crashes = 2, !.checkpoints = 3]
\* Every part of a checkpoint can fail, and a batch, and a commit.
Failures == [Quiet EXCEPT !.crashes = 1, !.checkpoints = 2, !.batches = 1, !.nodes = 1,
                          !.saves = 1, !.commits = 1, !.stops = 1]
\* Kinesis rounds that fail until the breaker opens.
Kinesis == [Quiet EXCEPT !.kind = "kinesis", !.ends = [p \in Partition |-> 2],
                         !.polls = 3, !.crashes = 1, !.commits = 1]

MCPlan == {Restarts, Failures, Kinesis}

EpochPlan == {[Restarts EXCEPT !.crashes = 1]}
===============================================================================
