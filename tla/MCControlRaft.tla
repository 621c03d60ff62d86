--------------------------- MODULE MCControlRaft ---------------------------
(***************************************************************************)
(* Instances of ControlRaft.  Each plan is one kind of trouble: its own    *)
(* commands and its own numbers of crashes, failed writes and snapshots.   *)
(***************************************************************************)
EXTENDS ControlRaft

MCInitialMap ==
    [version |-> 1, owner |-> "a", replicas |-> <<"b", "c">>, epoch |-> 1, writable |-> TRUE]

PutMap == [op |-> "put", ns |-> "map", value |-> MCInitialMap]
PutDomain(v) == [op |-> "put", ns |-> "domain", value |-> v]
DeleteDomain == [op |-> "delete", ns |-> "domain"]
Failover == [op |-> "failover", owner |-> "c"]
Auto == [op |-> "auto"]
ProposeMap ==
    [op |-> "propose", map |-> [MCInitialMap EXCEPT !.version = 2, !.owner = "b", !.epoch = 2]]
Blank == [op |-> "blank"]

\* No callers wait and nothing goes wrong, on one node.
Quiet ==
    [nodes |-> {"n1"}, leaders |-> {"n1"}, script |-> <<>>, awaited |-> {FALSE},
     crashes |-> 0, failures |-> 0, snapshots |-> 0]

Changes == {Failover, Auto, ProposeMap}

\* Concurrent callers whose answers come back in any order.
Callers == [Quiet EXCEPT !.script = <<{PutMap, Blank}, Changes, Changes, Changes>>,
                         !.awaited = BOOLEAN]
\* Crashes inside batches.
Crashes == [Quiet EXCEPT !.script = <<{PutMap, PutDomain("v")}, {Auto, PutDomain("w")},
                                      {Failover, DeleteDomain}>>,
                         !.crashes = 2]
\* Failed writes, up to the halt of the state machine.
Failures == [Quiet EXCEPT !.script = <<{PutMap, PutDomain("v")}, {Failover, DeleteDomain},
                                       {PutDomain("w")}>>,
                          !.failures = 2, !.crashes = 1, !.awaited = {TRUE}]
\* A snapshot that is taken while entries are applied, and installed.
Snapshots == [Quiet EXCEPT !.nodes = {"n1", "n2"},
                           !.script = <<{PutMap}, {PutDomain("v"), Failover},
                                        {DeleteDomain, Auto}>>,
                           !.snapshots = 1]
\* A crash, or a failed write, while a snapshot is installed.
Restores == [Snapshots EXCEPT !.script = <<{PutDomain("v")}, {DeleteDomain, PutMap}>>,
                              !.crashes = 1]
FailedRestores == [Restores EXCEPT !.script = <<{PutDomain("v")}>>, !.failures = 1]

MCPlan == {Callers, Crashes, Failures, Snapshots, Restores, FailedRestores}

CrashPlan == {[Snapshots EXCEPT !.script = <<{PutMap}, {Auto}>>, !.snapshots = 0, !.crashes = 1]}

=============================================================================
