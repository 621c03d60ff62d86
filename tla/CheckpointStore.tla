---------------------------- MODULE CheckpointStore ----------------------------
(***************************************************************************)
(* The epoch barrier (nexora-barrier) and the file store of checkpoint     *)
(* manifests (nexora-stream), as operators. A barrier is the record        *)
(*                                                                         *)
(*   current    epoch the next barrier gets                                *)
(*   committed  last epoch every shard reported                            *)
(*                                                                         *)
(* and the store is a set of manifests, one file per epoch.                *)
(***************************************************************************)
EXTENDS Naturals, FiniteSets

(* BarrierScheduler::new: a process starts at epoch one. *)
NewBarrier == [current |-> 1, committed |-> 0]

(* create_barrier *)
CreateBarrier(b) == [b EXCEPT !.current = @ + 1]

(* report_shard for every shard in turn; the last report commits the epoch. *)
ReportShards(b, e) == [b EXCEPT !.committed = IF e > @ THEN e ELSE @]

(* cleanup_old_checkpoints(2): the two highest epochs stay. *)
KeepLatest(files) ==
    {f \in files : Cardinality({g \in files : g.epoch > f.epoch}) < 2}

(* save_manifest up to the rename: the file of the same epoch is replaced. *)
Renamed(files, m) == {f \in files : f.epoch # m.epoch} \cup {m}

SaveManifest(files, m) == KeepLatest(Renamed(files, m))

(* load_latest: the manifests of the highest epoch, at most one. *)
LoadLatest(files) == {f \in files : \A g \in files : g.epoch <= f.epoch}
===============================================================================
