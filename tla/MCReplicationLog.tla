-------------------------- MODULE MCReplicationLog --------------------------
(* Two instances of ReplicationLog: an owner's log that outgrows its bound of *)
(* three entries, and a follower's log, whose puts may fail and which receives *)
(* the seqs 1 to 4 with gaps.  A behaviour is one of the owner's or one of    *)
(* the follower's.                                                           *)
EXTENDS ReplicationLog

CONSTANTS w1, w2, w3, w4, w5

VARIABLES role, flog, fdb, fpending, fissued, freturned, frestarts

followerVars == <<flog, fdb, fpending, fissued, freturned, frestarts>>

F == INSTANCE ReplicationLog WITH
       Ops <- {w1, w2}, OwnerOps <- {}, ReplicaSeqs <- 1..4, InFlight <- 2, PutMayFail <- TRUE,
       log <- flog, db <- fdb, pending <- fpending, issued <- fissued, returned <- freturned,
       restarts <- frestarts

FiveOps == {w1, w2, w3, w4, w5}
NoSeqs == {}

MCInit == Init /\ F!Init /\ role \in {"owner", "follower"}

MCNext ==
  /\ UNCHANGED role
  /\ \/ role = "owner" /\ Next /\ UNCHANGED followerVars
     \/ role = "follower" /\ F!Next /\ UNCHANGED vars

MCSpec == MCInit /\ [][MCNext]_<<vars, followerVars, role>>

(* Memory and store are sound on both sides: the logs are well formed      *)
(* (TypeOK), the owner's store rebuilds its log once every call has        *)
(* returned, and the follower's store, behind by the puts that failed,     *)
(* never has another op under a seq than its memory.                       *)
MemoryAndStoreSound ==
  /\ TypeOK /\ DurableMirrorsMemory
  /\ F!TypeOK /\ F!StoreAgreesWithMemory
=============================================================================
