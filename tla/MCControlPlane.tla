--------------------------- MODULE MCControlPlane ---------------------------
(* Instances of ControlPlane: three configured nodes and one that joins and  *)
(* sorts between them, so that its arrival moves the second shard.           *)
EXTENDS ControlPlane

CONSTANTS n1, n2, n3, joiner

RingOfFour == <<n1, joiner, n2, n3>>
ThreeVoters == {n1, n2, n3}
=============================================================================
