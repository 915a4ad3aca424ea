--------------------------- MODULE MCClusterRead ----------------------------
(* Instances of ClusterRead for TLC. *)
EXTENDS ClusterRead

CONSTANTS pa, pb, r1, r2

MCPartition == {pa, pb}
MCReplica == {r1, r2}
MCOneReplica == {r1}
=============================================================================
