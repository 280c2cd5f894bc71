-------------------------- MODULE MCActiveCluster ---------------------------
(* Model checking instances of ActiveCluster.                              *)
EXTENDS ActiveCluster

(* One to three ids for the peers, whichever they are: node ids of peers   *)
(* that send heartbeats, an id that no node has, the node's own id.        *)
AnyIds == [n \in Nodes |-> {ids \in SUBSET Ids : Cardinality(ids) \in 1..3}]

(* The node ids of the peers.                                              *)
PeerNodes == [n \in Nodes |-> {1, 3}]

(* Callers of initialize() may choose any role.                            *)
AnyRole == [n \in Nodes |-> {"PRIMARY", "SECONDARY", "WITNESS"}]
=============================================================================
