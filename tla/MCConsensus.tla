---------------------------- MODULE MCConsensus ----------------------------
(* Small instances of Consensus for TLC: three replicas, a posting order   *)
(* in which the leader is neither first nor last, and the abstract ledger  *)
(* the chains must implement.                                              *)
EXTENDS ConsensusInvariant

CONSTANTS n1, n2, n3

MCReplica == {n1, n2, n3}
MCUrls == <<n2, n1, n3>>

MCReplica2 == {n1, n2}
MCUrls2 == <<n2, n1>>
=============================================================================
