------------------------- MODULE MCConsensusRestart -------------------------
(* Small instances of ConsensusRestart. *)
EXTENDS ConsensusRestart

CONSTANTS n1, n2, n3

MCReplica == {n1, n2, n3}
MCUrls == <<n2, n1, n3>>

MCReplica2 == {n1, n2}
MCUrls2 == <<n2, n1>>
=============================================================================
