----------------------------- MODULE MCTxRound -----------------------------
(* A small instance of TxRound: two replicas and two sizes of one block    *)
(* each, after which the size exceeds MaxTransInBlock.  It is checked      *)
(* against the round without transactions it implements.                   *)
EXTENDS TxRoundInvariant

CONSTANTS n1, n2

MCReplica == {n1, n2}
MCUrls == <<n2, n1>>
=============================================================================
