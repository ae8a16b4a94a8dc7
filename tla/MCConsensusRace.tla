-------------------------- MODULE MCConsensusRace --------------------------
(* Three replicas, the fewest for which one start lets two goroutines find *)
(* the same list full.  Only the schedules in which votes are handled at   *)
(* once, in a fixed order, are explored: what they reach, ConsensusRace    *)
(* reaches.                                                                *)
EXTENDS ConsensusRace

CONSTANTS n1, n2, n3

MCReplica == {n1, n2, n3}
MCUrls == <<n2, n1, n3>>

Votes == pendingVote1 \cup pendingVote2

HandleVote(v) ==
    IF v \in pendingVote1 THEN Vote1(v) ELSE Vote2(v)

PromptNext ==
    IF Votes # {} THEN HandleVote(CHOOSE v \in Votes : TRUE) /\ UNCHANGED tallying
                  ELSE RaceNext

PromptSpec == RaceInit /\ [][PromptNext]_raceVars
=============================================================================
