--------------------------- MODULE ConsensusRace ---------------------------
(***************************************************************************)
(* Consensus with the leader's transaction tally at the granularity of the *)
(* code: receiveTran loads the list from commonTransMap, stores it back    *)
(* with its own entry, and loads it again to count.  The sync.Map makes    *)
(* each of these calls atomic, not the three together, and receiveTran     *)
(* runs in one goroutine per message.                                      *)
(***************************************************************************)
EXTENDS Consensus

VARIABLE tallying  \* goroutines of receiveTran past their first Load

raceVars == <<vars, tallying>>

Entered(g) == [key |-> g.key, tran |-> g.tran]

RaceInit == Init /\ tallying = {}

(* receiveTran, lines 51-56 or 51-84: the key and the list as they are now. *)
LoadTran(t) ==
    LET key == RoundKey(Leader)
    IN  /\ pendingTran' = pendingTran \ {t}
        /\ tallying' = tallying \cup
              {[tran |-> t, key |-> key, stored |-> FALSE,
                loaded |-> Filed(commonTransMap, key)]}
        /\ UNCHANGED <<stateVars, tmpBlock, tallyVars, pendingInfo, proposals,
                       voteVars, clock, starts>>

(* The list loaded before is stored with one entry more, over whatever was *)
(* stored in between.  A first entry is never counted.                     *)
StoreTran(g) ==
    /\ ~g.stored
    /\ commonTransMap' =
          (commonTransMap \ Filed(commonTransMap, g.key))
             \cup g.loaded \cup {Entered(g)}
    /\ tallying' = (tallying \ {g}) \cup
          (IF g.loaded = {} THEN {} ELSE {[g EXCEPT !.stored = TRUE]})
    /\ UNCHANGED <<stateVars, tmpBlock, round1Map, round2Map, pendingInfo,
                   pendingTran, proposals, voteVars, clock, starts>>

(* The list is loaded again: it may hold entries of goroutines that stored *)
(* in between, and then each of them finds it full.                        *)
CountTran(g) ==
    /\ g.stored
    /\ tallying' = tallying \ {g}
    /\ IF /\ Full(Filed(commonTransMap, g.key))
          /\ g.tran.prev = currBlock[Leader].hash
       THEN /\ clock' = clock + 1
            /\ proposals' = proposals \cup {Proposal(currBlock[Leader], clock + 1)}
       ELSE UNCHANGED <<clock, proposals>>
    /\ UNCHANGED <<stateVars, tmpBlock, tallyVars, pendingInfo, pendingTran,
                   voteVars, starts>>

RaceNext ==
    \/ (SendTxs \/ Handlers) /\ UNCHANGED tallying
    \/ \E t \in pendingTran : LoadTran(t)
    \/ \E g \in tallying : StoreTran(g) \/ CountTran(g)

RaceSpec == RaceInit /\ [][RaceNext]_raceVars
=============================================================================
