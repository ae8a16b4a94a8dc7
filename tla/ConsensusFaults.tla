-------------------------- MODULE ConsensusFaults --------------------------
(***************************************************************************)
(* What the block round keeps when the leader's tally races with itself    *)
(* (ConsensusRace) and when replicas restart (ConsensusRestart).  That     *)
(* votes are counted once and stored blocks certified does not depend on   *)
(* the leader's tally nor on what a replica remembers: a block is          *)
(* generated once and broadcast once.  Agreement does, and survives the    *)
(* restarts if the test is started once.                                   *)
(***************************************************************************)
EXTENDS ConsensusCounting, ConsensusRace, ConsensusRestart

RaceType ==
    /\ TypeOK
    /\ tallying \subseteq [tran : Tran, key : Nat \X Nat, stored : BOOLEAN,
                           loaded : SUBSET [key : Nat \X Nat, tran : Tran]]

(* A step of the tally leaves the replicas and their votes alone. *)
LEMMA LoadTranStep ==
    ASSUME RaceType, NEW t \in pendingTran, LoadTran(t)
    PROVE  /\ RaceType'
           /\ UNCHANGED <<clock, proposals, voteVars, round1Map, round2Map, chain>>
<1> DEFINE loading == [tran |-> t, key |-> RoundKey(Leader), stored |-> FALSE,
                       loaded |-> Filed(commonTransMap, RoundKey(Leader))]
<1>1. /\ pendingTran' = pendingTran \ {t}
      /\ tallying' = tallying \cup {loading}
      /\ UNCHANGED <<stateVars, tmpBlock, tallyVars, pendingInfo, proposals,
                     voteVars, clock, starts>>
  BY DEF LoadTran
<1>2. t \in Tran /\ RoundKey(Leader) \in Nat \X Nat
  BY KeyTypes, ReplicaAssumption DEF RaceType, TypeOK
<1>3. Filed(commonTransMap, RoundKey(Leader)) \subseteq [key : Nat \X Nat, tran : Tran]
  BY DEF RaceType, TypeOK, Filed
<1>4. TypeOK'
  BY <1>1 DEF RaceType, TypeOK, stateVars, tallyVars, voteVars
<1>5. loading \in [tran : Tran, key : Nat \X Nat, stored : BOOLEAN,
                    loaded : SUBSET [key : Nat \X Nat, tran : Tran]]
  BY <1>2, <1>3
<1> HIDE DEF loading
<1>6. RaceType'
  BY <1>1, <1>4, <1>5 DEF RaceType
<1> QED
  BY <1>1, <1>6 DEF stateVars, tallyVars

LEMMA StoreTranStep ==
    ASSUME RaceType, NEW g \in tallying, StoreTran(g)
    PROVE  /\ RaceType'
           /\ UNCHANGED <<clock, proposals, voteVars, round1Map, round2Map, chain>>
<1>1. /\ UNCHANGED <<stateVars, tmpBlock, round1Map, round2Map, pendingInfo,
                     pendingTran, proposals, voteVars, clock, starts>>
      /\ tallying' \subseteq tallying \cup {[g EXCEPT !.stored = TRUE]}
  BY DEF StoreTran
<1>2. /\ g.tran \in Tran /\ g.key \in Nat \X Nat
      /\ g.loaded \subseteq [key : Nat \X Nat, tran : Tran]
      /\ [g EXCEPT !.stored = TRUE] \in
            [tran : Tran, key : Nat \X Nat, stored : BOOLEAN,
             loaded : SUBSET [key : Nat \X Nat, tran : Tran]]
  BY DEF RaceType
<1>3. commonTransMap' \subseteq [key : Nat \X Nat, tran : Tran]
  <2>1. Entered(g) \in [key : Nat \X Nat, tran : Tran]
    BY <1>2 DEF Entered
  <2> QED
    BY <1>2, <2>1 DEF StoreTran, RaceType, TypeOK
<1>4. TypeOK'
  BY <1>1, <1>3 DEF RaceType, TypeOK, stateVars, voteVars
<1> QED
  BY <1>1, <1>2, <1>4 DEF RaceType, stateVars

LEMMA CountTranStep ==
    ASSUME RaceType, NEW g \in tallying, CountTran(g)
    PROVE  /\ RaceType'
           /\ UNCHANGED <<voteVars, round1Map, round2Map, chain>>
           /\ \/ UNCHANGED <<clock, proposals>>
              \/ /\ clock' = clock + 1
                 /\ proposals' = proposals \cup
                                   {Proposal(currBlock[Leader], clock + 1)}
<1>1. /\ UNCHANGED <<stateVars, tmpBlock, tallyVars, pendingInfo, pendingTran,
                     voteVars, starts>>
      /\ tallying' \subseteq tallying
      /\ \/ UNCHANGED <<clock, proposals>>
         \/ /\ clock' = clock + 1
            /\ proposals' = proposals \cup {Proposal(currBlock[Leader], clock + 1)}
  BY DEF CountTran
<1>2. clock \in Nat /\ currBlock[Leader] \in Block
  BY ReplicaAssumption DEF RaceType, TypeOK
<1>3. Proposal(currBlock[Leader], clock + 1) \in [block : Block, next : 1..Len(Urls)]
  BY <1>2, BlockTypes, UrlType DEF Proposal
<1>4. clock' \in Nat /\ proposals' \subseteq [block : Block, next : 1..Len(Urls)]
  BY <1>1, <1>2, <1>3 DEF RaceType, TypeOK
<1>5. TypeOK'
  BY <1>1, <1>4 DEF RaceType, TypeOK, stateVars, tallyVars, voteVars
<1> QED
  BY <1>1, <1>5 DEF RaceType, stateVars, tallyVars

LEMMA NextRaceType == RaceType /\ [RaceNext]_raceVars => RaceType'
<1> SUFFICES ASSUME RaceType, [RaceNext]_raceVars PROVE RaceType'
  OBVIOUS
<1>1. ASSUME [Next]_vars, UNCHANGED tallying PROVE RaceType'
  BY <1>1, NextType DEF RaceType
<1> QED
  BY <1>1, LoadTranStep, StoreTranStep, CountTranStep
  DEF RaceNext, raceVars, Next, System

(* Every variable keeps its type however the goroutines of the tally       *)
(* interleave.                                                             *)
THEOREM RaceTypeCorrect == RaceSpec => []TypeOK
<1>1. RaceInit => RaceType
  BY InitType DEF RaceInit, RaceType
<1>2. RaceType /\ [RaceNext]_raceVars => RaceType'
  BY NextRaceType
<1>3. RaceType => TypeOK
  BY DEF RaceType
<1> QED
  BY <1>1, <1>2, <1>3, PTL DEF RaceSpec

LEMMA NextRaceCounts ==
    ASSUME RaceType, CInv, [RaceNext]_raceVars
    PROVE  CInv'
<1>1. TypeOK'
  BY NextRaceType DEF RaceType
<1>2. ASSUME UNCHANGED <<clock, proposals, voteVars, round1Map, round2Map>>
      PROVE  CInv'
  BY <1>1, <1>2, ShrinkCounts DEF voteVars
<1>3. ASSUME NEW g \in tallying, CountTran(g) PROVE CInv'
  BY <1>1, <1>2, <1>3, CountTranStep, NewBlockCounts DEF voteVars
<1>4. ASSUME [Next]_vars PROVE CInv'
  BY <1>4, NextCInv
<1> QED
  BY <1>2, <1>3, <1>4, LoadTranStep, StoreTranStep
  DEF RaceNext, raceVars, Next, System

(* Two blocks of one round are voted on apart: even where the leader's     *)
(* tally fires twice, no replica's vote on a block is counted twice.       *)
THEOREM RaceCountedOnce == RaceSpec => []CountedOnce
<1>1. RaceInit => RaceType /\ CInv
  BY InitType, InitCInv DEF RaceInit, RaceType
<1>2. RaceType /\ CInv /\ [RaceNext]_raceVars => RaceType' /\ CInv'
  BY NextRaceType, NextRaceCounts
<1>3. CInv => CountedOnce
  BY DEF CInv
<1> QED
  BY <1>1, <1>2, <1>3, PTL DEF RaceSpec

LEMMA NextRaceSeals ==
    ASSUME RaceType, SealInv, [RaceNext]_raceVars
    PROVE  SealInv'
<1>1. TypeOK'
  BY NextRaceType DEF RaceType
<1>2. ASSUME UNCHANGED <<voteVars, round2Map, chain>> PROVE SealInv'
  BY <1>1, <1>2, SealFrame DEF voteVars
<1>3. ASSUME [Next]_vars PROVE SealInv'
  BY <1>3, NextSealInv
<1> QED
  BY <1>2, <1>3, LoadTranStep, StoreTranStep, CountTranStep
  DEF RaceNext, raceVars, Next, System

(* Whichever of two blocks of a round is stored, and although it need not  *)
(* extend the chain then, it has its certificate.                          *)
THEOREM RaceStoredIsCertified == RaceSpec => []StoredIsCertified
<1>1. RaceInit => RaceType /\ SealInv
  BY InitType, InitSealInv DEF RaceInit, RaceType
<1>2. RaceType /\ SealInv /\ [RaceNext]_raceVars => RaceType' /\ SealInv'
  BY NextRaceType, NextRaceSeals
<1>3. SealInv => StoredIsCertified
  BY DEF SealInv
<1> QED
  BY <1>1, <1>2, <1>3, PTL DEF RaceSpec
-----------------------------------------------------------------------------
(* Restarts. *)

(* What a restart does to each variable. *)
LEMMA RestartEffect ==
    ASSUME TypeOK, NEW n \in Replica, Restart(n)
    PROVE  /\ TypeOK'
           /\ UNCHANGED <<clock, starts>>
           /\ \A m \in Replica \ {n} :
                 /\ currBlock'[m] = currBlock[m] /\ tmpBlock'[m] = tmpBlock[m]
                 /\ chain'[m] = chain[m] /\ times'[m] = times[m]
                 /\ transinblock'[m] = transinblock[m]
                 /\ round1Map'[m] = round1Map[m] /\ round2Map'[m] = round2Map[m]
           /\ currBlock'[n] = Genesis /\ tmpBlock'[n] = NoBlock
           /\ chain'[n] = <<Genesis>> /\ Len(chain'[n]) = 1
           /\ times'[n] = 0 /\ transinblock'[n] = TransInBlock
           /\ round1Map'[n] = {} /\ round2Map'[n] = {}
           /\ pendingInfo' \subseteq pendingInfo
           /\ pendingTran' \subseteq pendingTran
           /\ proposals' \subseteq proposals
           /\ verifying' \subseteq verifying /\ verified' \subseteq verified
           /\ pendingVote1' \subseteq pendingVote1
           /\ pendingVote2' \subseteq pendingVote2
           /\ storing' \subseteq storing
           /\ \A g \in pendingInfo' : g.at # n
           /\ \A g \in verifying' : g.at # n
           /\ \A g \in verified' : g.at # n
           /\ \A s \in storing' : s.at # n
           /\ n # Leader => UNCHANGED <<commonTransMap, pendingTran, proposals>>
           /\ n = Leader => commonTransMap' = {} /\ pendingTran' = {} /\ proposals' = {}
<1>1. /\ Reset(n)
      /\ UNCHANGED <<clock, starts>>
      /\ pendingInfo' = Surviving(n, pendingInfo)
      /\ verifying' = Surviving(n, verifying)
      /\ verified' = Surviving(n, verified)
      /\ pendingVote1' = Surviving(n, pendingVote1)
      /\ pendingVote2' = Surviving(n, pendingVote2)
      /\ storing' = Surviving(n, storing)
      /\ n # Leader => UNCHANGED <<commonTransMap, pendingTran, proposals>>
      /\ n = Leader => commonTransMap' = {} /\ pendingTran' = {} /\ proposals' = {}
  BY DEF Restart
<1>2. \A S : Surviving(n, S) \subseteq S /\ \A g \in Surviving(n, S) : g.at # n
  BY DEF Surviving
<1>3. /\ currBlock' \in [Replica -> Block] /\ tmpBlock' \in [Replica -> Block]
      /\ chain' \in [Replica -> Seq(Block)]
  BY <1>1, BlockTypes DEF Reset, TypeOK
<1>4. /\ times' \in [Replica -> Nat] /\ transinblock' \in [Replica -> Nat]
      /\ round1Map' \in [Replica -> SUBSET Entry]
      /\ round2Map' \in [Replica -> SUBSET Entry]
  BY <1>1, CounterAssumption DEF Reset, TypeOK
<1>5. TypeOK'
  BY <1>1, <1>2, <1>3, <1>4 DEF TypeOK
<1> QED
  BY <1>1, <1>2, <1>5 DEF Reset, TypeOK

LEMMA NextRestartType == TypeOK /\ [RestartNext]_restartVars => TypeOK'
<1> SUFFICES ASSUME TypeOK, [RestartNext]_restartVars PROVE TypeOK'
  OBVIOUS
<1>1. ASSUME NEW n \in Replica, Restart(n) PROVE TypeOK'
  BY <1>1, RestartEffect
<1> QED
  BY <1>1, NextType DEF RestartNext, restartVars

(* Every variable keeps its type across restarts. *)
THEOREM RestartTypeCorrect == RestartSpec => []TypeOK
<1>1. RestartInit => TypeOK
  BY InitType DEF RestartInit
<1>2. TypeOK /\ [RestartNext]_restartVars => TypeOK'
  BY NextRestartType
<1> QED
  BY <1>1, <1>2, PTL DEF RestartSpec

LEMMA NextRestartCounts == CInv /\ [RestartNext]_restartVars => CInv'
<1> SUFFICES ASSUME CInv, [RestartNext]_restartVars PROVE CInv'
  OBVIOUS
<1>1. ASSUME NEW n \in Replica, Restart(n) PROVE CInv'
  <2>1. TypeOK
    BY DEF CInv
  <2>2. \A m \in Replica : /\ round1Map'[m] \subseteq round1Map[m]
                           /\ round2Map'[m] \subseteq round2Map[m]
    BY <1>1, <2>1, RestartEffect
  <2> QED
    BY <1>1, <2>1, <2>2, RestartEffect, ShrinkCounts
<1> QED
  BY <1>1, NextCInv DEF RestartNext, restartVars

(* A replica that restarts may vote again, but not on a block it voted on  *)
(* before: no broadcast reaches it twice.  So no tally counts it twice,    *)
(* whether the tally is its own, new one or that of a replica that went on.*)
THEOREM RestartCountedOnce == RestartSpec => []CountedOnce
<1>1. RestartInit => CInv
  BY InitCInv DEF RestartInit
<1>2. CInv /\ [RestartNext]_restartVars => CInv'
  BY NextRestartCounts
<1>3. CInv => CountedOnce
  BY DEF CInv
<1> QED
  BY <1>1, <1>2, <1>3, PTL DEF RestartSpec

LEMMA NextRestartSeals == SealInv /\ [RestartNext]_restartVars => SealInv'
<1> SUFFICES ASSUME SealInv, [RestartNext]_restartVars PROVE SealInv'
  OBVIOUS
<1>1. ASSUME NEW n \in Replica, Restart(n) PROVE SealInv'
  <2>1. TypeOK /\ TypeOK'
    BY <1>1, RestartEffect DEF SealInv
  <2>2. \A m \in Replica \ {n} :
           /\ round2Map'[m] = round2Map[m] /\ chain'[m] = chain[m]
           /\ Certified(m)' = Certified(m)
    <3>1. \A m \in Replica \ {n} :
             round2Map'[m] = round2Map[m] /\ chain'[m] = chain[m]
      BY <1>1, <2>1, RestartEffect
    <3> QED
      BY <3>1 DEF Certified
  <2>3. round2Map'[n] = {} /\ Len(chain'[n]) = 1
    BY <1>1, <2>1, RestartEffect
  <2>4. \A m \in Replica : IsFiniteSet(round2Map'[m])
    BY <2>2, <2>3, FS_EmptySet DEF SealInv
  <2>5. \A s \in storing' : s \in storing /\ s.at \in Replica \ {n}
    <3>1. \A s \in storing' : s \in storing /\ s.at # n
      BY <1>1, <2>1, RestartEffect
    <3>2. \A s \in storing : s.at \in Replica
      BY <2>1 DEF TypeOK
    <3> QED
      BY <3>1, <3>2
  <2>6. \A s \in storing' : s.hash \in Certified(s.at)'
    BY <2>2, <2>5 DEF SealInv
  <2>7. StoredIsCertified'
    BY <2>2, <2>3 DEF SealInv, StoredIsCertified, Height
  <2> QED
    BY <2>1, <2>4, <2>6, <2>7 DEF SealInv
<1> QED
  BY <1>1, NextSealInv DEF RestartNext, restartVars

(* A replica that has lost its tallies has lost its chain with them: what  *)
(* it stores in its new life is certified in its new life.                 *)
THEOREM RestartStoredIsCertified == RestartSpec => []StoredIsCertified
<1>1. RestartInit => SealInv
  BY InitSealInv DEF RestartInit
<1>2. SealInv /\ [RestartNext]_restartVars => SealInv'
  BY NextRestartSeals
<1>3. SealInv => StoredIsCertified
  BY DEF SealInv
<1> QED
  BY <1>1, <1>2, <1>3, PTL DEF RestartSpec

(* The blocks known shrink, and a restarted replica is where it began. *)
LEMMA RestartBlocks ==
    ASSUME BInv, NEW n \in Replica, Restart(n)
    PROVE  BInv' /\ Made' \subseteq Made /\ InHand' \subseteq InHand
<1> USE RestartEffect DEF BInv
<1>1. \A g \in InHand' : g \in InHand /\ g.at # n /\ g.at \in Replica
  <2>1. /\ verifying' \subseteq verifying /\ verified' \subseteq verified
        /\ \A g \in verifying' \cup verified' : g.at # n
    OBVIOUS
  <2>2. \A g \in verifying \cup verified : g.at \in Replica
    BY DEF TypeOK
  <2> QED
    BY <2>1, <2>2 DEF InHand
<1>2. Stored(n)' \subseteq Made
  <2>1. Stored(n)' = {Genesis}
    BY DEF Stored
  <2>2. chain[n][1] = Genesis /\ 1 \in 1..Len(chain[n])
    BY ChainFacts DEF ChainShape
  <2> QED
    BY <2>1, <2>2, ChainFacts
<1>3. \A m \in Replica : Stored(m)' \subseteq Made
  <2>1. \A m \in Replica \ {n} : Stored(m)' = Stored(m)
    BY DEF Stored
  <2> QED
    BY <1>2, <2>1, MadeParts
<1>4. \A m \in Replica : tmpBlock'[m] = NoBlock \/ tmpBlock'[m] \in Made
  BY MadeParts
<1>5. Made' \subseteq Made
  <2>1. {p.block : p \in proposals'} \subseteq Made
    BY MadeParts
  <2>2. {g.block : g \in InHand'} \subseteq Made
    BY <1>1, MadeParts
  <2> QED
    BY <1>3, <1>4, <2>1, <2>2, MadeShrinks
<1>6. Linked' /\ PrevBound' /\ HashBound' /\ UniqueHash' /\ UniqueIndex'
  BY <1>5, BlocksFrame
<1>7. ChainShape'
  <2>1. ASSUME NEW m \in Replica \ {n}
        PROVE  /\ chain'[m] # <<>>
               /\ chain'[m][1] = Genesis
               /\ chain'[m][Len(chain'[m])] = currBlock'[m]
               /\ \A i \in 1..Len(chain'[m]) : chain'[m][i].index = i - 1
    BY DEF ChainShape
  <2>2. /\ chain'[n] # <<>>
        /\ chain'[n][1] = Genesis
        /\ chain'[n][Len(chain'[n])] = currBlock'[n]
        /\ \A i \in 1..Len(chain'[n]) : chain'[n][i].index = i - 1
    BY DEF Genesis
  <2> QED
    BY <2>1, <2>2 DEF ChainShape
<1>8. TmpNext' /\ InHandNext'
  BY <1>1 DEF TmpNext, InHandNext
<1>9. InHandOnce'
  BY DEF InHandOnce
<1>10. Undelivered' /\ OneBroadcast'
  <2>1. \A p \in proposals : p.block # NoBlock
    BY MadeParts DEF HashBound, NoBlock
  <2>2. \A m \in Replica : tmpBlock'[m] = tmpBlock[m] \/ tmpBlock'[m] = NoBlock
    OBVIOUS
  <2>3. proposals' \subseteq proposals /\ InHand' \subseteq InHand
    BY <1>1
  <2>4. \A p \in proposals : \A i \in p.next..Len(Urls) : Urls[i] \in Replica
    BY UrlType DEF TypeOK
  <2>5. Undelivered'
    BY <2>1, <2>2, <2>3, <2>4 DEF Undelivered
  <2>6. OneBroadcast'
    BY <2>3 DEF OneBroadcast
  <2> QED
    BY <2>5, <2>6
<1>11. HashSet'
  BY DEF HashSet
<1> QED
  BY <1>1, <1>5, <1>6, <1>7, <1>8, <1>9, <1>10, <1>11

(* A restart before the start changes nothing. *)
LEMMA RestartBeforeStart ==
    ASSUME Init, NEW n \in Replica, Restart(n)
    PROVE  UNCHANGED vars
<1>1. TypeOK
  BY InitType
<1>2. /\ UNCHANGED <<currBlock, tmpBlock, chain, times, transinblock>>
      /\ UNCHANGED <<round1Map, round2Map>>
  BY DEF Restart, Reset, Init, Fresh
<1>3. /\ UNCHANGED <<commonTransMap, pendingInfo, pendingTran, proposals>>
      /\ UNCHANGED <<verifying, verified, pendingVote1, pendingVote2, storing>>
      /\ UNCHANGED <<clock, starts>>
  BY <1>1, RestartEffect DEF Init, Fresh
<1> QED
  BY <1>2, <1>3 DEF vars, stateVars, tallyVars, voteVars

(* If the leader restarts it has lost its part in the round, and the block *)
(* on top of its new chain cannot come to it any more: nothing is stored   *)
(* until the operator starts the test again.                               *)
LEMMA RestartRounds ==
    ASSUME SInv, starts # 0, NEW n \in Replica, Restart(n),
           Made' \subseteq Made, InHand' \subseteq InHand
    PROVE  RoundInv'
<1>1. TypeOK
  BY DEF SInv, BInv
<1>2. starts' # 0 /\ NotStarted'
  BY <1>1, RestartEffect DEF NotStarted
<1>3. CASE n # Leader
  <2>1. /\ UNCHANGED <<commonTransMap, pendingTran, proposals>>
        /\ chain'[Leader] = chain[Leader] /\ times'[Leader] = times[Leader]
        /\ transinblock'[Leader] = transinblock[Leader]
        /\ tmpBlock'[Leader] = tmpBlock[Leader]
        /\ pendingInfo' \subseteq pendingInfo
    BY <1>1, <1>3, RestartEffect, ReplicaAssumption
  <2>2. /\ Filed(commonTransMap, RoundKey(Leader))' =
              Filed(commonTransMap, RoundKey(Leader))
        /\ Sent' = Sent /\ Current' = Current
    BY <2>1 DEF Sent, Filed, RoundKey, Current
  <2>3. Triggers' \subseteq Triggers /\ (Alive' => Alive)
    BY <1>2, <2>1, <2>2 DEF Triggers, Alive
  <2>4. Alive => Alive'
    <3>1. \A g \in pendingInfo : g.at = Leader => g \in pendingInfo'
      BY <1>3 DEF Restart, Surviving
    <3> QED
      BY <2>2, <3>1 DEF Alive
  <2>5. OneRound' /\ SentOnce' /\ PastKeys' /\ IsFiniteSet(commonTransMap)'
    BY <2>1, <2>2, <2>3 DEF SInv, RoundInv, OneRound, SentOnce, PastKeys
  <2>6. LeaderMakes'
    BY <2>1, <2>2, <2>3 DEF SInv, RoundInv, LeaderMakes, OnLeader, FiredOnce
  <2>7. LeaderStuck'
    BY <2>1, <2>4 DEF SInv, RoundInv, LeaderStuck
  <2> QED
    BY <1>2, <2>5, <2>6, <2>7 DEF RoundInv
<1>4. CASE n = Leader
  <2>1. /\ commonTransMap' = {} /\ pendingTran' = {} /\ proposals' = {}
        /\ chain'[Leader] = <<Genesis>> /\ tmpBlock'[Leader] = NoBlock
        /\ pendingInfo' \subseteq pendingInfo
        /\ \A g \in pendingInfo' : g.at # Leader
        /\ \A g \in verifying' : g.at # Leader
        /\ \A g \in verified' : g.at # Leader
    BY <1>1, <1>4, RestartEffect
  <2>2. Sent' = {} /\ Current' = {}
    BY <2>1 DEF Sent, Filed, Current
  <2>3. ~Alive'
    BY <1>2, <2>1, <2>2 DEF Alive
  <2>4. OneRound' /\ SentOnce' /\ PastKeys' /\ IsFiniteSet(commonTransMap)'
    BY <2>1, <2>2, FS_EmptySet
    DEF SInv, RoundInv, OneRound, SentOnce, PastKeys, Triggers
  <2>5. LeaderMakes' /\ LeaderStuck'
    BY <2>1, <2>3 DEF LeaderMakes, LeaderStuck, InHand, NoBlock
  <2> QED
    BY <1>2, <2>4, <2>5 DEF RoundInv
<1> QED
  BY <1>3, <1>4

LEMMA NextRestartRounds ==
    ASSUME MaxStarts <= 1, SInv, [RestartNext]_restartVars
    PROVE  SInv'
<1>1. ASSUME NEW n \in Replica, Restart(n) PROVE SInv'
  <2>1. BInv' /\ Made' \subseteq Made /\ InHand' \subseteq InHand
    BY <1>1, RestartBlocks DEF SInv
  <2>2. CASE starts = 0
    BY <1>1, <2>2, RestartBeforeStart, StutterRounds DEF SInv, RoundInv, NotStarted
  <2>3. CASE starts # 0
    BY <1>1, <2>1, <2>3, RestartRounds DEF SInv
  <2> QED
    BY <2>2, <2>3
<1> QED
  BY <1>1, NextSInv DEF RestartNext, restartVars

THEOREM RestartRoundsFollow ==
    ASSUME MaxStarts <= 1
    PROVE  RestartSpec => []SInv
<1>1. RestartInit => SInv
  BY InitSInv DEF RestartInit
<1>2. SInv /\ [RestartNext]_restartVars => SInv'
  BY NextRestartRounds
<1> QED
  BY <1>1, <1>2, PTL DEF RestartSpec

(* A replica that comes back has only Genesis, which all have, and what it *)
(* stores in its new life is the block it stored at that height before or  *)
(* nothing: the hashes that went out before the crash are not sent again.  *)
THEOREM RestartAgreement ==
    ASSUME MaxStarts <= 1
    PROVE  RestartSpec => []Agreement
<1>1. SInv => Agreement
  BY AgreementFollows DEF SInv
<1> QED
  BY <1>1, RestartRoundsFollow, PTL

(* No replica stores a block that does not extend its chain, although a    *)
(* restart moves it back to Genesis while blocks of greater index are on   *)
(* their way to it, and CheckAndStore would store them.                    *)
THEOREM RestartChainLinked ==
    ASSUME MaxStarts <= 1
    PROVE  RestartSpec => []ChainLinked
<1>1. SInv => ChainLinked
  BY ChainLinkedFollows DEF SInv
<1> QED
  BY <1>1, RestartRoundsFollow, PTL
=============================================================================
