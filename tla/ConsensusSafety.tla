-------------------------- MODULE ConsensusSafety --------------------------
(***************************************************************************)
(* Proofs about Consensus for every set of replicas, posting order, round  *)
(* length and block size: TypeOK, BInv and LInv are inductive, and imply   *)
(* Agreement, ChainLinked and that no block is overwritten unstored; then  *)
(* HInv, and that Consensus implements Ledger.                             *)
(***************************************************************************)
EXTENDS ConsensusInvariant, FiniteSetTheorems, TLAPS

(* A broadcast reaches replicas only. *)
LEMMA ReachType == \A to \in Reach : to \subseteq Replica
BY UrlsAssumption DEF Reach

(* The posting order is a list of replicas, and not empty. *)
LEMMA UrlType ==
    /\ Len(Urls) \in Nat
    /\ Len(Urls) >= 1
    /\ \A i \in 1..Len(Urls) : Urls[i] \in Replica
BY UrlsAssumption, ReplicaAssumption DEF Nodes

LEMMA NodesType == Nodes \in Nat
BY ReplicaAssumption, FS_CardinalityType DEF Nodes

(* As many messages as there are replicas, no two of one replica, are one  *)
(* of each.                                                                *)
LEMMA AllReplicas ==
    ASSUME NEW S, IsFiniteSet(S), NEW sender \in [S -> Replica],
           \A d, e \in S : sender[d] = sender[e] => d = e,
           Cardinality(S) >= Nodes
    PROVE  /\ Cardinality(S) = Nodes
           /\ \A n \in Replica : \E e \in S : sender[e] = n
<1>1. sender \in Injection(S, Replica)
  BY DEF Injection, IsInjective
<1>2. Cardinality(S) <= Nodes
  BY <1>1, FS_Injection, ReplicaAssumption DEF Nodes
<1>3. Cardinality(S) = Nodes
  BY <1>2, NodesType, FS_CardinalityType
<1>4. sender \in Surjection(S, Replica)
  BY <1>1, <1>3, FS_Injection, ReplicaAssumption DEF Nodes
<1> QED
  BY <1>3, <1>4 DEF Surjection

LEMMA BlockTypes ==
    /\ NoBlock \in Block
    /\ Genesis \in Block
    /\ \A old \in Block, hash \in Nat : GenerateBlock(old, hash) \in Block
BY DEF NoBlock, Genesis, GenerateBlock, Block

LEMMA KeyTypes ==
    ASSUME TypeOK, NEW n \in Replica
    PROVE  /\ RoundKey(n) \in Nat \X Nat
           /\ \A hash \in Nat : VoteKey(n, hash) \in Key
BY DEF TypeOK, RoundKey, VoteKey, Key

LEMMA InitType == Init => TypeOK
<1> SUFFICES ASSUME Init PROVE TypeOK
  OBVIOUS
<1> QED
  BY BlockTypes, CounterAssumption, ReplicaAssumption
  DEF Init, Fresh, TypeOK, Genesis

LEMMA NextType == TypeOK /\ [Next]_vars => TypeOK'
<1> SUFFICES ASSUME TypeOK, [Next]_vars PROVE TypeOK'
  OBVIOUS
<1>1. CASE SendTxs
  BY <1>1, ReachType, CounterAssumption
  DEF SendTxs, TypeOK, Testinfo, Trigger, stateVars, tallyVars, voteVars
<1>2. ASSUME NEW g \in pendingInfo, SendTransV2(g) PROVE TypeOK'
  <2>1. g.at \in Replica /\ g.trigger \in Trigger
    BY DEF TypeOK
  <2>2. currBlock[g.at].hash \in Nat
    BY <2>1 DEF TypeOK, Block
  <2>3. pendingTran' \subseteq Tran
    BY <1>2, <2>1, <2>2 DEF SendTransV2, TypeOK, Tran
  <2> QED
    BY <1>2, <2>3
    DEF SendTransV2, TypeOK, stateVars, tallyVars, voteVars
<1>3. ASSUME NEW p \in proposals, RecBlock(p) PROVE TypeOK'
  <2>1. p.block \in Block /\ p.next \in 1..Len(Urls)
    BY DEF TypeOK
  <2>2. verifying' \subseteq [at : Replica, block : Block]
    BY <1>3, <2>1, UrlType DEF RecBlock, TypeOK
  <2>3. Rest(p) \subseteq [block : Block, next : 1..Len(Urls)]
    <3>1. p \in [block : Block, next : 1..Len(Urls)]
      BY DEF TypeOK
    <3>2. p.next < Len(Urls) => p.next + 1 \in 1..Len(Urls)
      BY <2>1, UrlType
    <3> QED
      BY <3>1, <3>2 DEF Rest
  <2> QED
    BY <1>3, <2>2, <2>3 DEF RecBlock, TypeOK, stateVars, tallyVars
<1>4. ASSUME NEW p \in proposals, LoseBlock(p) PROVE TypeOK'
  BY <1>4 DEF LoseBlock, TypeOK, stateVars, tallyVars, voteVars
<1>5. ASSUME NEW g \in verifying, Verify(g) PROVE TypeOK'
  <2>1. g.at \in Replica /\ g.block \in Block
    BY DEF TypeOK
  <2>2. Extends(g.at, g.block) \in BOOLEAN
    BY DEF Extends
  <2>3. verified' \subseteq [at : Replica, block : Block, vote : BOOLEAN]
    BY <1>5, <2>1, <2>2 DEF Verify, TypeOK
  <2> QED
    BY <1>5, <2>3 DEF Verify, TypeOK, stateVars, tallyVars
<1>6. ASSUME NEW g \in verified, SetTmpB(g) PROVE TypeOK'
  <2>1. g.at \in Replica /\ g.block \in Block /\ g.vote \in BOOLEAN
    BY DEF TypeOK
  <2>2. g.block.hash \in Nat
    BY <2>1 DEF Block
  <2>3. pendingVote1' \subseteq Vote
    BY <1>6, <2>1, <2>2, ReachType DEF SetTmpB, TypeOK, Vote
  <2>4. tmpBlock' \in [Replica -> Block]
    BY <1>6, <2>1 DEF SetTmpB, TypeOK
  <2> QED
    BY <1>6, <2>3, <2>4 DEF SetTmpB, TypeOK, stateVars, tallyVars
<1>7. ASSUME NEW v \in pendingVote1, Vote1(v) PROVE TypeOK'
  <2> DEFINE entry == [key |-> VoteKey(v.at, v.hash), from |-> v.from,
                       vote |-> v.vote]
  <2>1. /\ v.at \in Replica /\ v.from \in Replica
        /\ v.hash \in Nat /\ v.vote \in BOOLEAN
    BY DEF TypeOK, Vote
  <2>2. entry \in Entry
    BY <2>1, KeyTypes DEF Entry
  <2>3. round1Map' = [round1Map EXCEPT ![v.at] = @ \cup {entry}]
    BY <1>7 DEF Vote1
  <2>4. round1Map' \in [Replica -> SUBSET Entry]
    BY <2>1, <2>2, <2>3 DEF TypeOK
  <2>5. \A count : Enough(count) \in BOOLEAN
    BY DEF Enough
  <2>6. pendingVote2' \subseteq Vote
    <3> DEFINE votes == Filed(round1Map[v.at], VoteKey(v.at, v.hash))
                          \cup {entry}
               re == Enough(Cardinality({e \in votes : e.vote}))
    <3>1. CASE Full(votes)
      <4>1. PICK to \in Reach : pendingVote2' = pendingVote2 \cup
               {[at |-> n, from |-> v.at, hash |-> v.hash, vote |-> re]
                  : n \in to}
        BY <1>7, <3>1 DEF Vote1
      <4>2. re \in BOOLEAN
        BY <2>5
      <4> QED
        BY <2>1, <4>1, <4>2, ReachType DEF TypeOK, Vote
    <3>2. CASE ~Full(votes)
      BY <1>7, <3>2 DEF Vote1, TypeOK
    <3> QED
      BY <3>1, <3>2
  <2> QED
    BY <1>7, <2>4, <2>6 DEF Vote1, TypeOK, stateVars
<1>8. ASSUME NEW v \in pendingVote2, Vote2(v) PROVE TypeOK'
  <2> DEFINE entry == [key |-> VoteKey(v.at, v.hash), from |-> v.from,
                       vote |-> v.vote]
  <2>1. /\ v.at \in Replica /\ v.from \in Replica
        /\ v.hash \in Nat /\ v.vote \in BOOLEAN
    BY DEF TypeOK, Vote
  <2>2. entry \in Entry
    BY <2>1, KeyTypes DEF Entry
  <2>3. round2Map' = [round2Map EXCEPT ![v.at] = @ \cup {entry}]
    BY <1>8 DEF Vote2
  <2>4. round2Map' \in [Replica -> SUBSET Entry]
    BY <2>1, <2>2, <2>3 DEF TypeOK
  <2>5. storing' \subseteq [at : Replica, hash : Nat]
    BY <1>8, <2>1 DEF Vote2, TypeOK
  <2> QED
    BY <1>8, <2>4, <2>5 DEF Vote2, TypeOK, stateVars
<1>9. ASSUME NEW s \in storing, StoreBlock(s) PROVE TypeOK'
  <2>1. s.at \in Replica
    BY DEF TypeOK
  <2>2. CASE Open(s.at, s.hash)
    <3>1. Store(s.at)
      BY <1>9, <2>2 DEF StoreBlock
    <3>2. chain' \in [Replica -> Seq(Block)]
      BY <2>1, <3>1 DEF Store, TypeOK
    <3>3. currBlock' \in [Replica -> Block]
      BY <2>1, <3>1 DEF Store, TypeOK
    <3>4. NextTimes(s.at) \in Nat /\ NextSize(s.at) \in Nat
      BY <2>1, CounterAssumption DEF NextTimes, NextSize, TypeOK
    <3>5. times' \in [Replica -> Nat] /\ transinblock' \in [Replica -> Nat]
      BY <2>1, <3>1, <3>4 DEF Store, TypeOK
    <3>6. tmpBlock[s.at].hash \in Nat
      BY <2>1 DEF TypeOK, Block
    <3>7. pendingInfo' \subseteq [at : Replica, trigger : Trigger]
      BY <3>1, <3>6, ReachType DEF Store, Testinfo, Trigger, TypeOK
    <3> QED
      BY <1>9, <3>2, <3>3, <3>5, <3>7 DEF StoreBlock, TypeOK, tallyVars
  <2>3. CASE ~Open(s.at, s.hash)
    BY <1>9, <2>3 DEF StoreBlock, TypeOK, stateVars, tallyVars
  <2> QED
    BY <2>2, <2>3
<1>10. ASSUME NEW t \in pendingTran, ReceiveTran(t) PROVE TypeOK'
  <2>1. RoundKey(Leader) \in Nat \X Nat
    BY KeyTypes, ReplicaAssumption
  <2>2. commonTransMap' \subseteq [key : Nat \X Nat, tran : Tran]
    BY <1>10, <2>1 DEF ReceiveTran, Filed, TypeOK
  <2>3. currBlock[Leader] \in Block /\ clock + 1 \in Nat
    BY ReplicaAssumption DEF TypeOK
  <2>4. GenerateBlock(currBlock[Leader], clock + 1) \in Block
    BY <2>3, BlockTypes
  <2>5. 1 \in 1..Len(Urls)
    BY UrlType
  <2>6. proposals' \subseteq [block : Block, next : 1..Len(Urls)]
    BY <1>10, <2>4, <2>5 DEF ReceiveTran, Proposal, TypeOK
  <2>7. clock' \in Nat
    BY <1>10, <2>3 DEF ReceiveTran, TypeOK
  <2> QED
    BY <1>10, <2>2, <2>6, <2>7
    DEF ReceiveTran, TypeOK, stateVars, voteVars
<1>11. CASE UNCHANGED vars
  BY <1>11 DEF vars, TypeOK, stateVars, tallyVars, voteVars
<1> QED
  BY <1>1, <1>2, <1>3, <1>4, <1>5, <1>6, <1>7, <1>8, <1>9, <1>10, <1>11
  DEF Next, System, Handlers

(* Every variable keeps its type in every behaviour. *)
THEOREM TypeCorrect == Spec => []TypeOK
<1>1. Init => TypeOK  BY InitType
<1>2. TypeOK /\ [Next]_vars => TypeOK'  BY NextType
<1> QED  BY <1>1, <1>2, PTL DEF Spec
----------------------------------------------------------------------------
(* The known blocks: what a step that leaves the variables of a conjunct   *)
(* alone, or only forgets blocks, does to BInv and LInv: nothing.          *)
LEMMA ChainShapeFrame ==
    ASSUME ChainShape, UNCHANGED <<chain, currBlock>>
    PROVE  ChainShape'
BY DEF ChainShape

LEMMA BlocksFrame ==
    ASSUME BInv, Made' \subseteq Made, clock' = clock
    PROVE  Linked' /\ PrevBound' /\ HashBound' /\ UniqueHash' /\ UniqueIndex'
<1>1. Linked' /\ PrevBound'
  BY DEF BInv, Linked, PrevBound
<1> QED
  BY <1>1 DEF BInv, HashBound, UniqueHash, UniqueIndex

LEMMA LeaderFrame ==
    ASSUME LInv, Made' \subseteq Made,
           UNCHANGED <<chain, times, transinblock, commonTransMap, pendingInfo,
                       pendingTran, starts>>
    PROVE  LInv'
<1>1. StoredHashes' = StoredHashes
  BY DEF StoredHashes, Stored
<1>2. OnLeader' /\ FiredOnce'
  BY DEF LInv, OnLeader, FiredOnce, Filed, RoundKey
<1>3. TranOnce' /\ TriggerBound'
  BY <1>1 DEF LInv, TranOnce, TriggerBound, Received
<1> QED
  BY <1>2, <1>3 DEF LInv

LEMMA TmpFrame ==
    ASSUME BInv, InHand' \subseteq InHand, UNCHANGED <<tmpBlock, currBlock>>
    PROVE  TmpNext' /\ InHandNext'
BY DEF BInv, TmpNext, InHandNext

LEMMA InHandOnceFrame ==
    ASSUME BInv, UNCHANGED <<verifying, verified>>
    PROVE  InHandOnce'
BY DEF BInv, InHandOnce

LEMMA BroadcastFrame ==
    ASSUME BInv, InHand' \subseteq InHand, proposals' \subseteq proposals,
           UNCHANGED tmpBlock
    PROVE  Undelivered' /\ OneBroadcast'
BY DEF BInv, Undelivered, OneBroadcast

LEMMA HashSetFrame ==
    ASSUME BInv, UNCHANGED <<pendingVote1, pendingVote2, storing>>
    PROVE  HashSet'
BY DEF BInv, HashSet

(* The blocks in hand and the blocks known, when nothing that holds one    *)
(* changes.                                                                *)
LEMMA MadeFrame ==
    ASSUME UNCHANGED <<proposals, verifying, verified, tmpBlock, chain>>
    PROVE  InHand' = InHand /\ Made' = Made
BY DEF InHand, Made, Stored

(* The blocks known after a step are known before it when each holder's    *)
(* are.                                                                    *)
LEMMA MadeShrinks ==
    ASSUME {p.block : p \in proposals'} \subseteq Made,
           {g.block : g \in InHand'} \subseteq Made,
           \A n \in Replica : tmpBlock'[n] = NoBlock \/ tmpBlock'[n] \in Made,
           \A n \in Replica : Stored(n)' \subseteq Made
    PROVE  Made' \subseteq Made
<1>1. \A b \in Made' :
         \/ b \in {p.block : p \in proposals'}
         \/ b \in {g.block : g \in InHand'}
         \/ b # NoBlock /\ \E n \in Replica : b = tmpBlock'[n]
         \/ \E n \in Replica : b \in Stored(n)'
  BY DEF Made
<1> QED
  BY <1>1

(* Where the known blocks are. *)
LEMMA MadeParts ==
    /\ {p.block : p \in proposals} \subseteq Made
    /\ {g.block : g \in InHand} \subseteq Made
    /\ \A n \in Replica : tmpBlock[n] = NoBlock \/ tmpBlock[n] \in Made
    /\ \A n \in Replica : Stored(n) \subseteq Made
BY DEF Made

LEMMA NoBlocksStep ==
    ASSUME BInv, TypeOK',
           UNCHANGED <<currBlock, chain, tmpBlock, proposals, verifying,
                       verified, pendingVote1, pendingVote2, storing, clock>>
    PROVE  BInv' /\ Made' = Made
BY MadeFrame, ChainShapeFrame, BlocksFrame, TmpFrame, InHandOnceFrame,
   BroadcastFrame, HashSetFrame DEF BInv

(* Every block in a chain is known, has its place as its index, and the    *)
(* current block is the last.                                              *)
LEMMA ChainFacts ==
    ASSUME BInv, NEW n \in Replica
    PROVE  /\ chain[n] \in Seq(Block)
           /\ Len(chain[n]) \in Nat \ {0}
           /\ currBlock[n] = chain[n][Len(chain[n])]
           /\ currBlock[n] \in Made
           /\ currBlock[n].index = Len(chain[n]) - 1
           /\ \A i \in 1..Len(chain[n]) :
                 /\ chain[n][i] \in Made
                 /\ chain[n][i].index = i - 1
<1>1. chain[n] \in Seq(Block)
  BY DEF BInv, TypeOK
<1>2. Len(chain[n]) \in Nat \ {0}
  BY <1>1 DEF BInv, ChainShape
<1>3. \A i \in 1..Len(chain[n]) :
         chain[n][i] \in Stored(n) /\ chain[n][i].index = i - 1
  BY DEF BInv, ChainShape, Stored
<1>4. Stored(n) \subseteq Made
  BY DEF Made
<1>5. currBlock[n] = chain[n][Len(chain[n])]
  BY DEF BInv, ChainShape
<1>6. Len(chain[n]) \in 1..Len(chain[n])
  BY <1>2
<1> QED
  BY <1>1, <1>2, <1>3, <1>4, <1>5, <1>6

LEMMA MadeTypes ==
    ASSUME BInv
    PROVE  Made \subseteq Block
<1>1. {p.block : p \in proposals} \subseteq Block
  BY DEF BInv, TypeOK
<1>2. {g.block : g \in InHand} \subseteq Block
  BY DEF BInv, TypeOK, InHand
<1>3. {tmpBlock[n] : n \in Replica} \subseteq Block
  BY DEF BInv, TypeOK
<1>4. \A n \in Replica : Stored(n) \subseteq Block
  <2> SUFFICES ASSUME NEW n \in Replica PROVE Stored(n) \subseteq Block
    OBVIOUS
  <2>1. chain[n] \in Seq(Block)
    BY DEF BInv, TypeOK
  <2> QED
    BY <2>1 DEF Stored
<1> QED
  BY <1>1, <1>2, <1>3, <1>4 DEF Made

(* A known block that extends the current block of a replica is the next   *)
(* one there, and conversely.                                              *)
LEMMA ExtendsNext ==
    ASSUME BInv, NEW n \in Replica, NEW b \in Made
    PROVE  Extends(n, b) <=> b.index = currBlock[n].index + 1
BY ChainFacts DEF Extends, BInv, Linked

LEMMA RecBlockBlocks ==
    ASSUME BInv, TypeOK', NEW p \in proposals, RecBlock(p)
    PROVE  BInv' /\ Made' \subseteq Made
<1> DEFINE n == Urls[p.next]
           here == [at |-> n, block |-> p.block]
<1>1. UNCHANGED <<currBlock, chain, tmpBlock,
                  verified,
                  pendingVote1, pendingVote2, storing, clock>>
  BY DEF RecBlock, stateVars, tallyVars
<1>2. p.next \in 1..Len(Urls) /\ n \in Replica /\ p.block \in Made
  BY UrlType DEF BInv, TypeOK, Made
<1>3. here \notin InHand
  <2>1. p.next \in p.next..Len(Urls)
    BY <1>2, UrlType
  <2> QED
    BY <2>1 DEF BInv, Undelivered
<1>4. \/ verifying' = verifying
      \/ verifying' = verifying \cup {here} /\ Checkblock(n, p.block)
  BY DEF RecBlock
<1>5. InHand' \subseteq InHand \cup {here}
  BY <1>1, <1>4 DEF InHand
<1>6. \A q \in proposals' :
         \/ q \in proposals /\ q # p
         \/ q.block = p.block /\ q.next = p.next + 1
  <2>1. p = [block |-> p.block, next |-> p.next]
    BY DEF BInv, TypeOK
  <2>2. \A q \in Rest(p) : q.block = p.block /\ q.next = p.next + 1
    BY <2>1 DEF Rest
  <2> QED
    BY <2>2 DEF RecBlock
<1>7. Made' \subseteq Made
  <2>1. {q.block : q \in proposals'} \subseteq Made
    BY <1>2, <1>6 DEF Made
  <2>2. {g.block : g \in InHand'} \subseteq Made
    BY <1>2, <1>5, MadeParts
  <2>3. \A m \in Replica : Stored(m)' = Stored(m)
    BY <1>1 DEF Stored
  <2> QED
    BY <1>1, <2>1, <2>2, <2>3, MadeParts, MadeShrinks
<1>8. TmpNext'
  BY <1>1 DEF BInv, TmpNext
<1>9. InHandNext'
  <2>1. ASSUME Checkblock(n, p.block)
        PROVE  p.block.index = currBlock[n].index + 1 /\ tmpBlock[n] # p.block
    BY <1>2, <2>1, ExtendsNext DEF Checkblock
  <2>2. \A g \in InHand' : g \in InHand \/ (g = here /\ Checkblock(n, p.block))
    BY <1>1, <1>4 DEF InHand
  <2> QED
    BY <1>1, <2>1, <2>2 DEF BInv, InHandNext
<1>10. InHandOnce'
  <2>1. \A g \in verified : [at |-> g.at, block |-> g.block] # here
    BY <1>3 DEF InHand
  <2> QED
    BY <1>1, <1>4, <2>1 DEF BInv, InHandOnce
<1>11. Undelivered'
  <2> SUFFICES ASSUME NEW q \in proposals', NEW i \in q.next..Len(Urls)
               PROVE  /\ [at |-> Urls[i], block |-> q.block] \notin InHand'
                      /\ tmpBlock[Urls[i]] # q.block
    BY <1>1 DEF Undelivered
  <2>1. CASE q \in proposals /\ q # p
    <3>1. q.block # p.block
      BY <2>1 DEF BInv, OneBroadcast
    <3> QED
      BY <1>5, <2>1, <3>1 DEF BInv, Undelivered
  <2>2. CASE q.block = p.block /\ q.next = p.next + 1
    <3>1. /\ i \in p.next..Len(Urls)
          /\ i # p.next
          /\ i \in 1..Len(Urls)
      BY <1>2, <2>2, UrlType
    <3>2. Urls[i] # n
      BY <1>2, <3>1, UrlsAssumption
    <3> QED
      BY <1>5, <2>2, <3>1, <3>2 DEF BInv, Undelivered
  <2> QED
    BY <1>6, <2>1, <2>2
<1>12. OneBroadcast'
  <2>1. \A q \in proposals' : q = [block |-> q.block, next |-> q.next]
    BY DEF TypeOK
  <2> QED
    BY <1>6, <2>1 DEF BInv, OneBroadcast
<1> QED
  BY <1>1, <1>7, <1>8, <1>9, <1>10, <1>11, <1>12, ChainShapeFrame, BlocksFrame,
     HashSetFrame DEF BInv

LEMMA LoseBlockBlocks ==
    ASSUME BInv, TypeOK', NEW p \in proposals, LoseBlock(p)
    PROVE  BInv' /\ Made' \subseteq Made
<1>1. /\ proposals' \subseteq proposals
      /\ UNCHANGED <<currBlock, chain, tmpBlock,
                     verifying,
                     verified, pendingVote1, pendingVote2, storing, clock>>
  BY DEF LoseBlock, stateVars, tallyVars, voteVars
<1>2. InHand' = InHand /\ Made' \subseteq Made
  BY <1>1 DEF InHand, Made, Stored
<1> QED
  BY <1>1, <1>2, ChainShapeFrame, BlocksFrame, TmpFrame, InHandOnceFrame,
     BroadcastFrame, HashSetFrame DEF BInv

LEMMA VerifyBlocks ==
    ASSUME BInv, TypeOK', NEW g \in verifying, Verify(g)
    PROVE  BInv' /\ Made' \subseteq Made
<1> DEFINE done == [at |-> g.at, block |-> g.block,
                    vote |-> Extends(g.at, g.block)]
<1>1. /\ verifying' = verifying \ {g}
      /\ verified' = verified \cup {done}
      /\ UNCHANGED <<currBlock, chain, tmpBlock,
                     proposals,
                     pendingVote1, pendingVote2, storing, clock>>
  BY DEF Verify, stateVars, tallyVars
<1>2. g = [at |-> done.at, block |-> done.block] /\ g \in InHand
  BY DEF BInv, TypeOK, InHand
<1>3. InHand' \subseteq InHand
  BY <1>1, <1>2 DEF InHand
<1>4. Made' \subseteq Made
  BY <1>1, <1>3 DEF Made, Stored
<1>5. InHandOnce'
  <2>1. \A h \in verified : ~(h.at = done.at /\ h.block = done.block)
    BY <1>2 DEF BInv, InHandOnce
  <2> QED
    BY <1>1, <1>2, <2>1 DEF BInv, InHandOnce
<1> QED
  BY <1>1, <1>3, <1>4, <1>5, ChainShapeFrame, BlocksFrame, TmpFrame,
     BroadcastFrame, HashSetFrame DEF BInv

(* A replica takes up a block it was verifying.  Nothing unstored is lost: *)
(* its old tmpBlock is not the next block.                                 *)
LEMMA SetTmpBBlocks ==
    ASSUME BInv, TypeOK', NEW g \in verified, SetTmpB(g)
    PROVE  BInv' /\ Made' \subseteq Made
<1>1. /\ verified' = verified \ {g}
      /\ tmpBlock' = [tmpBlock EXCEPT ![g.at] = g.block]
      /\ UNCHANGED <<currBlock, chain, commonTransMap,
                     proposals, verifying,
                     pendingVote2, storing, clock>>
  BY DEF SetTmpB, stateVars, tallyVars
<1> DEFINE taken == [at |-> g.at, block |-> g.block]
<1>2. g.at \in Replica /\ taken \in InHand /\ g.block \in Made
  <2>1. g.at \in Replica
    BY DEF BInv, TypeOK
  <2>2. taken \in InHand
    BY DEF InHand
  <2> QED
    BY <2>1, <2>2, MadeParts
<1>3. InHand' \subseteq InHand
  BY <1>1 DEF InHand
<1>4. \A n \in Replica :
         tmpBlock'[n] = IF n = g.at THEN g.block ELSE tmpBlock[n]
  BY <1>1 DEF BInv, TypeOK
<1>5. Made' \subseteq Made
  <2>1. {q.block : q \in proposals'} \subseteq Made
    BY <1>1, MadeParts
  <2>2. {h.block : h \in InHand'} \subseteq Made
    BY <1>3, MadeParts
  <2>3. \A n \in Replica : tmpBlock'[n] = NoBlock \/ tmpBlock'[n] \in Made
    BY <1>2, <1>4, MadeParts
  <2>4. \A n \in Replica : Stored(n)' = Stored(n)
    BY <1>1 DEF Stored
  <2> QED
    BY <2>1, <2>2, <2>3, <2>4, MadeParts, MadeShrinks
<1>6. TmpNext'
  BY <1>1, <1>2, <1>4 DEF BInv, TmpNext, InHandNext
<1>7. InHandNext'
  <2>1. taken \notin InHand'
    BY <1>1 DEF BInv, InHandOnce, InHand
  <2>2. \A h \in InHand' : h.at \in Replica /\ h = [at |-> h.at, block |-> h.block]
    BY DEF TypeOK, InHand
  <2> QED
    BY <1>1, <1>3, <1>4, <2>1, <2>2 DEF BInv, InHandNext
<1>8. InHandOnce'
  BY <1>1 DEF BInv, InHandOnce
<1>9. Undelivered'
  <2>1. \A p \in proposals : \A i \in p.next..Len(Urls) :
           Urls[i] = g.at => g.block # p.block
    BY <1>2 DEF BInv, Undelivered
  <2>2. \A p \in proposals : \A i \in p.next..Len(Urls) : Urls[i] \in Replica
    BY UrlType DEF BInv, TypeOK
  <2> QED
    BY <1>1, <1>3, <1>4, <2>1, <2>2 DEF BInv, Undelivered
<1>10. OneBroadcast'
  BY <1>1 DEF BInv, OneBroadcast
<1>11. HashSet'
  <2>1. g.block.hash # NoBlock.hash
    BY <1>2 DEF BInv, HashBound, NoBlock
  <2>2. \A v \in pendingVote1' : v \in pendingVote1 \/ v.hash = g.block.hash
    BY DEF SetTmpB
  <2> QED
    BY <1>1, <2>1, <2>2 DEF BInv, HashSet
<1> QED
  BY <1>1, <1>5, <1>6, <1>7, <1>8, <1>9, <1>10, <1>11, ChainShapeFrame,
     BlocksFrame DEF BInv

LEMMA Vote1Blocks ==
    ASSUME BInv, TypeOK', NEW v \in pendingVote1, Vote1(v)
    PROVE  BInv' /\ Made' \subseteq Made
<1>1. /\ pendingVote1' \subseteq pendingVote1
      /\ UNCHANGED <<currBlock, chain, tmpBlock,
                     proposals,
                     verifying, verified, storing, clock>>
  BY DEF Vote1, stateVars
<1>2. \A w \in pendingVote2' : w \in pendingVote2 \/ w.hash = v.hash
  <2> DEFINE key   == VoteKey(v.at, v.hash)
             entry == [key |-> key, from |-> v.from, vote |-> v.vote]
             votes == Filed(round1Map[v.at], key) \cup {entry}
             re    == Enough(Cardinality({e \in votes : e.vote}))
  <2>1. CASE Full(votes)
    <3>1. PICK to \in Reach : pendingVote2' = pendingVote2 \cup
             {[at |-> n, from |-> v.at, hash |-> v.hash, vote |-> re] : n \in to}
      BY <2>1 DEF Vote1
    <3> HIDE DEF re
    <3> QED
      BY <3>1
  <2>2. CASE ~Full(votes)
    BY <2>2 DEF Vote1
  <2> QED
    BY <2>1, <2>2
<1>3. HashSet'
  BY <1>1, <1>2 DEF BInv, HashSet
<1> QED
  BY <1>1, <1>3, MadeFrame, ChainShapeFrame, BlocksFrame, TmpFrame,
     InHandOnceFrame, BroadcastFrame DEF BInv

LEMMA Vote2Blocks ==
    ASSUME BInv, TypeOK', NEW v \in pendingVote2, Vote2(v)
    PROVE  BInv' /\ Made' \subseteq Made
<1>1. /\ pendingVote2' \subseteq pendingVote2
      /\ UNCHANGED <<currBlock, chain, tmpBlock,
                     proposals,
                     verifying, verified, pendingVote1, clock>>
  BY DEF Vote2, stateVars
<1>2. \A s \in storing' : s \in storing \/ s.hash = v.hash
  BY DEF Vote2
<1>3. HashSet'
  BY <1>1, <1>2 DEF BInv, HashSet
<1> QED
  BY <1>1, <1>3, MadeFrame, ChainShapeFrame, BlocksFrame, TmpFrame,
     InHandOnceFrame, BroadcastFrame DEF BInv

(* What passes the guard of CheckAndStore is the next block. *)
LEMMA OpenNext ==
    ASSUME BInv, NEW s \in storing, Open(s.at, s.hash)
    PROVE  /\ s.at \in Replica
           /\ tmpBlock[s.at] \in Made
           /\ tmpBlock[s.at] # NoBlock
           /\ tmpBlock[s.at].hash = s.hash
           /\ tmpBlock[s.at].index = currBlock[s.at].index + 1
           /\ tmpBlock[s.at].index = Len(chain[s.at])
<1>1. s.at \in Replica
  BY DEF BInv, TypeOK
<1>2. tmpBlock[s.at] # NoBlock /\ tmpBlock[s.at] # currBlock[s.at]
  BY DEF Open, BInv, HashSet
<1>3. tmpBlock[s.at].index = currBlock[s.at].index + 1
  BY <1>1, <1>2 DEF BInv, TmpNext
<1> QED
  BY <1>1, <1>2, <1>3, MadeParts, ChainFacts DEF Open

LEMMA StoreBlocks ==
    ASSUME BInv, TypeOK', NEW s \in storing, StoreBlock(s), Open(s.at, s.hash)
    PROVE  BInv' /\ Made' \subseteq Made
<1> DEFINE n == s.at
           b == tmpBlock[n]
<1>1. /\ storing' = storing \ {s}
      /\ Store(n)
      /\ UNCHANGED <<tmpBlock, commonTransMap, pendingTran, proposals,
                     verifying, verified, pendingVote1, pendingVote2, clock,
                     starts>>
  BY DEF StoreBlock, tallyVars
<1>2. /\ n \in Replica
      /\ b \in Made
      /\ b # NoBlock
      /\ b.index = currBlock[n].index + 1
      /\ b.index = Len(chain[n])
  BY OpenNext
<1>3. /\ chain' = [chain EXCEPT ![n] = Append(@, b)]
      /\ currBlock' = [currBlock EXCEPT ![n] = b]
  BY <1>1 DEF Store
<1>4. /\ \A m \in Replica \ {n} :
            chain'[m] = chain[m] /\ currBlock'[m] = currBlock[m]
      /\ chain'[n] = Append(chain[n], b)
      /\ currBlock'[n] = b
  BY <1>2, <1>3 DEF BInv, TypeOK
<1>5. /\ b \in Block
      /\ chain[n] \in Seq(Block)
      /\ Len(chain[n]) \in Nat \ {0}
  BY <1>2, MadeTypes, ChainFacts
<1>6. /\ Len(chain'[n]) = Len(chain[n]) + 1
      /\ \A i \in 1..Len(chain[n]) : chain'[n][i] = chain[n][i]
      /\ chain'[n][Len(chain[n]) + 1] = b
  BY <1>4, <1>5
<1>7. InHand' = InHand
  BY <1>1 DEF InHand
<1>8. Made' \subseteq Made
  <2>1. Stored(n)' \subseteq Stored(n) \cup {b}
    BY <1>5, <1>6 DEF Stored
  <2>2. \A m \in Replica \ {n} : Stored(m)' = Stored(m)
    BY <1>4 DEF Stored
  <2>3. \A m \in Replica : Stored(m)' \subseteq Made
    BY <1>2, <2>1, <2>2, MadeParts
  <2> QED
    BY <1>1, <1>7, <2>3, MadeParts, MadeShrinks
<1>9. ChainShape'
  <2> SUFFICES ASSUME NEW m \in Replica
               PROVE  /\ chain'[m] # <<>>
                      /\ chain'[m][1] = Genesis
                      /\ chain'[m][Len(chain'[m])] = currBlock'[m]
                      /\ \A i \in 1..Len(chain'[m]) : chain'[m][i].index = i - 1
    BY DEF ChainShape
  <2>1. CASE m # n
    BY <1>4, <2>1 DEF BInv, ChainShape
  <2>2. CASE m = n
    <3>1. chain[n][1] = Genesis
      BY <1>2 DEF BInv, ChainShape
    <3>2. \A i \in 1..Len(chain[n]) : chain[n][i].index = i - 1
      BY <1>2, ChainFacts
    <3>3. \A i \in 1..Len(chain'[n]) :
             i \in 1..Len(chain[n]) \/ i = Len(chain[n]) + 1
      BY <1>5, <1>6
    <3>4. \A i \in 1..Len(chain'[n]) : chain'[n][i].index = i - 1
      <4>1. \A i \in 1..Len(chain[n]) : chain'[n][i].index = i - 1
        BY <1>6, <3>2
      <4>2. chain'[n][Len(chain[n]) + 1].index = Len(chain[n]) + 1 - 1
        BY <1>2, <1>5, <1>6
      <4> QED
        BY <3>3, <4>1, <4>2
    <3>5. chain'[n] # <<>> /\ 1 \in 1..Len(chain[n])
      BY <1>5, <1>6
    <3>6. chain'[n][Len(chain'[n])] = currBlock'[n]
      BY <1>4, <1>6
    <3> QED
      BY <1>6, <2>2, <3>1, <3>4, <3>5, <3>6
  <2> QED
    BY <2>1, <2>2
<1>10. Linked' /\ PrevBound' /\ HashBound' /\ UniqueHash' /\ UniqueIndex'
  BY <1>1, <1>8, BlocksFrame
<1>11. TmpNext'
  BY <1>1, <1>4 DEF BInv, TmpNext
<1>12. InHandNext'
  <2>1. \A g \in InHand : g.at # n
    <3> SUFFICES ASSUME NEW g \in InHand, g.at = n
                 PROVE  FALSE
      OBVIOUS
    <3>1. g.block \in Made /\ g.block.index = b.index /\ b # g.block
      BY <1>2, MadeParts DEF BInv, InHandNext
    <3> QED
      BY <1>2, <3>1 DEF BInv, UniqueIndex
  <2>2. \A g \in InHand : g.at \in Replica
    BY DEF BInv, TypeOK, InHand
  <2> QED
    BY <1>1, <1>4, <1>7, <2>1, <2>2 DEF BInv, InHandNext
<1>13. HashSet'
  BY <1>1 DEF BInv, HashSet
<1>14. Undelivered' /\ OneBroadcast' /\ InHandOnce'
  BY <1>1, <1>7, BroadcastFrame, InHandOnceFrame
<1> QED
  BY <1>8, <1>9, <1>10, <1>11, <1>12, <1>13, <1>14 DEF BInv

LEMMA StoreBlockBlocks ==
    ASSUME BInv, TypeOK', NEW s \in storing, StoreBlock(s)
    PROVE  BInv' /\ Made' \subseteq Made
<1>1. CASE Open(s.at, s.hash)
  BY <1>1, StoreBlocks
<1>2. CASE ~Open(s.at, s.hash)
  <2>1. /\ storing' \subseteq storing
        /\ UNCHANGED <<currBlock, chain, tmpBlock, proposals, verifying,
                       verified, pendingVote1, pendingVote2, clock>>
    BY <1>2 DEF StoreBlock, stateVars
  <2>2. HashSet'
    BY <2>1 DEF BInv, HashSet
  <2> QED
    BY <2>1, <2>2, MadeFrame, ChainShapeFrame, BlocksFrame, TmpFrame,
       InHandOnceFrame, BroadcastFrame DEF BInv
<1> QED
  BY <1>1, <1>2

(* A block made on top of the leader's current block, when there is none   *)
(* there yet.                                                              *)
LEMMA NewBlockStep ==
    ASSUME BInv, TypeOK',
           clock' = clock + 1,
           proposals' = proposals \cup {Proposal(currBlock[Leader], clock + 1)},
           \A b \in Made : b.index < Len(chain[Leader]),
           UNCHANGED <<currBlock, chain, tmpBlock, verifying, verified,
                       pendingVote1, pendingVote2, storing>>
    PROVE  /\ BInv'
           /\ Made' = Made \cup {GenerateBlock(currBlock[Leader], clock + 1)}
           /\ GenerateBlock(currBlock[Leader], clock + 1).index = Len(chain[Leader])
<1> DEFINE new == GenerateBlock(currBlock[Leader], clock + 1)
<1>1. /\ currBlock[Leader] \in Made
      /\ currBlock[Leader].index = Len(chain[Leader]) - 1
      /\ Len(chain[Leader]) \in Nat \ {0}
      /\ currBlock[Leader].index \in Nat
  BY ChainFacts, ReplicaAssumption
<1>2. /\ new.hash = clock + 1
      /\ new.prev = currBlock[Leader].hash
      /\ new.index = Len(chain[Leader])
  BY <1>1 DEF GenerateBlock
<1>3. /\ clock \in Nat
      /\ \A b \in Made : b.hash \in 1..clock /\ b.prev <= clock
      /\ \A b \in Made : b.hash \in Nat /\ b.prev \in Nat /\ b.index \in Nat
  BY MadeTypes DEF BInv, TypeOK, HashBound, PrevBound, Block
<1>4. \A n \in Replica : tmpBlock[n] # new
  BY <1>2, <1>3, MadeParts DEF NoBlock
<1>5. InHand' = InHand
  BY DEF InHand
<1>6. Made' = Made \cup {new}
  <2>1. {p.block : p \in proposals'} = {p.block : p \in proposals} \cup {new}
    <3> DEFINE post == [block |-> new, next |-> 1]
    <3>1. post.block = new /\ proposals' = proposals \cup {post}
      BY DEF Proposal
    <3> HIDE DEF post
    <3> QED
      BY <3>1
  <2>2. \A n \in Replica : Stored(n)' = Stored(n)
    BY DEF Stored
  <2> QED
    BY <1>5, <2>1, <2>2 DEF Made
<1> HIDE DEF new
<1>7. Linked'
  <2>1. \A b \in Made : b.prev # new.hash /\ b.index # new.index + 1
    BY <1>1, <1>2, <1>3
  <2>2. \A c \in Made : new.prev = c.hash <=> new.index = c.index + 1
    <3> SUFFICES ASSUME NEW c \in Made
                 PROVE  new.prev = c.hash <=> new.index = c.index + 1
      OBVIOUS
    <3>1. c.hash = currBlock[Leader].hash <=> c.index = currBlock[Leader].index
      BY <1>1 DEF BInv, UniqueHash, UniqueIndex
    <3> QED
      BY <1>1, <1>2, <1>3, <3>1
  <2>3. ~(new.prev = new.hash) /\ ~(new.index = new.index + 1)
    BY <1>1, <1>2, <1>3
  <2> QED
    BY <1>6, <2>1, <2>2, <2>3 DEF BInv, Linked
<1>8. PrevBound' /\ HashBound'
  BY <1>1, <1>2, <1>3, <1>6 DEF PrevBound, HashBound
<1>9. UniqueHash' /\ UniqueIndex'
  BY <1>2, <1>3, <1>6 DEF BInv, UniqueHash, UniqueIndex
<1>10. Undelivered'
  <2>1. \A g \in InHand : g.block # new
    BY <1>2, <1>3, MadeParts
  <2>2. \A i \in 1..Len(Urls) : Urls[i] \in Replica
    BY UrlType
  <2>3. \A i \in 1..Len(Urls) :
           /\ [at |-> Urls[i], block |-> new] \notin InHand
           /\ tmpBlock[Urls[i]] # new
    BY <1>4, <2>1, <2>2
  <2> QED
    BY <1>5, <2>3 DEF BInv, Undelivered, Proposal, new
<1>11. OneBroadcast'
  <2>1. \A p \in proposals : p.block # new
    BY <1>2, <1>3, MadeParts
  <2> QED
    BY <2>1 DEF BInv, OneBroadcast, Proposal, new
<1>12. ChainShape' /\ TmpNext' /\ InHandNext' /\ InHandOnce' /\ HashSet'
  BY <1>5, ChainShapeFrame, TmpFrame, InHandOnceFrame, HashSetFrame DEF BInv
<1> QED
  BY <1>2, <1>6, <1>7, <1>8, <1>9, <1>10, <1>11, <1>12 DEF BInv, new

(* Of the steps of the handlers, only those that take a trigger up or      *)
(* store a block touch what the leader's tally depends on.                 *)
LEMMA HandlerBlocks ==
    ASSUME BInv, TypeOK', Handlers
    PROVE  BInv' /\ Made' \subseteq Made
<1>1. ASSUME NEW g \in pendingInfo, SendTransV2(g)
      PROVE  BInv' /\ Made' \subseteq Made
  BY <1>1, NoBlocksStep DEF SendTransV2, stateVars, voteVars
<1> QED
  BY <1>1, RecBlockBlocks, LoseBlockBlocks, VerifyBlocks, SetTmpBBlocks,
     Vote1Blocks, Vote2Blocks, StoreBlockBlocks DEF Handlers

LEMMA SendTxsBlocks ==
    ASSUME BInv, TypeOK', SendTxs
    PROVE  BInv' /\ Made' = Made
BY NoBlocksStep DEF SendTxs, stateVars, voteVars
----------------------------------------------------------------------------
(* The leader. *)

LEMMA SendTxsLeads ==
    ASSUME IInv, SendTxs, Made' = Made
    PROVE  LInv'
<1>1. /\ starts' = starts + 1
      /\ UNCHANGED <<currBlock, chain, times, transinblock, tmpBlock,
                     commonTransMap, pendingTran, proposals, verifying,
                     verified, pendingVote1, pendingVote2, storing, clock>>
  BY DEF SendTxs, stateVars, tallyVars, voteVars
<1>2. PICK to \in Reach :
         pendingInfo' = pendingInfo \cup Testinfo(to, <<starts + 1, 0>>)
  BY DEF SendTxs
<1>3. starts \in Nat
  BY CounterAssumption DEF IInv, BInv, TypeOK
<1>4. \A g \in pendingInfo' : g \in pendingInfo \/ g.trigger = <<starts + 1, 0>>
  BY <1>2 DEF Testinfo
<1>5. TriggerBound'
  <2>1. StoredHashes' = StoredHashes /\ 0 \in StoredHashes
    BY <1>1 DEF StoredHashes, Stored
  <2>2. SUFFICES ASSUME NEW k \in ({g.trigger : g \in pendingInfo} \cup
                     {t.trigger : t \in pendingTran \cup Received})'
                 PROVE  /\ k[1] <= starts'
                        /\ k[2] \in StoredHashes
                        /\ k[1] = 0 \/ k[2] = 0
                        /\ k # <<0, 0>>
    BY <1>1, <2>1 DEF TriggerBound
  <2>3. CASE k = <<starts + 1, 0>>
    BY <1>1, <1>3, <2>1, <2>3
  <2>4. CASE k # <<starts + 1, 0>>
    <3>1. k \in {g.trigger : g \in pendingInfo} \cup
                  {t.trigger : t \in pendingTran \cup Received}
      BY <1>1, <1>4, <2>2, <2>4 DEF Received
    <3>2. k \in Trigger
      BY <3>1 DEF IInv, BInv, TypeOK, Received, Tran
    <3>3. k[1] \in Nat
      BY <3>2 DEF Trigger
    <3> QED
      BY <1>1, <1>3, <3>1, <3>3 DEF IInv, LInv, TriggerBound
  <2> QED
    BY <2>3, <2>4
<1>6. TranOnce'
  <2>1. \A t \in pendingTran \cup Received : t.trigger # <<starts + 1, 0>>
    <3> SUFFICES ASSUME NEW t \in pendingTran \cup Received,
                        t.trigger = <<starts + 1, 0>>
                 PROVE  FALSE
      OBVIOUS
    <3>1. t.trigger[1] <= starts
      BY DEF IInv, LInv, TriggerBound
    <3> QED
      BY <1>3, <3>1
  <2> QED
    BY <1>1, <1>4, <2>1 DEF IInv, LInv, TranOnce, Received
<1>7. OnLeader' /\ FiredOnce'
  BY <1>1 DEF IInv, LInv, OnLeader, FiredOnce, Filed, RoundKey
<1> QED
  BY <1>1, <1>5, <1>6, <1>7 DEF IInv, LInv

LEMMA SendTransLeads ==
    ASSUME IInv, NEW g \in pendingInfo, SendTransV2(g), Made' = Made
    PROVE  LInv'
<1>1. /\ pendingInfo' = pendingInfo \ {g}
      /\ UNCHANGED <<currBlock, chain, times, transinblock, tmpBlock,
                     commonTransMap, proposals, verifying, verified,
                     pendingVote1, pendingVote2, storing, clock, starts>>
  BY DEF SendTransV2, stateVars, tallyVars, voteVars
<1> DEFINE sent == [from |-> g.at, trigger |-> g.trigger,
                    prev |-> currBlock[g.at].hash]
<1>2. pendingTran' \subseteq pendingTran \cup {sent}
  BY DEF SendTransV2
<1>3. g = [at |-> sent.from, trigger |-> sent.trigger]
  BY DEF IInv, BInv, TypeOK
<1>4. TriggerBound'
  <2>1. \A t \in pendingTran' : t \in pendingTran \/ t.trigger = g.trigger
    BY <1>2
  <2>2. StoredHashes' = StoredHashes
    BY <1>1 DEF StoredHashes, Stored
  <2> QED
    BY <1>1, <2>1, <2>2 DEF IInv, LInv, TriggerBound, Received
<1>5. TranOnce'
  <2>1. \A t \in pendingTran \cup Received :
           ~(t.from = sent.from /\ t.trigger = sent.trigger)
    BY <1>3 DEF IInv, LInv, TranOnce
  <2>2. sent \notin Received
    BY <2>1
  <2>3. Received' = Received
    BY <1>1 DEF Received
  <2>4. pendingTran' \cap Received' = {}
    BY <1>2, <2>2, <2>3 DEF IInv, LInv, TranOnce
  <2>5. \A t \in pendingTran' \cup Received' :
           [at |-> t.from, trigger |-> t.trigger] \notin pendingInfo'
    BY <1>1, <1>2, <1>3, <2>3 DEF IInv, LInv, TranOnce
  <2>6. \A t, u \in pendingTran' :
           t.from = u.from /\ t.trigger = u.trigger => t = u
    BY <1>2, <2>1 DEF IInv, LInv, TranOnce
  <2> QED
    BY <2>4, <2>5, <2>6 DEF TranOnce
<1>6. OnLeader' /\ FiredOnce'
  BY <1>1 DEF IInv, LInv, OnLeader, FiredOnce, Filed, RoundKey
<1> QED
  BY <1>1, <1>4, <1>5, <1>6 DEF IInv, LInv

(* What passes the guard of CheckAndStore at the leader is the block its   *)
(* round was for: no block is known on top of it.                          *)
LEMMA StoreLeads ==
    ASSUME IInv, NEW s \in storing, StoreBlock(s), Open(s.at, s.hash),
           Made' \subseteq Made
    PROVE  LInv'
<1> DEFINE n == s.at
           b == tmpBlock[n]
<1>1. /\ storing' = storing \ {s}
      /\ Store(n)
      /\ UNCHANGED <<tmpBlock, commonTransMap, pendingTran, proposals,
                     verifying, verified, pendingVote1, pendingVote2, clock,
                     starts>>
  BY DEF StoreBlock, tallyVars
<1>2. /\ n \in Replica
      /\ b \in Made
      /\ b # NoBlock
      /\ b.index = currBlock[n].index + 1
      /\ b.index = Len(chain[n])
  BY OpenNext DEF IInv, BInv, LInv
<1>3. /\ chain' = [chain EXCEPT ![n] = Append(@, b)]
      /\ currBlock' = [currBlock EXCEPT ![n] = b]
  BY <1>1 DEF Store
<1>4. /\ \A m \in Replica \ {n} :
            chain'[m] = chain[m] /\ currBlock'[m] = currBlock[m]
      /\ chain'[n] = Append(chain[n], b)
      /\ currBlock'[n] = b
  BY <1>2, <1>3 DEF IInv, BInv, TypeOK
<1>5. /\ b \in Block
      /\ chain[n] \in Seq(Block)
      /\ Len(chain[n]) \in Nat \ {0}
  BY <1>2, MadeTypes, ChainFacts DEF IInv, BInv, LInv
<1>6. /\ Len(chain'[n]) = Len(chain[n]) + 1
      /\ \A i \in 1..Len(chain[n]) : chain'[n][i] = chain[n][i]
      /\ chain'[n][Len(chain[n]) + 1] = b
  BY <1>4, <1>5
<1>7. /\ Len(chain'[Leader]) >= Len(chain[Leader])
       /\ \A i \in 1..Len(chain[Leader]) : chain'[Leader][i] = chain[Leader][i]
       /\ Len(chain[Leader]) \in Nat /\ Len(chain'[Leader]) \in Nat
  <2>1. Leader \in Replica /\ Len(chain[Leader]) \in Nat
    BY ChainFacts, ReplicaAssumption DEF IInv, BInv, LInv
  <2>2. CASE n = Leader
    BY <1>5, <1>6, <2>1, <2>2
  <2>3. CASE n # Leader
    BY <1>4, <2>1, <2>3
  <2> QED
    BY <2>2, <2>3
<1>8. OnLeader'
  <2>1. \A c \in Made : c.index \in Nat
    BY MadeTypes DEF IInv, BInv, LInv, Block
  <2> QED
    BY <1>7, <2>1 DEF IInv, LInv, OnLeader
<1>9. FiredOnce'
  <2>1. CASE n = Leader
    <3>1. \A c \in Made : c.index \in Nat /\ c.index <= Len(chain[Leader])
      BY MadeTypes DEF IInv, LInv, OnLeader, Block
    <3>2. \A c \in Made' : c.index # Len(chain'[Leader])
      BY <1>5, <1>6, <2>1, <3>1
    <3> QED
      BY <3>2 DEF FiredOnce
  <2>2. CASE n # Leader
    <3>1. chain'[Leader] = chain[Leader]
      BY <1>4, <2>2, ReplicaAssumption
    <3>2. times'[Leader] = times[Leader] /\ transinblock'[Leader] = transinblock[Leader]
      BY <1>1, <2>2, ReplicaAssumption DEF Store, IInv, BInv, TypeOK
    <3>3. Filed(commonTransMap, RoundKey(Leader))' =
             Filed(commonTransMap, RoundKey(Leader))
      BY <1>1, <3>2 DEF Filed, RoundKey
    <3> QED
      BY <3>1, <3>3 DEF IInv, LInv, FiredOnce
  <2> QED
    BY <2>1, <2>2
<1>10. \A g \in pendingInfo' :
          \/ g \in pendingInfo
          \/ n = Leader /\ g.trigger = <<0, b.hash>>
  BY <1>1 DEF Store, Testinfo
<1>11. TriggerBound'
  <2> SUFFICES ASSUME NEW k \in ({g.trigger : g \in pendingInfo} \cup
                     {t.trigger : t \in pendingTran \cup Received})'
               PROVE  /\ k[1] <= starts
                      /\ k[2] \in StoredHashes'
                      /\ k[1] = 0 \/ k[2] = 0
                      /\ k # <<0, 0>>
    BY <1>1 DEF TriggerBound
  <2>1. CASE n = Leader /\ k = <<0, b.hash>>
    <3>1. starts \in Nat
      BY CounterAssumption DEF IInv, BInv, TypeOK
    <3>2. b.hash \in 1..clock /\ clock \in Nat
      BY <1>2 DEF IInv, BInv, HashBound, TypeOK
    <3>3. b.hash \in StoredHashes'
      BY <1>5, <1>6, <2>1 DEF Stored, StoredHashes
    <3> QED
      BY <2>1, <3>1, <3>2, <3>3
  <2>2. CASE ~(n = Leader /\ k = <<0, b.hash>>)
    <3>1. k \in {g.trigger : g \in pendingInfo} \cup
                  {t.trigger : t \in pendingTran \cup Received}
      BY <1>1, <1>10, <2>2 DEF Received
    <3>2. Stored(Leader) \subseteq Stored(Leader)'
      <4>1. CASE Leader = n
        BY <1>5, <1>6, <4>1 DEF Stored
      <4>2. CASE Leader # n
        BY <1>4, <4>2, ReplicaAssumption DEF Stored
      <4> QED
        BY <4>1, <4>2
    <3>3. StoredHashes \subseteq StoredHashes'
      BY <3>2 DEF StoredHashes
    <3> QED
      BY <1>1, <3>1, <3>3 DEF IInv, LInv, TriggerBound
  <2> QED
    BY <2>1, <2>2
<1>12. TranOnce'
  <2>1. n = Leader => \A t \in pendingTran \cup Received :
           t.trigger # <<0, b.hash>>
    <3> SUFFICES ASSUME n = Leader, NEW t \in pendingTran \cup Received,
                        t.trigger = <<0, b.hash>>
                 PROVE  FALSE
      OBVIOUS
    <3>1. b.hash # 0
      BY <1>2 DEF IInv, BInv, HashBound, TypeOK
    <3>2. b.hash \in StoredHashes
      BY DEF IInv, LInv, TriggerBound
    <3>7. PICK c \in Stored(Leader) : c.hash = b.hash
      BY <3>1, <3>2 DEF StoredHashes
    <3>3. c \in Made
      BY <3>7, ReplicaAssumption DEF Made
    <3>4. c = b
      BY <1>2, <3>7, <3>3 DEF IInv, BInv, UniqueHash
    <3>5. PICK i \in 1..Len(chain[n]) : chain[n][i] = c
      BY <3>7 DEF Stored
    <3>6. c.index = i - 1
      BY <1>2, <3>5 DEF IInv, BInv, ChainShape
    <3> QED
      BY <1>2, <1>5, <3>4, <3>6
  <2> QED
    BY <1>1, <1>10, <2>1 DEF IInv, LInv, TranOnce, Received
<1>13. IsFiniteSet(commonTransMap)'
  BY <1>1 DEF IInv, BInv, LInv
<1> QED
  BY <1>8, <1>9, <1>11, <1>12, <1>13 DEF LInv

LEMMA ReceiveTranStep ==
    ASSUME IInv, TypeOK', NEW t \in pendingTran, ReceiveTran(t)
    PROVE  IInv'
<1> DEFINE key   == RoundKey(Leader)
           entry == [key |-> key, tran |-> t]
           old   == Filed(commonTransMap, key)
           list  == old \cup {entry}
           new   == GenerateBlock(currBlock[Leader], clock + 1)
<1>1. /\ pendingTran' = pendingTran \ {t}
      /\ commonTransMap' = commonTransMap \cup list
      /\ UNCHANGED <<currBlock, chain, times, transinblock, tmpBlock,
                     pendingInfo, verifying, verified, pendingVote1,
                     pendingVote2, storing, starts>>
  BY DEF ReceiveTran, stateVars, voteVars
<1>2. commonTransMap' = commonTransMap \cup {entry}
  BY <1>1 DEF Filed
<1>3. Received' = Received \cup {t}
  <2>1. entry.tran = t
    OBVIOUS
  <2> HIDE DEF entry
  <2> QED
    BY <1>2, <2>1 DEF Received
<1>4. t \notin Received /\ entry \notin commonTransMap
  BY DEF IInv, LInv, TranOnce, Received
<1>5. IsFiniteSet(commonTransMap)'
  BY <1>2, FS_AddElement DEF IInv, BInv, LInv
<1>6. TranOnce'
  BY <1>1, <1>3 DEF IInv, LInv, TranOnce
<1>7. TriggerBound'
  <2>1. StoredHashes' = StoredHashes
    BY <1>1 DEF StoredHashes, Stored
  <2> QED
    BY <1>1, <1>3, <2>1 DEF IInv, LInv, TriggerBound
<1>8. Filed(commonTransMap', RoundKey(Leader)') = list
  BY <1>1, <1>2 DEF Filed, RoundKey
<1>9. IsFiniteSet(old) /\ Cardinality(old) \in Nat
      /\ Cardinality(list) = Cardinality(old) + 1
  <2>1. old \subseteq commonTransMap
    BY DEF Filed
  <2>2. IsFiniteSet(old)
    BY <2>1, FS_Subset DEF IInv, BInv, LInv
  <2>3. entry \notin old
    BY <1>4, <2>1
  <2> QED
    BY <2>2, <2>3, FS_AddElement, FS_CardinalityType
<1>10. Nodes \in Nat
  BY NodesType
<1>11. ASSUME UNCHANGED <<proposals, clock>>
       PROVE  IInv'
  <2>1. BInv' /\ Made' = Made
    BY <1>1, <1>11, NoBlocksStep DEF IInv
  <2>2. OnLeader'
    BY <1>1, <2>1 DEF IInv, LInv, OnLeader
  <2>3. FiredOnce'
    <3> SUFFICES ASSUME \E b \in Made : b.index = Len(chain[Leader])
                 PROVE  Cardinality(list) >= Nodes
      BY <1>1, <1>8, <2>1 DEF FiredOnce
    <3>1. Cardinality(old) >= Nodes
      BY DEF IInv, LInv, FiredOnce
    <3> QED
      BY <1>9, <1>10, <3>1
  <2> QED
    BY <1>5, <1>6, <1>7, <2>1, <2>2, <2>3 DEF IInv, LInv
<1>12. ASSUME Full(list),
              clock' = clock + 1,
              proposals' = proposals \cup {Proposal(currBlock[Leader], clock + 1)}
       PROVE  IInv'
  <2>1. \A b \in Made : b.index < Len(chain[Leader])
    <3>1. Cardinality(old) < Nodes
      BY <1>9, <1>12 DEF Full
    <3>2. \A b \in Made : b.index # Len(chain[Leader])
      BY <1>9, <1>10, <3>1 DEF IInv, LInv, FiredOnce
    <3>3. \A b \in Made : b.index \in Nat /\ b.index <= Len(chain[Leader])
      BY MadeTypes DEF IInv, LInv, OnLeader, Block
    <3>4. Len(chain[Leader]) \in Nat
      BY ChainFacts, ReplicaAssumption DEF IInv
    <3> QED
      BY <3>2, <3>3, <3>4
  <2>2. /\ BInv' /\ Made' = Made \cup {new}
        /\ new.index = Len(chain[Leader])
    BY <1>1, <1>12, <2>1, NewBlockStep DEF IInv
  <2>3. OnLeader'
    <3>1. Len(chain[Leader]) \in Nat
      BY ChainFacts, ReplicaAssumption DEF IInv
    <3> QED
      BY <1>1, <2>2, <3>1 DEF IInv, LInv, OnLeader
  <2>4. FiredOnce'
    BY <1>8, <1>10, <1>12 DEF FiredOnce, Full
  <2> QED
    BY <1>5, <1>6, <1>7, <2>2, <2>3, <2>4 DEF IInv, LInv
<1> QED
  BY <1>11, <1>12 DEF ReceiveTran

LEMMA InitIInv == Init => IInv /\ Made \subseteq {Genesis}
<1> SUFFICES ASSUME Init PROVE IInv /\ Made \subseteq {Genesis}
  OBVIOUS
<1>1. TypeOK
  BY InitType
<1>2. /\ currBlock = [n \in Replica |-> Genesis]
      /\ tmpBlock = [n \in Replica |-> NoBlock]
      /\ chain = [n \in Replica |-> <<Genesis>>]
      /\ commonTransMap = {} /\ proposals = {} /\ verifying = {}
      /\ verified = {} /\ pendingVote1 = {} /\ pendingVote2 = {}
      /\ storing = {} /\ clock = 1 /\ pendingInfo = {} /\ pendingTran = {}
  BY DEF Init, Fresh, Genesis
<1>3. InHand = {} /\ Received = {}
  BY <1>2 DEF InHand, Received
<1>4. \A n \in Replica : Stored(n) = {Genesis}
  BY <1>2 DEF Stored
<1>5. Made \subseteq {Genesis}
  BY <1>2, <1>3, <1>4 DEF Made
<1>6. ChainShape
  BY <1>2 DEF ChainShape, Genesis
<1>7. Linked /\ PrevBound /\ HashBound /\ UniqueHash /\ UniqueIndex
  BY <1>2, <1>5
  DEF Linked, PrevBound, HashBound, UniqueHash, UniqueIndex, Genesis
<1>8. OnLeader /\ FiredOnce
  <2>1. Len(chain[Leader]) = 1
    BY <1>2, ReplicaAssumption
  <2> QED
    BY <1>5, <2>1 DEF OnLeader, FiredOnce, Genesis
<1>9. TmpNext /\ InHandNext /\ InHandOnce /\ Undelivered /\ OneBroadcast
  BY <1>2, <1>3
  DEF TmpNext, InHandNext, InHandOnce, Undelivered, OneBroadcast
<1>10. HashSet /\ TranOnce /\ TriggerBound /\ IsFiniteSet(commonTransMap)
  BY <1>2, <1>3, FS_EmptySet DEF HashSet, TranOnce, TriggerBound
<1> QED
  BY <1>1, <1>5, <1>6, <1>7, <1>8, <1>9, <1>10 DEF IInv, BInv, LInv

LEMMA NextIInv == IInv /\ [Next]_vars => IInv'
<1> SUFFICES ASSUME IInv, [Next]_vars PROVE IInv'
  OBVIOUS
<1>1. TypeOK'
  BY NextType DEF IInv, BInv
<1>2. CASE UNCHANGED vars
  <2>1. BInv' /\ Made' = Made
    BY <1>1, <1>2, NoBlocksStep DEF IInv, vars, stateVars, voteVars
  <2> QED
    BY <1>2, <2>1, LeaderFrame DEF IInv, vars, stateVars, tallyVars
<1>3. CASE SendTxs
  BY <1>1, <1>3, SendTxsBlocks, SendTxsLeads DEF IInv
<1>4. ASSUME NEW g \in pendingInfo, SendTransV2(g) PROVE IInv'
  <2>1. BInv' /\ Made' = Made
    BY <1>1, <1>4, NoBlocksStep DEF IInv, SendTransV2, stateVars, voteVars
  <2> QED
    BY <1>4, <2>1, SendTransLeads DEF IInv
<1>5. ASSUME Handlers,
             UNCHANGED <<chain, times, transinblock, commonTransMap,
                         pendingInfo, pendingTran, starts>>
      PROVE  IInv'
  BY <1>1, <1>5, HandlerBlocks, LeaderFrame DEF IInv
<1>6. ASSUME NEW s \in storing, StoreBlock(s) PROVE IInv'
  <2>1. BInv' /\ Made' \subseteq Made
    BY <1>1, <1>6, StoreBlockBlocks DEF IInv
  <2>2. CASE Open(s.at, s.hash)
    BY <1>6, <2>1, <2>2, StoreLeads DEF IInv
  <2>3. CASE ~Open(s.at, s.hash)
    BY <1>6, <2>1, <2>3, LeaderFrame DEF IInv, StoreBlock, stateVars, tallyVars
  <2> QED
    BY <2>2, <2>3
<1>7. CASE Handlers
  BY <1>4, <1>5, <1>6, <1>7
  DEF Handlers, RecBlock, LoseBlock, Verify, SetTmpB, Vote1, Vote2, stateVars,
      tallyVars
<1> QED
  BY <1>1, <1>2, <1>3, <1>7, ReceiveTranStep DEF Next, System

(* The leader makes one block per round, and every block is made on top of *)
(* the leader's chain: the invariant of ConsensusInvariant.tla.            *)
THEOREM InvariantHolds == Spec => []IInv
<1>1. Init => IInv  BY InitIInv
<1>2. IInv /\ [Next]_vars => IInv'  BY NextIInv
<1> QED  BY <1>1, <1>2, PTL DEF Spec

(* Two blocks with one index are one block. *)
LEMMA AgreementFollows == BInv => Agreement
<1> SUFFICES ASSUME BInv, NEW m \in Replica, NEW n \in Replica,
                    NEW i \in 1..Height(m), i <= Height(n)
             PROVE  chain[m][i] = chain[n][i]
  BY DEF Agreement
<1>1. i \in 1..Len(chain[m]) /\ i \in 1..Len(chain[n])
  BY ChainFacts DEF Height
<1>2. chain[m][i] \in Made /\ chain[n][i] \in Made
  BY <1>1, ChainFacts
<1>3. chain[m][i].index = chain[n][i].index
  BY <1>1, ChainFacts
<1> QED
  BY <1>2, <1>3 DEF BInv, UniqueIndex

LEMMA ChainLinkedFollows == BInv => ChainLinked
<1> SUFFICES ASSUME BInv, NEW n \in Replica, NEW i \in 1..Height(n) - 1
             PROVE  /\ chain[n][i + 1].prev = chain[n][i].hash
                    /\ chain[n][i + 1].index = chain[n][i].index + 1
  BY DEF ChainLinked
<1>1. Height(n) \in Nat
  BY ChainFacts DEF Height
<1>2. i \in 1..Len(chain[n]) /\ i + 1 \in 1..Len(chain[n])
  BY <1>1 DEF Height
<1>3. /\ chain[n][i] \in Made /\ chain[n][i + 1] \in Made
      /\ chain[n][i].index = i - 1 /\ chain[n][i + 1].index = i + 1 - 1
  BY <1>2, ChainFacts
<1> QED
  BY <1>3 DEF BInv, Linked

(* Replicas never store different blocks at one height, although a vote    *)
(* carries no height and CheckAndStore compares none.                      *)
THEOREM AgreementHolds == Spec => []Agreement
<1>1. IInv => Agreement
  BY AgreementFollows DEF IInv
<1> QED
  BY <1>1, InvariantHolds, PTL

(* What a replica stores extends what it stored before, although           *)
(* CheckAndStore does not look at PrevHash.                                *)
THEOREM ChainLinkedHolds == Spec => []ChainLinked
<1>1. IInv => ChainLinked
  BY ChainLinkedFollows DEF IInv
<1> QED
  BY <1>1, InvariantHolds, PTL

(* SetTmpB, which writes tmpBlock without a condition, meets a block that  *)
(* is stored, or none.                                                     *)
LEMMA TakenUpKept ==
    ASSUME BInv, [Next]_vars
    PROVE  \A n \in Replica :
              tmpBlock'[n] # tmpBlock[n] => tmpBlock[n] \in {NoBlock, currBlock[n]}
<1> DEFINE Kept == \A n \in Replica :
                     tmpBlock'[n] # tmpBlock[n] =>
                        tmpBlock[n] \in {NoBlock, currBlock[n]}
<1>1. ASSUME NEW g \in verified, SetTmpB(g) PROVE Kept
  <2>1. g.at \in Replica /\ g \in verified
    BY DEF BInv, TypeOK
  <2> DEFINE taken == [at |-> g.at, block |-> g.block]
  <2>2. taken \in InHand
    BY DEF InHand
  <2>3. g.block \in Made
    BY <2>2, MadeParts
  <2>4. \A n \in Replica : n # g.at => tmpBlock'[n] = tmpBlock[n]
    BY <1>1 DEF SetTmpB, BInv, TypeOK
  <2>5. \/ tmpBlock[g.at] \in {NoBlock, currBlock[g.at]}
        \/ tmpBlock[g.at].index = currBlock[g.at].index + 1
    BY <2>1 DEF BInv, TmpNext
  <2>6. tmpBlock[g.at] \in {NoBlock, currBlock[g.at]}
    <3> SUFFICES ASSUME tmpBlock[g.at] # NoBlock,
                        tmpBlock[g.at].index = currBlock[g.at].index + 1
                 PROVE  FALSE
      BY <2>5
    <3>1. g.block.index = currBlock[g.at].index + 1 /\ tmpBlock[g.at] # g.block
      BY <2>2 DEF BInv, InHandNext
    <3>2. tmpBlock[g.at] \in Made
      BY <2>1, MadeParts
    <3> QED
      BY <2>3, <3>1, <3>2 DEF BInv, UniqueIndex
  <2> QED
    BY <2>4, <2>6
<1>2. CASE UNCHANGED tmpBlock
  BY <1>2
<1>3. CASE UNCHANGED vars
  BY <1>2, <1>3 DEF vars
<1>4. CASE Next
  BY <1>1, <1>2, <1>4
  DEF Next, System, Handlers, SendTxs, SendTransV2, RecBlock, LoseBlock,
      Verify, Vote1, Vote2, StoreBlock, ReceiveTran
<1> QED
  BY <1>3, <1>4

(* SetTmpB never overwrites a block that was taken up and not stored. *)
THEOREM NoUnstoredOverwriteHolds == Spec => NoUnstoredOverwrite
<1> DEFINE Kept == \A n \in Replica :
                      tmpBlock'[n] # tmpBlock[n] =>
                         tmpBlock[n] \in {NoBlock, currBlock[n]}
<1>1. IInv /\ [Next]_vars => [Kept]_vars
  BY TakenUpKept DEF IInv
<1>2. [][Kept]_vars => NoUnstoredOverwrite
  BY PTL DEF NoUnstoredOverwrite
<1> QED
  BY <1>1, <1>2, InvariantHolds, PTL DEF Spec

----------------------------------------------------------------------------
(* HInv is inductive: a full tally means that every replica voted, and a   *)
(* replica that voted for a block holds it until it has stored it.  From   *)
(* it follow StoredIsHeldByAll, SkewAtMostOne and NoDissent, and that the  *)
(* chains implement Ledger, whether or not posts fail.                     *)

(* A replica holds on to what it holds. *)
LEMMA StoredGrows ==
    ASSUME BInv, [Next]_vars, NEW n \in Replica
    PROVE  Stored(n) \subseteq Stored(n)'
<1>1. CASE UNCHANGED chain
  BY <1>1 DEF Stored
<1>2. ASSUME NEW s \in storing, Store(s.at)
      PROVE  Stored(n) \subseteq Stored(n)'
  <2>1. s.at \in Replica /\ tmpBlock[s.at] \in Block
    BY DEF BInv, TypeOK
  <2>2. chain' = [chain EXCEPT ![s.at] = Append(@, tmpBlock[s.at])]
    BY <1>2 DEF Store
  <2>3. chain[n] \in Seq(Block)
    BY ChainFacts
  <2>4. \/ chain'[n] = chain[n]
        \/ chain'[n] = Append(chain[n], tmpBlock[s.at])
    BY <2>1, <2>2 DEF BInv, TypeOK
  <2>5. /\ Len(chain'[n]) \in Nat
        /\ Len(chain[n]) \in Nat
        /\ Len(chain[n]) <= Len(chain'[n])
        /\ \A i \in 1..Len(chain[n]) : chain'[n][i] = chain[n][i]
    BY <2>1, <2>3, <2>4
  <2> QED
    BY <2>5 DEF Stored
<1>3. CASE UNCHANGED vars
  BY <1>1, <1>3 DEF vars, stateVars
<1>4. CASE Next
  BY <1>1, <1>2, <1>4
  DEF Next, System, Handlers, SendTxs, SendTransV2, RecBlock, LoseBlock, Verify,
      SetTmpB, Vote1, Vote2, StoreBlock, ReceiveTran, stateVars
<1> QED
  BY <1>3, <1>4

LEMMA HoldsKept ==
    ASSUME BInv, [Next]_vars
    PROVE  \A n \in Replica : \A hash : Holds(n, hash) => Holds(n, hash)'
<1> SUFFICES ASSUME NEW n \in Replica, NEW hash, Holds(n, hash)
             PROVE  Holds(n, hash)'
  OBVIOUS
<1>1. PICK b \in Stored(n) \cup {tmpBlock[n]} : b # NoBlock /\ b.hash = hash
  BY DEF Holds
<1>2. Stored(n) \subseteq Stored(n)'
  BY StoredGrows
<1>3. currBlock[n] \in Stored(n)
  <2>1. Len(chain[n]) \in 1..Len(chain[n])
    BY ChainFacts
  <2> QED
    BY <2>1, ChainFacts DEF Stored
<1>4. tmpBlock'[n] = tmpBlock[n] \/ tmpBlock[n] \in {NoBlock, currBlock[n]}
  BY TakenUpKept
<1>5. b \in Stored(n)' \cup {tmpBlock'[n]}
  BY <1>1, <1>2, <1>3, <1>4
<1> QED
  BY <1>1, <1>5 DEF Holds

(* The votes of a full unanimous tally come from all replicas: entries of  *)
(* one key with one vote differ in their senders only.                     *)
LEMMA UnanimousMeansAll ==
    ASSUME NEW votes, NEW key, IsFiniteSet(votes), votes \subseteq Entry,
           Full(votes), \A e \in votes : e.key = key /\ e.vote
    PROVE  \A n \in Replica : \E e \in votes : e.from = n
<1> DEFINE sender == [e \in votes |-> e.from]
<1>1. sender \in [votes -> Replica]
  BY DEF Entry
<1>2. \A d, e \in votes : sender[d] = sender[e] => d = e
  BY DEF Entry
<1>3. Cardinality(votes) >= Nodes
  BY NodesType DEF Full
<1> HIDE DEF sender
<1>4. \A n \in Replica : \E e \in votes : sender[e] = n
  BY <1>1, <1>2, <1>3, AllReplicas
<1> QED
  BY <1>4 DEF sender

LEMMA InitHInv == Init => HInv
<1> SUFFICES ASSUME Init PROVE HInv
  OBVIOUS
<1>1. BInv
  BY InitIInv DEF IInv
<1>2. /\ verified = {} /\ pendingVote1 = {} /\ pendingVote2 = {}
      /\ storing = {} /\ round1Map = [n \in Replica |-> {}]
      /\ chain = [n \in Replica |-> <<Genesis>>]
  BY DEF Init, Fresh
<1>3. NoDissent /\ VotersHold
  BY <1>2 DEF NoDissent, VotersHold
<1>4. \A n \in Replica : IsFiniteSet(round1Map[n])
  BY <1>2, FS_EmptySet
<1>5. \A n \in Replica : Stored(n) = {Genesis}
  BY <1>2 DEF Stored
<1>6. AllHold
  BY <1>2, <1>5 DEF AllHold, Holds, Genesis, NoBlock
<1> QED
  BY <1>1, <1>3, <1>4, <1>6 DEF HInv

(* A step that files and sends no vote, and stores no block. *)
LEMMA VotesFrame ==
    ASSUME HInv, BInv', [Next]_vars,
           \A g \in verified' : g.vote,
           pendingVote1' \subseteq pendingVote1,
           pendingVote2' \subseteq pendingVote2,
           storing' \subseteq storing,
           UNCHANGED <<round1Map, chain>>
    PROVE  HInv'
<1>1. NoDissent'
  BY DEF HInv, NoDissent
<1>2. VotersHold'
  <2>1. \A v \in pendingVote1 : v.from \in Replica
    BY DEF HInv, BInv, TypeOK, Vote
  <2>2. \A n \in Replica : \A e \in round1Map[n] : e.from \in Replica
    BY DEF HInv, BInv, TypeOK, Entry
  <2> QED
    BY <2>1, <2>2, HoldsKept DEF HInv, VotersHold
<1>3. AllHold'
  <2>1. \A n \in Replica : Stored(n)' = Stored(n)
    BY DEF Stored
  <2> QED
    BY <2>1, HoldsKept DEF HInv, AllHold
<1> QED
  BY <1>1, <1>2, <1>3 DEF HInv

(* The block a replica verifies extends its current block, so it votes for *)
(* it.                                                                     *)
LEMMA VerifyHolds ==
    ASSUME HInv, BInv', [Next]_vars, NEW g \in verifying, Verify(g)
    PROVE  HInv'
<1>1. g \in InHand /\ g.at \in Replica
  <2>1. g = [at |-> g.at, block |-> g.block] /\ g.at \in Replica
    BY DEF HInv, BInv, TypeOK
  <2> QED
    BY <2>1 DEF InHand
<1>2. g.block \in Made /\ g.block.index = currBlock[g.at].index + 1
  BY <1>1, MadeParts DEF HInv, BInv, InHandNext
<1>3. Extends(g.at, g.block)
  BY <1>1, <1>2, ExtendsNext DEF HInv
<1>4. \A h \in verified' : h.vote
  BY <1>3 DEF Verify, HInv, NoDissent
<1> QED
  BY <1>4, VotesFrame DEF Verify, tallyVars, stateVars

(* A replica casts its first vote in the step that takes the block up. *)
LEMMA SetTmpBHolds ==
    ASSUME HInv, BInv', [Next]_vars, NEW g \in verified, SetTmpB(g)
    PROVE  HInv'
<1>1. /\ verified' \subseteq verified
      /\ tmpBlock' = [tmpBlock EXCEPT ![g.at] = g.block]
      /\ UNCHANGED <<chain, round1Map, pendingVote2, storing>>
  BY DEF SetTmpB, tallyVars, stateVars
<1>2. g.at \in Replica /\ g.vote
  BY DEF HInv, BInv, TypeOK, NoDissent
<1>3. \A v \in pendingVote1' :
         \/ v \in pendingVote1
         \/ v.from = g.at /\ v.hash = g.block.hash /\ v.vote
  BY <1>2 DEF SetTmpB
<1>4. g.block # NoBlock
  <2>1. [at |-> g.at, block |-> g.block] \in InHand
    BY DEF InHand
  <2>2. g.block \in Made
    BY <2>1, MadeParts
  <2> QED
    BY <2>2 DEF HInv, BInv, HashBound, NoBlock
<1>5. Holds(g.at, g.block.hash)'
  BY <1>1, <1>2, <1>4 DEF Holds, HInv, BInv, TypeOK
<1>6. NoDissent'
  BY <1>1, <1>3 DEF HInv, NoDissent
<1>7. VotersHold'
  <2>1. \A v \in pendingVote1 : v.from \in Replica
    BY DEF HInv, BInv, TypeOK, Vote
  <2>2. \A n \in Replica : \A e \in round1Map[n] : e.from \in Replica
    BY DEF HInv, BInv, TypeOK, Entry
  <2>3. \A v \in pendingVote1' : Holds(v.from, v.hash)'
    BY <1>3, <1>5, <2>1, HoldsKept DEF HInv, VotersHold
  <2>4. \A n \in Replica : \A e \in round1Map'[n] :
           e.vote /\ Holds(e.from, e.key[3])'
    BY <1>1, <2>2, HoldsKept DEF HInv, VotersHold
  <2> QED
    BY <2>3, <2>4 DEF VotersHold
<1>8. AllHold'
  <2>1. \A n \in Replica : Stored(n)' = Stored(n)
    BY <1>1 DEF Stored
  <2> QED
    BY <1>1, <2>1, HoldsKept DEF HInv, AllHold
<1>9. \A n \in Replica : IsFiniteSet(round1Map'[n])
  BY <1>1 DEF HInv
<1> QED
  BY <1>6, <1>7, <1>8, <1>9 DEF HInv

(* The vote that fills the first tally: all replicas hold the block, and   *)
(* the revote is in favour.                                                *)
LEMMA Vote1Holds ==
    ASSUME HInv, BInv', [Next]_vars, NEW v \in pendingVote1, Vote1(v)
    PROVE  HInv'
<1> DEFINE key   == VoteKey(v.at, v.hash)
           entry == [key |-> key, from |-> v.from, vote |-> v.vote]
           votes == Filed(round1Map[v.at], key) \cup {entry}
           re    == Enough(Cardinality({e \in votes : e.vote}))
<1>1. /\ pendingVote1' = pendingVote1 \ {v}
      /\ round1Map' = [round1Map EXCEPT ![v.at] = @ \cup {entry}]
      /\ UNCHANGED <<chain, verified, storing>>
  BY DEF Vote1, stateVars
<1>2. /\ v.at \in Replica /\ v.from \in Replica
      /\ v.hash \in Nat /\ v.vote \in BOOLEAN
  BY DEF HInv, BInv, TypeOK, Vote
<1>3. v.vote /\ Holds(v.from, v.hash)
  BY DEF HInv, NoDissent, VotersHold
<1>4. key \in Key /\ key[3] = v.hash /\ entry \in Entry
  <2>1. key \in Key
    BY <1>2, KeyTypes DEF HInv, BInv
  <2>2. key[3] = v.hash
    BY DEF VoteKey
  <2> QED
    BY <1>2, <2>1, <2>2 DEF Entry
<1>5. /\ entry.key = key /\ entry.vote
      /\ entry.from = v.from /\ Holds(entry.from, entry.key[3])
  BY <1>3, <1>4
<1>6. \A n \in Replica : \A e \in round1Map'[n] : e \in round1Map[n] \/ e = entry
  BY <1>1, <1>2 DEF HInv, BInv, TypeOK
<1>7. \A n \in Replica : IsFiniteSet(round1Map'[n])
  <2>1. IsFiniteSet(round1Map[v.at] \cup {entry})
    BY <1>2, FS_AddElement DEF HInv
  <2> HIDE DEF entry
  <2> QED
    BY <1>1, <1>2, <2>1 DEF HInv, BInv, TypeOK
<1>8. IsFiniteSet(votes) /\ votes \subseteq Entry
  <2>1. Filed(round1Map[v.at], key) \subseteq round1Map[v.at]
    BY DEF Filed
  <2>2. IsFiniteSet(Filed(round1Map[v.at], key))
    BY <1>2, <2>1, FS_Subset DEF HInv
  <2>3. IsFiniteSet(votes)
    BY <2>2, FS_AddElement
  <2>4. round1Map[v.at] \subseteq Entry
    BY <1>2 DEF HInv, BInv, TypeOK
  <2> QED
    BY <1>4, <2>1, <2>3, <2>4
<1>9. \A e \in votes : e.key = key /\ e.vote /\ Holds(e.from, v.hash)
  <2>1. \A e \in Filed(round1Map[v.at], key) :
           e.key = key /\ e.vote /\ Holds(e.from, v.hash)
    BY <1>2, <1>4 DEF Filed, HInv, VotersHold
  <2> QED
    BY <1>4, <1>5, <2>1
<1>10. Full(votes) => re = TRUE /\ \A n \in Replica : Holds(n, v.hash)
  <2> SUFFICES ASSUME Full(votes)
               PROVE  re = TRUE /\ \A n \in Replica : Holds(n, v.hash)
    OBVIOUS
  <2>1. {e \in votes : e.vote} = votes
    BY <1>9
  <2>2. re = TRUE
    <3>1. Nodes \in Nat /\ Nodes >= 2
      BY ReplicaAssumption, FS_CardinalityType DEF Nodes
    <3>2. re = Enough(Nodes)
      BY <2>1 DEF Full
    <3> QED
      BY <3>1, <3>2 DEF Enough
  <2>3. \A n \in Replica : \E e \in votes : e.from = n
    <3> HIDE DEF votes, key
    <3> QED
      BY <1>8, <1>9, UnanimousMeansAll
  <2> QED
    BY <1>9, <2>2, <2>3
<1>11. \A w \in pendingVote2' :
          \/ w \in pendingVote2
          \/ w.vote /\ w.hash = v.hash /\ \A n \in Replica : Holds(n, v.hash)
  <2>1. CASE Full(votes)
    <3>1. PICK to \in Reach : pendingVote2' = pendingVote2 \cup
             {[at |-> n, from |-> v.at, hash |-> v.hash, vote |-> re] : n \in to}
      BY <2>1 DEF Vote1
    <3>2. re = TRUE
      BY <1>10, <2>1
    <3> HIDE DEF re
    <3>3. pendingVote2' = pendingVote2 \cup
             {[at |-> n, from |-> v.at, hash |-> v.hash, vote |-> TRUE] : n \in to}
      BY <3>1, <3>2
    <3>4. \A w \in pendingVote2' :
             w \in pendingVote2 \/ (w.vote = TRUE /\ w.hash = v.hash)
      BY <3>3
    <3>5. \A n \in Replica : Holds(n, v.hash)
      BY <1>10, <2>1
    <3> HIDE DEF votes, entry, key
    <3> QED
      BY <3>4, <3>5
  <2>2. CASE ~Full(votes)
    BY <2>2 DEF Vote1
  <2> QED
    BY <2>1, <2>2
<1> HIDE DEF entry, key, votes, re
<1>12. NoDissent'
  BY <1>1, <1>11 DEF HInv, NoDissent
<1>13. VotersHold'
  <2>1. \A w \in pendingVote1 : w.from \in Replica
    BY DEF HInv, BInv, TypeOK, Vote
  <2>2. \A n \in Replica : \A e \in round1Map[n] : e.from \in Replica
    BY DEF HInv, BInv, TypeOK, Entry
  <2>3. \A w \in pendingVote1' : Holds(w.from, w.hash)'
    BY <1>1, <2>1, HoldsKept DEF HInv, VotersHold
  <2>4. \A n \in Replica : \A e \in round1Map'[n] :
           e.vote /\ Holds(e.from, e.key[3])'
    BY <1>2, <1>5, <1>6, <2>2, HoldsKept DEF HInv, VotersHold
  <2> QED
    BY <2>3, <2>4 DEF VotersHold
<1>14. AllHold'
  <2>1. \A n \in Replica : Stored(n)' = Stored(n)
    BY <1>1 DEF Stored
  <2> QED
    BY <1>1, <1>11, <2>1, HoldsKept DEF HInv, AllHold
<1> QED
  BY <1>7, <1>12, <1>13, <1>14 DEF HInv

LEMMA Vote2Holds ==
    ASSUME HInv, BInv', [Next]_vars, NEW v \in pendingVote2, Vote2(v)
    PROVE  HInv'
<1>1. /\ pendingVote2' \subseteq pendingVote2
      /\ UNCHANGED <<chain, verified, pendingVote1, round1Map>>
  BY DEF Vote2, stateVars
<1>2. \A s \in storing' : s \in storing \/ s.hash = v.hash
  BY DEF Vote2
<1>3. NoDissent'
  BY <1>1 DEF HInv, NoDissent
<1>4. VotersHold'
  <2>1. \A w \in pendingVote1 : w.from \in Replica
    BY DEF HInv, BInv, TypeOK, Vote
  <2>2. \A n \in Replica : \A e \in round1Map[n] : e.from \in Replica
    BY DEF HInv, BInv, TypeOK, Entry
  <2> QED
    BY <1>1, <2>1, <2>2, HoldsKept DEF HInv, VotersHold
<1>5. AllHold'
  <2>1. \A n \in Replica : Stored(n)' = Stored(n)
    BY <1>1 DEF Stored
  <2>2. \A n \in Replica : Holds(n, v.hash)
    BY DEF HInv, AllHold
  <2>3. \A s \in storing' : \A n \in Replica : Holds(n, s.hash)'
    BY <1>2, <2>2, HoldsKept DEF HInv, AllHold
  <2> QED
    BY <1>1, <2>1, <2>3, HoldsKept DEF HInv, AllHold
<1>6. \A n \in Replica : IsFiniteSet(round1Map'[n])
  BY <1>1 DEF HInv
<1> QED
  BY <1>3, <1>4, <1>5, <1>6 DEF HInv

(* What is stored is the block the revotes were about, which all hold. *)
LEMMA StoreBlockHolds ==
    ASSUME HInv, BInv', [Next]_vars, NEW s \in storing, StoreBlock(s)
    PROVE  HInv'
<1>1. CASE ~Open(s.at, s.hash)
  BY <1>1, VotesFrame DEF StoreBlock, stateVars, tallyVars, HInv, NoDissent
<1>2. CASE Open(s.at, s.hash)
  <2> DEFINE b == tmpBlock[s.at]
  <2>1. /\ s.at \in Replica
        /\ b \in Made
        /\ b.hash = s.hash
    BY <1>2, OpenNext DEF HInv
  <2>2. /\ chain' = [chain EXCEPT ![s.at] = Append(@, b)]
        /\ storing' \subseteq storing
        /\ UNCHANGED <<verified, pendingVote1, pendingVote2, round1Map>>
    BY <1>2 DEF StoreBlock, Store, tallyVars
  <2>3. \A m \in Replica : \A c \in Stored(m)' : c \in Stored(m) \/ c = b
    <3> SUFFICES ASSUME NEW m \in Replica
                 PROVE  Stored(m)' \subseteq Stored(m) \cup {b}
      OBVIOUS
    <3>1. chain[m] \in Seq(Block) /\ b \in Block
      BY <2>1, ChainFacts, MadeTypes DEF HInv
    <3>2. chain'[m] = chain[m] \/ chain'[m] = Append(chain[m], b)
      BY <2>1, <2>2 DEF HInv, BInv, TypeOK
    <3> QED
      BY <3>1, <3>2 DEF Stored
  <2>4. \A n \in Replica : Holds(n, b.hash)
    BY <2>1 DEF HInv, AllHold
  <2>5. AllHold'
    <3>1. \A m, n \in Replica : \A c \in Stored(m)' : Holds(n, c.hash)'
      <4> SUFFICES ASSUME NEW m \in Replica, NEW n \in Replica,
                          NEW c \in Stored(m)'
                   PROVE  Holds(n, c.hash)'
        OBVIOUS
      <4>1. Holds(n, c.hash)
        BY <2>3, <2>4 DEF HInv, AllHold
      <4> QED
        BY <4>1, HoldsKept DEF HInv
    <3> QED
      BY <2>2, <3>1, HoldsKept DEF HInv, AllHold
  <2>6. VotersHold'
    <3>1. \A w \in pendingVote1 : w.from \in Replica
      BY DEF HInv, BInv, TypeOK, Vote
    <3>2. \A n \in Replica : \A e \in round1Map[n] : e.from \in Replica
      BY DEF HInv, BInv, TypeOK, Entry
    <3> QED
      BY <2>2, <3>1, <3>2, HoldsKept DEF HInv, VotersHold
  <2>7. NoDissent'
    BY <2>2 DEF HInv, NoDissent
  <2>8. \A n \in Replica : IsFiniteSet(round1Map'[n])
    BY <2>2 DEF HInv
  <2> QED
    BY <2>5, <2>6, <2>7, <2>8 DEF HInv
<1> QED
  BY <1>1, <1>2

LEMMA NextHInv == HInv /\ BInv' /\ [Next]_vars => HInv'
<1> SUFFICES ASSUME HInv, BInv', [Next]_vars PROVE HInv'
  OBVIOUS
<1>1. \A g \in verified : g.vote
  BY DEF HInv, NoDissent
<1>2. ASSUME UNCHANGED <<verified, round1Map, chain, pendingVote1, pendingVote2,
                         storing>>
      PROVE  HInv'
  BY <1>1, <1>2, VotesFrame
<1>3. CASE UNCHANGED vars
  BY <1>2, <1>3 DEF vars, stateVars, tallyVars, voteVars
<1>4. CASE SendTxs
  BY <1>2, <1>4 DEF SendTxs, stateVars, tallyVars, voteVars
<1>5. ASSUME NEW g \in pendingInfo, SendTransV2(g) PROVE HInv'
  BY <1>2, <1>5 DEF SendTransV2, stateVars, tallyVars, voteVars
<1>6. ASSUME NEW p \in proposals, RecBlock(p) \/ LoseBlock(p) PROVE HInv'
  BY <1>2, <1>6 DEF RecBlock, LoseBlock, stateVars, tallyVars, voteVars
<1>7. ASSUME NEW t \in pendingTran, ReceiveTran(t) PROVE HInv'
  BY <1>2, <1>7 DEF ReceiveTran, stateVars, voteVars
<1>8. CASE Next
  BY <1>4, <1>5, <1>6, <1>7, <1>8, VerifyHolds, SetTmpBHolds, Vote1Holds,
     Vote2Holds, StoreBlockHolds DEF Next, System, Handlers
<1> QED
  BY <1>3, <1>8

(* Voters hold what they vote for, and what is revoted for or stored all   *)
(* hold.                                                                   *)
THEOREM HoldsInvariant == Spec => []HInv
<1>1. Init => HInv  BY InitHInv
<1>2. HInv /\ BInv' /\ [Next]_vars => HInv'  BY NextHInv
<1>3. IInv => BInv  BY DEF IInv
<1> QED  BY <1>1, <1>2, <1>3, InvariantHolds, PTL DEF Spec

(* Nobody votes against a block: Checkblock in the handler and GetCurrB in *)
(* the goroutine see the same current block.                               *)
THEOREM NoDissentHolds == Spec => []NoDissent
<1>1. HInv => NoDissent
  BY DEF HInv
<1> QED
  BY <1>1, HoldsInvariant, PTL

(* What a replica stored and another did not is in the other's tmpBlock,   *)
(* and is the next block there.                                            *)
LEMMA AheadMeansHeld ==
    ASSUME HInv, NEW m \in Replica, NEW n \in Replica,
           NEW i \in 1..Height(m), i > Height(n)
    PROVE  tmpBlock[n] = chain[m][i] /\ i = Height(n) + 1
<1> DEFINE c == chain[m][i]
<1>1. i \in 1..Len(chain[m]) /\ i \in Nat /\ i > Len(chain[n])
      /\ Len(chain[n]) \in Nat
  BY ChainFacts DEF HInv, Height
<1>2. c \in Made /\ c.index = i - 1
  BY <1>1, ChainFacts DEF HInv
<1>3. Holds(n, c.hash)
  BY <1>1 DEF HInv, AllHold, Stored
<1>4. PICK b \in Stored(n) \cup {tmpBlock[n]} : b # NoBlock /\ b.hash = c.hash
  BY <1>3 DEF Holds
<1>5. b \in Made
  BY <1>4, MadeParts
<1>6. b = c
  BY <1>2, <1>4, <1>5 DEF HInv, BInv, UniqueHash
<1>7. c \notin Stored(n)
  <2> SUFFICES ASSUME NEW j \in 1..Len(chain[n]), chain[n][j] = c
               PROVE  FALSE
    BY DEF Stored
  <2>1. chain[n][j].index = j - 1
    BY ChainFacts DEF HInv
  <2> QED
    BY <1>1, <1>2, <2>1
<1>8. tmpBlock[n] = c /\ c # NoBlock
  BY <1>4, <1>6, <1>7
<1>9. currBlock[n] \in Stored(n) /\ currBlock[n].index = Len(chain[n]) - 1
  <2>1. Len(chain[n]) \in 1..Len(chain[n])
    BY ChainFacts DEF HInv
  <2> QED
    BY <2>1, ChainFacts DEF HInv, Stored
<1>10. tmpBlock[n].index = currBlock[n].index + 1
  BY <1>7, <1>8, <1>9 DEF HInv, BInv, TmpNext
<1> QED
  BY <1>1, <1>2, <1>8, <1>9, <1>10 DEF Height

LEMMA HeldFollows == HInv => StoredIsHeldByAll
<1> SUFFICES ASSUME HInv, NEW m \in Replica, NEW n \in Replica,
                    NEW i \in 2..Height(m), ~(i <= Height(n))
             PROVE  tmpBlock[n] = chain[m][i]
  BY DEF StoredIsHeldByAll
<1>1. Height(m) \in Nat /\ Height(n) \in Nat
  BY ChainFacts DEF HInv, Height
<1>2. i \in 1..Height(m) /\ i > Height(n)
  BY <1>1
<1> QED
  BY <1>2, AheadMeansHeld

LEMMA SkewFollows == HInv => SkewAtMostOne
<1> SUFFICES ASSUME HInv, NEW m \in Replica, NEW n \in Replica,
                    ~(Height(m) <= Height(n) + 1)
             PROVE  FALSE
  BY DEF SkewAtMostOne
<1>1. Height(m) \in Nat \ {0} /\ Height(n) \in Nat
  BY ChainFacts DEF HInv, Height
<1>2. Height(m) \in 1..Height(m) /\ Height(m) > Height(n)
  BY <1>1
<1>3. Height(m) = Height(n) + 1
  BY <1>2, AheadMeansHeld
<1> QED
  BY <1>1, <1>3

(* A block one replica has stored, the others have stored or hold in       *)
(* tmpBlock, also when posts of blocks and votes fail.                     *)
THEOREM StoredIsHeldByAllHolds == Spec => []StoredIsHeldByAll
BY HoldsInvariant, HeldFollows, PTL

(* No replica is two blocks ahead of another. *)
THEOREM SkewAtMostOneHolds == Spec => []SkewAtMostOne
BY HoldsInvariant, SkewFollows, PTL

LEMMA InitAbstract == Init => Abstract!Init
BY DEF Init, Fresh, Abstract!Init

(* A store is a commit when all replicas are level, and otherwise catches  *)
(* up with a replica that is one block ahead.                              *)
LEMMA StoreAbstract ==
    ASSUME HInv, NEW s \in storing, StoreBlock(s), Open(s.at, s.hash)
    PROVE  Abstract!Commit(s.at) \/ Abstract!CatchUp(s.at)
<1> DEFINE n == s.at
           b == tmpBlock[n]
<1>1. /\ n \in Replica /\ b \in Made /\ b # NoBlock /\ b.hash = s.hash
      /\ b.index = currBlock[n].index + 1
      /\ b.index = Len(chain[n])
  BY OpenNext DEF HInv
<1>2. /\ chain[n] \in Seq(Block) /\ b \in Block
      /\ Len(chain[n]) \in Nat \ {0}
      /\ currBlock[n] = chain[n][Len(chain[n])]
  BY <1>1, ChainFacts, MadeTypes DEF HInv
<1>3. chain' = [chain EXCEPT ![n] = Append(@, b)]
  BY DEF StoreBlock, Store
<1>4. chain'[n] = Append(chain[n], b)
  BY <1>1, <1>3 DEF HInv, BInv, TypeOK
<1>5. Abstract!OnlyChanges(n)
  BY <1>3, <1>4 DEF Abstract!OnlyChanges
<1>6. /\ Len(chain'[n]) = Len(chain[n]) + 1
      /\ \A i \in 1..Len(chain[n]) : chain'[n][i] = chain[n][i]
      /\ chain'[n][Len(chain[n]) + 1] = b
  BY <1>2, <1>4
<1>7. Abstract!OneLonger(chain[n], chain'[n])
  BY <1>6 DEF Abstract!OneLonger
<1>8. Abstract!Linked(chain'[n])
  <2>1. currBlock[n] \in Made /\ currBlock[n].index \in Nat
    BY <1>1, <1>2, ChainFacts DEF HInv
  <2>2. b.prev = currBlock[n].hash
    BY <1>1, <2>1 DEF HInv, BInv, Linked
  <2>3. chain'[n][Len(chain[n])] = currBlock[n]
    BY <1>2, <1>6
  <2> QED
    BY <1>1, <1>2, <1>6, <2>2, <2>3 DEF Abstract!Linked
<1>9. \A m \in Replica : Len(chain[m]) \in Nat
  BY ChainFacts DEF HInv
<1>10. CASE \E m \in Replica : Len(chain[m]) > Len(chain[n])
  <2>1. PICK m \in Replica : Len(chain[m]) > Len(chain[n])
    BY <1>10
  <2>2. Len(chain[m]) = Len(chain[n]) + 1 /\ b = chain[m][Len(chain[m])]
    <3>1. Len(chain[m]) \in 1..Height(m) /\ Len(chain[m]) > Height(n)
      BY <1>2, <1>9, <2>1 DEF Height
    <3> QED
      BY <1>1, <3>1, AheadMeansHeld DEF Height
  <2>3. \A i \in 1..Len(chain[n]) : chain[m][i] = chain[n][i]
    <3>1. Agreement
      BY AgreementFollows DEF HInv
    <3> QED
      BY <1>1, <1>9, <2>2, <3>1 DEF Agreement, Height
  <2>4. chain[m] \in Seq(Block) /\ chain'[n] \in Seq(Block)
    BY <1>2, <1>4, ChainFacts DEF HInv
  <2>5. Len(chain'[n]) = Len(chain[m])
    BY <1>6, <2>2
  <2>6. \A i \in 1..Len(chain[m]) : chain'[n][i] = chain[m][i]
    <3>1. \A i \in 1..Len(chain[m]) :
             i \in 1..Len(chain[n]) \/ i = Len(chain[n]) + 1
      BY <1>9, <2>2
    <3> QED
      BY <1>6, <2>2, <2>3, <3>1
  <2>7. chain'[n] = chain[m]
    BY <2>4, <2>5, <2>6
  <2> QED
    BY <1>5, <1>7, <2>7 DEF Abstract!CatchUp
<1>11. CASE ~ \E m \in Replica : Len(chain[m]) > Len(chain[n])
  <2>1. ASSUME NEW m \in Replica
        PROVE  Len(chain[m]) = Len(chain[n])
    <3>1. PICK c \in Stored(m) \cup {tmpBlock[m]} : c # NoBlock /\ c.hash = b.hash
      BY <1>1 DEF HInv, AllHold, Holds
    <3>2. c = b
      <4>1. c \in Made
        BY <3>1, MadeParts
      <4> QED
        BY <1>1, <3>1, <4>1 DEF HInv, BInv, UniqueHash
    <3>3. b \notin Stored(m)
      <4> SUFFICES ASSUME NEW j \in 1..Len(chain[m]), chain[m][j] = b
                   PROVE  FALSE
        BY DEF Stored
      <4>1. b.index = j - 1
        BY ChainFacts DEF HInv
      <4> QED
        BY <1>1, <1>2, <1>9, <1>11, <4>1
    <3>4. tmpBlock[m] = b
      BY <3>1, <3>2, <3>3
    <3>5. currBlock[m] \in Stored(m) /\ currBlock[m].index = Len(chain[m]) - 1
      <4>1. Len(chain[m]) \in 1..Len(chain[m])
        BY ChainFacts DEF HInv
      <4> QED
        BY <4>1, ChainFacts DEF HInv, Stored
    <3>6. b.index = currBlock[m].index + 1
      BY <1>1, <3>3, <3>4, <3>5 DEF HInv, BInv, TmpNext
    <3> QED
      BY <1>1, <1>9, <3>5, <3>6
  <2>2. \A m \in Replica : chain[m] = chain[n]
    <3> SUFFICES ASSUME NEW m \in Replica PROVE chain[m] = chain[n]
      OBVIOUS
    <3>1. chain[m] \in Seq(Block) /\ Len(chain[m]) = Len(chain[n])
      BY <2>1, ChainFacts DEF HInv
    <3>2. \A i \in 1..Len(chain[m]) : chain[m][i] = chain[n][i]
      <4>1. Agreement
        BY AgreementFollows DEF HInv
      <4> QED
        BY <1>1, <1>9, <3>1, <4>1 DEF Agreement, Height
    <3> QED
      BY <1>2, <3>1, <3>2
  <2> QED
    BY <1>5, <1>7, <1>8, <2>2 DEF Abstract!Commit
<1> QED
  BY <1>10, <1>11

LEMMA NextAbstract == HInv /\ [Next]_vars => [Abstract!Next]_chain
<1> SUFFICES ASSUME HInv, [Next]_vars PROVE [Abstract!Next]_chain
  OBVIOUS
<1>1. ASSUME NEW s \in storing, StoreBlock(s) PROVE [Abstract!Next]_chain
  <2>1. CASE Open(s.at, s.hash)
    <3>1. s.at \in Replica
      BY DEF HInv, BInv, TypeOK
    <3> QED
      BY <1>1, <2>1, <3>1, StoreAbstract DEF Abstract!Next
  <2>2. CASE ~Open(s.at, s.hash)
    BY <1>1, <2>2 DEF StoreBlock, stateVars
  <2> QED
    BY <2>1, <2>2
<1>2. CASE UNCHANGED chain
  BY <1>2
<1>3. CASE UNCHANGED vars
  BY <1>2, <1>3 DEF vars, stateVars
<1>4. CASE Next
  BY <1>1, <1>2, <1>4
  DEF Next, System, Handlers, SendTxs, SendTransV2, RecBlock, LoseBlock, Verify,
      SetTmpB, Vote1, Vote2, ReceiveTran, stateVars
<1> QED
  BY <1>3, <1>4

(* The block round implements the ledger: the replicas' chains are one     *)
(* chain of linked blocks, stored in lockstep.                             *)
THEOREM LedgerImplemented == Spec => ImplementsLedger
<1>1. Init => Abstract!Init
  BY InitAbstract
<1>2. HInv /\ [Next]_vars => [Abstract!Next]_chain
  BY NextAbstract
<1> QED
  BY <1>1, <1>2, HoldsInvariant, PTL DEF Spec, ImplementsLedger, Abstract!Spec
=============================================================================
