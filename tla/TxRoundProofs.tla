--------------------------- MODULE TxRoundProofs ---------------------------
(***************************************************************************)
(* TxRound implements Consensus under the mapping of TxRoundInvariant, so  *)
(* that what is proved of the blocks there is a fact here; and with one    *)
(* start, the sizes of the lists follow from the rounds.                   *)
(***************************************************************************)
EXTENDS TxRoundInvariant, FiniteSetTheorems, TLAPS

(* The instance counts as this module does. *)
LEMMA RoundConstants ==
    /\ Round!IsFiniteSet(Replica)
    /\ Round!Nodes = Nodes
    /\ \A S : Round!Cardinality(S) = Cardinality(S)
BY ReplicaAssumption
DEF Round!IsFiniteSet, IsFiniteSet, Round!Cardinality, Cardinality,
    Round!Nodes, Nodes

LEMMA TxTypes ==
    ASSUME MapInv
    PROVE  /\ \A g \in pendingInfo :
                 /\ g.at \in Replica /\ g.trigger \in Trigger
                 /\ g = [at |-> g.at, trigger |-> g.trigger]
                 /\ g \in Waiting
           /\ \A g \in pulled :
                 /\ g.at \in Replica /\ g.trigger \in Trigger /\ g.size \in Nat
                 /\ [at |-> g.at, trigger |-> g.trigger] \in Waiting
           /\ \A g \in filling :
                 /\ g.at \in Replica /\ g.trigger \in Trigger /\ g.size \in Nat
                 /\ TranOf(g) \in Tran
                 /\ TranOf(g).from = g.at /\ TranOf(g).trigger = g.trigger
           /\ \A m \in sent : m.tran \in Tran /\ m.size \in Nat
           /\ currBlock \in [Replica -> Block]
           /\ tmpBlock \in [Replica -> Block]
           /\ transinblock \in [Replica -> Nat] /\ times \in [Replica -> Nat]
           /\ commonTransMap \subseteq [key : Nat \X Nat, tran : Tran]
<1>1. /\ Waiting \subseteq [at : Replica, trigger : Round!Trigger]
      /\ currBlock \in [Replica -> Round!Block]
      /\ tmpBlock \in [Replica -> Round!Block]
      /\ transinblock \in [Replica -> Nat] /\ times \in [Replica -> Nat]
      /\ commonTransMap \subseteq [key : Nat \X Nat, tran : Round!Tran]
  BY DEF MapInv, Round!IInv, Round!BInv, Round!TypeOK
<1>2. /\ Round!Trigger = Trigger /\ Round!Block = Block /\ Round!Tran = Tran
  BY DEF Round!Trigger, Trigger, Round!Block, Block, Round!Tran, Tran
<1>3. /\ pendingInfo \subseteq Waiting
      /\ \A g \in pulled : [at |-> g.at, trigger |-> g.trigger] \in Waiting
  BY DEF Waiting
<1>4. \A g \in filling : TranOf(g) \in Tran /\ TranOf(g).from = g.at
                         /\ TranOf(g).trigger = g.trigger
  BY DEF MapInv, PulledType, TranOf, Tran
<1> QED
  BY <1>1, <1>2, <1>3, <1>4 DEF MapInv, PulledType

(* The block the leader is looking transactions up for is the one on top   *)
(* of its chain: its tally is full, and no replica knows the block.        *)
LEMMA LookFacts ==
    ASSUME MapInv, Looks # {}
    PROVE  /\ Cardinality(Filed(commonTransMap, RoundKey(Leader))) >= Nodes
           /\ \E b \in Round!Made :
                 /\ b.index = Len(chain[Leader])
                 /\ \A n \in Replica : tmpBlock[n] # b
<1>1. PICK g \in Looks : g.old = currBlock[Leader]
  BY DEF MapInv, OneLook
<1> DEFINE post == Proposal(g.old, clock + 1)
           b == GenerateBlock(g.old, clock + 1)
<1>2. post \in Announced /\ post.block = b /\ post.next = 1
  BY DEF Announced, Proposal
<1>3. b \in Round!Made
  BY <1>2 DEF Round!Made
<1>4. b.index = Len(chain[Leader])
  <2>1. /\ currBlock[Leader].index = Len(chain[Leader]) - 1
        /\ Len(chain[Leader]) \in Nat \ {0}
    BY RoundConstants, Round!ChainFacts, ReplicaAssumption, UrlsAssumption,
       CounterAssumption DEF MapInv, Round!IInv
  <2> QED
    BY <1>1, <2>1 DEF GenerateBlock
<1>5. \A n \in Replica : tmpBlock[n] # b
  <2>1. \A i \in post.next..Len(Urls) : tmpBlock[Urls[i]] # post.block
    BY <1>2 DEF MapInv, Round!IInv, Round!BInv, Round!Undelivered
  <2> QED
    BY <1>2, <2>1, UrlsAssumption
<1>6. Round!Cardinality(Round!Filed(commonTransMap, Round!RoundKey(Leader)))
        >= Round!Nodes
  BY <1>3, <1>4 DEF MapInv, Round!IInv, Round!LInv, Round!FiredOnce
<1>7. Round!Filed(commonTransMap, Round!RoundKey(Leader)) =
         Filed(commonTransMap, RoundKey(Leader))
  BY DEF Round!Filed, Filed, Round!RoundKey, RoundKey
<1> QED
  BY <1>3, <1>4, <1>5, <1>6, <1>7, RoundConstants
-----------------------------------------------------------------------------
(* Each step of TxRound is a step of the round or leaves it alone. *)
LEMMA RoundStutter ==
    ASSUME UNCHANGED <<stateVars, tmpBlock, tallyVars, voteVars, starts>>,
           Waiting' = Waiting, OnTheirWay' = OnTheirWay,
           Announced' = Announced, Generated' = Generated
    PROVE  UNCHANGED Round!vars
BY DEF Round!vars, Round!stateVars, stateVars, Round!tallyVars, tallyVars,
   Round!voteVars, voteVars

(* A broadcast may come to everybody. *)
LEMMA AllReached ==
    /\ Replica \in Round!Reach
    /\ Round!Reach = Reach
    /\ \A to \in Reach : to \subseteq Replica
<1>1. Replica = {Urls[i] : i \in 1..Len(Urls)}
  BY UrlsAssumption
<1>2. Len(Urls) \in 0..Len(Urls)
  BY UrlsAssumption
<1>3. Replica \in Reach
  BY <1>1, <1>2 DEF Reach
<1>4. Round!Reach = Reach
  BY DEF Round!Reach, Reach
<1>5. \A to \in Reach : to \subseteq Replica
  BY UrlsAssumption DEF Reach
<1> QED
  BY <1>3, <1>4, <1>5

LEMMA SendTxsMaps ==
    ASSUME MapInv, SendTxs, UNCHANGED txVars
    PROVE  Round!Next /\ PulledType' /\ ListOnce' /\ OneLook'
<1>1. /\ starts < MaxStarts /\ starts' = starts + 1
      /\ UNCHANGED <<stateVars, tmpBlock, tallyVars, voteVars>>
      /\ UNCHANGED <<pendingTran, proposals, clock>>
      /\ UNCHANGED <<pulled, filling, hashTranMap, sent, arrived, looking>>
  BY DEF SendTxs, txVars
<1>2. PICK to \in Reach : pendingInfo' = pendingInfo \cup Testinfo(to, <<starts + 1, 0>>)
  BY DEF SendTxs
<1>3. /\ Waiting' = Waiting \cup Round!Testinfo(to, <<starts + 1, 0>>)
      /\ OnTheirWay' = OnTheirWay /\ Announced' = Announced
      /\ Generated' = Generated
  BY <1>1, <1>2 DEF Waiting, OnTheirWay, Broadcast, Tallies, Announced,
     Generated, Looks, Testinfo, Round!Testinfo, tallyVars
<1>4. Round!SendTxs
  BY <1>1, <1>2, <1>3, AllReached
  DEF Round!SendTxs, Round!stateVars, stateVars, Round!tallyVars, tallyVars,
      Round!voteVars, voteVars
<1>5. \A g \in pulled : g.trigger # <<starts + 1, 0>>
  <2> SUFFICES ASSUME NEW g \in pulled, g.trigger = <<starts + 1, 0>> PROVE FALSE
    OBVIOUS
  <2>1. [at |-> g.at, trigger |-> g.trigger] \in Waiting
    BY TxTypes
  <2>2. g.trigger \in {h.trigger : h \in Waiting}
    BY <2>1
  <2>3. g.trigger[1] <= starts
    BY <2>2 DEF MapInv, Round!IInv, Round!LInv, Round!TriggerBound
  <2>4. starts \in Nat
    BY CounterAssumption DEF MapInv, Round!IInv, Round!BInv, Round!TypeOK
  <2> QED
    BY <2>3, <2>4
<1>6. PulledType' /\ ListOnce' /\ OneLook'
  BY <1>1, <1>2, <1>5
  DEF MapInv, PulledType, ListOnce, OneLook, Broadcast, Tallies, Looks,
      Testinfo, tallyVars, stateVars
<1> QED
  BY <1>4, <1>6 DEF Round!Next

LEMMA PullMaps ==
    ASSUME MapInv, NEW g \in pendingInfo, Pull(g)
    PROVE  UNCHANGED Round!vars /\ PulledType' /\ ListOnce' /\ OneLook'
<1> DEFINE list == [at |-> g.at, trigger |-> g.trigger, size |-> transinblock[g.at]]
<1>1. /\ pendingInfo' = pendingInfo \ {g}
      /\ pulled' = pulled \cup {list}
      /\ UNCHANGED <<stateVars, tmpBlock, tallyVars, voteVars, starts>>
      /\ UNCHANGED <<pendingTran, proposals, clock>>
      /\ UNCHANGED <<filling, hashTranMap, sent, arrived, looking>>
  BY DEF Pull
<1>2. /\ list.at = g.at /\ list.trigger = g.trigger
      /\ list \in [at : Replica, trigger : Trigger, size : Nat]
      /\ g = [at |-> list.at, trigger |-> list.trigger]
  BY TxTypes
<1> HIDE DEF list
<1>3. Waiting' = Waiting
  BY <1>1, <1>2 DEF Waiting
<1>4. /\ OnTheirWay' = OnTheirWay /\ Announced' = Announced
      /\ Generated' = Generated
  BY <1>1 DEF OnTheirWay, Broadcast, Tallies, Announced, Generated, Looks,
     tallyVars
<1>5. PulledType' /\ ListOnce' /\ OneLook'
  BY <1>1, <1>2
  DEF MapInv, PulledType, ListOnce, OneLook, Broadcast, Tallies, Looks,
      tallyVars, stateVars
<1> QED
  BY <1>1, <1>3, <1>4, <1>5, RoundStutter

LEMMA FillMaps ==
    ASSUME MapInv, NEW g \in pulled, Fill(g)
    PROVE  Round!Next /\ PulledType' /\ ListOnce' /\ OneLook'
<1> DEFINE list == [at |-> g.at, trigger |-> g.trigger, size |-> g.size,
                    prev |-> currBlock[g.at].hash]
           here == [at |-> g.at, trigger |-> g.trigger]
<1>1. /\ pulled' = pulled \ {g}
      /\ filling' = filling \cup {list}
      /\ UNCHANGED <<stateVars, tmpBlock, tallyVars, voteVars, starts>>
      /\ UNCHANGED <<pendingInfo, pendingTran, proposals, clock>>
      /\ UNCHANGED <<hashTranMap, sent, arrived, looking>>
  BY DEF Fill, vars
<1>2. /\ here \in Waiting /\ here.at = g.at /\ here.trigger = g.trigger
      /\ list \in [at : Replica, trigger : Trigger, size : Nat, prev : Nat]
      /\ TranOf(list) = [from |-> here.at, trigger |-> here.trigger,
                         prev |-> currBlock[here.at].hash]
      /\ here = [at |-> TranOf(list).from, trigger |-> TranOf(list).trigger]
  BY TxTypes DEF TranOf, Block
<1> HIDE DEF list
<1>3. Waiting' = Waiting \ {here}
  <2>1. here \notin pendingInfo
    BY DEF MapInv, ListOnce
  <2>2. \A h \in pulled : [at |-> h.at, trigger |-> h.trigger] = here => h = g
    BY DEF MapInv, ListOnce
  <2> QED
    BY <1>1, <2>1, <2>2 DEF Waiting
<1> HIDE DEF here
<1>4. /\ TranOf(list) \notin Broadcast \cup Tallies
      /\ \A h \in filling : TranOf(h) # TranOf(list)
  <2>1. Round!Received = Tallies
    BY DEF Round!Received, Tallies
  <2>2. \A t \in OnTheirWay \cup Tallies :
           [at |-> t.from, trigger |-> t.trigger] \notin Waiting
    BY <2>1 DEF MapInv, Round!IInv, Round!LInv, Round!TranOnce
  <2>3. TranOf(list) \notin OnTheirWay \cup Tallies
    BY <1>2, <2>2
  <2> QED
    BY <2>3 DEF OnTheirWay
<1>5. OnTheirWay' = OnTheirWay \cup {TranOf(list)}
  BY <1>1, <1>4 DEF OnTheirWay, Broadcast, Tallies, tallyVars
<1>6. Announced' = Announced /\ Generated' = Generated
  BY <1>1 DEF Announced, Generated, Looks
<1>7. Round!SendTransV2(here)
  BY <1>1, <1>2, <1>3, <1>5, <1>6, AllReached, ReplicaAssumption
  DEF Round!SendTransV2, Round!stateVars, stateVars, Round!tallyVars,
      tallyVars, Round!voteVars, voteVars
<1>8. PulledType' /\ ListOnce' /\ OneLook'
  BY <1>1, <1>2, <1>4
  DEF MapInv, PulledType, ListOnce, OneLook, Broadcast, Tallies, Looks,
      tallyVars, stateVars
<1> QED
  BY <1>2, <1>7, <1>8 DEF Round!Next, Round!System, Round!Handlers

LEMMA MaxOfTwo ==
    \A a, b \in Nat : Max({a, b}) \in {a, b} /\ Max({a, b}) >= a /\ Max({a, b}) >= b
BY DEF Max

LEMMA SendHashesMaps ==
    ASSUME MapInv, NEW g \in filling, SendHashes(g)
    PROVE  UNCHANGED Round!vars /\ PulledType' /\ ListOnce' /\ OneLook'
<1> DEFINE list == [tran |-> TranOf(g), size |-> g.size]
<1>1. /\ filling' = filling \ {g}
      /\ hashTranMap' = [hashTranMap EXCEPT ![g.at] = Max({@, g.size})]
      /\ sent' = sent \cup {list}
      /\ UNCHANGED <<stateVars, tmpBlock, tallyVars, voteVars, starts>>
      /\ UNCHANGED <<pendingInfo, proposals, clock, pulled, looking>>
  BY DEF SendHashes
<1>2. /\ list.tran = TranOf(g)
      /\ list \in [tran : Tran, size : Nat]
  BY TxTypes
<1> HIDE DEF list
<1>3. pendingTran' \subseteq pendingTran \cup {TranOf(g)}
  BY DEF SendHashes
<1>4. \A a \in arrived' : a.at \in Replica \ {Leader}
  BY AllReached DEF SendHashes, MapInv, PulledType
<1>5. Broadcast' = Broadcast \cup {TranOf(g)} /\ Tallies' = Tallies
  BY <1>1, <1>2 DEF Broadcast, Tallies, tallyVars
<1>6. OnTheirWay' = OnTheirWay
  BY <1>1, <1>5 DEF OnTheirWay
<1>7. Waiting' = Waiting /\ Announced' = Announced /\ Generated' = Generated
  BY <1>1 DEF Waiting, Announced, Generated, Looks
<1>8. hashTranMap' \in [Replica -> Nat]
  <2>1. hashTranMap[g.at] \in Nat /\ g.size \in Nat
    BY TxTypes DEF MapInv, PulledType
  <2>2. Max({hashTranMap[g.at], g.size}) \in Nat
    BY <2>1, MaxOfTwo
  <2> QED
    BY <1>1, <2>2 DEF MapInv, PulledType
<1>9. PulledType'
  BY <1>1, <1>2, <1>4, <1>8 DEF MapInv, PulledType
<1>10. ListOnce'
  BY <1>1, <1>2, <1>3, <1>5 DEF MapInv, ListOnce, Broadcast
<1>11. OneLook'
  BY <1>1 DEF MapInv, OneLook, Looks, stateVars
<1> QED
  BY <1>1, <1>6, <1>7, <1>9, <1>10, <1>11, RoundStutter
(* The leader files a message, and begins to look transactions up exactly  *)
(* when the round has a block made.                                        *)
LEMMA LeaderReceivesMaps ==
    ASSUME MapInv, NEW t \in pendingTran, LeaderReceives(t)
    PROVE  Round!Next /\ PulledType' /\ ListOnce' /\ OneLook'
<1> DEFINE entry == [key |-> RoundKey(Leader), tran |-> t]
           old   == Filed(commonTransMap, RoundKey(Leader))
           list  == old \cup {entry}
           fires == Full(list) /\ t.prev = currBlock[Leader].hash
           look  == [at |-> Leader, old |-> currBlock[Leader], wanted |-> Union(list)]
<1>1. /\ pendingTran' = pendingTran \ {t}
      /\ commonTransMap' = commonTransMap \cup {entry}
      /\ UNCHANGED <<stateVars, tmpBlock, round1Map, round2Map, voteVars, starts>>
      /\ UNCHANGED <<pendingInfo, proposals, clock, pulled, filling>>
      /\ UNCHANGED <<hashTranMap, sent, arrived>>
  BY DEF LeaderReceives, Tallied
<1>2. Filed(commonTransMap \cup {entry}, RoundKey(Leader)) = list
  BY DEF Filed
<1>3. looking' = looking \cup (IF fires THEN {look} ELSE {})
  BY <1>2 DEF LeaderReceives, Lookup, Tallied
<1>4. t \in Broadcast /\ t \notin Tallies
  BY DEF MapInv, ListOnce
<1>5. entry.tran = t /\ entry.key = RoundKey(Leader)
  OBVIOUS
<1>6. entry \notin commonTransMap
  BY <1>4, <1>5 DEF Tallies
<1>7. look.at = Leader /\ look.old = currBlock[Leader]
  OBVIOUS
<1>8. commonTransMap \cup list = commonTransMap \cup {entry}
  BY DEF Filed
<1>9. Full(list) => Cardinality(old) < Nodes
  <2>1. IsFiniteSet(commonTransMap)
    <3>1. Round!IsFiniteSet(commonTransMap)
      BY DEF MapInv, Round!IInv, Round!LInv
    <3> QED
      BY <3>1 DEF Round!IsFiniteSet, IsFiniteSet
  <2>2. IsFiniteSet(old) /\ entry \notin old
    BY <1>6, <2>1, FS_Subset DEF Filed
  <2>3. Cardinality(list) = Cardinality(old) + 1 /\ Cardinality(old) \in Nat
    BY <2>2, FS_AddElement, FS_CardinalityType
  <2> QED
    BY <2>3 DEF Full
<1>10. fires => Looks = {}
  <2> SUFFICES ASSUME Full(list), Looks # {} PROVE FALSE
    OBVIOUS
  <2>1. Cardinality(old) >= Nodes
    BY LookFacts
  <2>2. Cardinality(old) \in Nat /\ Nodes \in Nat
    <3>1. IsFiniteSet(old)
      <4>1. Round!IsFiniteSet(commonTransMap)
        BY DEF MapInv, Round!IInv, Round!LInv
      <4>2. IsFiniteSet(commonTransMap)
        BY <4>1 DEF Round!IsFiniteSet, IsFiniteSet
      <4> QED
        BY <4>2, FS_Subset DEF Filed
    <3> QED
      BY <3>1, FS_CardinalityType, ReplicaAssumption DEF Nodes
  <2> QED
    BY <1>9, <2>1, <2>2
<1>11. Round!Full(list) <=> Full(list)
  BY RoundConstants DEF Round!Full, Full
<1>12. /\ Round!RoundKey(Leader) = RoundKey(Leader)
       /\ Round!Filed(commonTransMap, RoundKey(Leader)) = old
       /\ \A b, h : Round!Proposal(b, h) = Proposal(b, h)
  BY DEF Round!RoundKey, RoundKey, Round!Filed, Filed, Round!Proposal,
     Proposal, Round!GenerateBlock, GenerateBlock
<1>13. Waiting' = Waiting
  BY <1>1 DEF Waiting
<1>14. Tallies' = Tallies \cup {t}
  <2> HIDE DEF entry
  <2> QED
    BY <1>1, <1>5 DEF Tallies
<1>15. Broadcast' = Broadcast
  BY <1>1 DEF Broadcast
<1>16. OnTheirWay' = OnTheirWay \ {t} /\ t \in OnTheirWay
  BY <1>1, <1>4, <1>14, <1>15 DEF OnTheirWay
<1> HIDE DEF look
<1>17. Looks' = IF fires THEN {look} ELSE Looks
  BY <1>3, <1>7, <1>10 DEF Looks
<1> HIDE DEF fires
<1>18. fires =>
          /\ Generated' = Generated + 1
          /\ Announced' = Announced \cup {Proposal(currBlock[Leader], Generated + 1)}
  BY <1>1, <1>7, <1>10, <1>17 DEF Generated, Announced
<1>19. ~fires => Generated' = Generated /\ Announced' = Announced
  BY <1>1, <1>17 DEF Generated, Announced
<1>20. Round!ReceiveTran(t)
  <2>1. fires <=> Round!Full(list) /\ t.prev = currBlock[Leader].hash
    BY <1>11 DEF fires
  <2> HIDE DEF list, old
  <2>2. commonTransMap' = commonTransMap \cup list
    BY <1>1, <1>8
  <2>3. /\ UNCHANGED <<Round!stateVars, tmpBlock, round1Map, round2Map>>
        /\ UNCHANGED <<Round!voteVars, starts>>
    BY <1>1 DEF Round!stateVars, stateVars, Round!voteVars, voteVars
  <2>4. list = Round!Filed(commonTransMap, Round!RoundKey(Leader)) \cup
                  {[key |-> Round!RoundKey(Leader), tran |-> t]}
    BY <1>12 DEF list
  <2> HIDE DEF entry
  <2>5. IF Round!Full(list) /\ t.prev = currBlock[Leader].hash
        THEN /\ Generated' = Generated + 1
             /\ Announced' = Announced \cup {Round!Proposal(currBlock[Leader], Generated + 1)}
        ELSE UNCHANGED <<Generated, Announced>>
    BY <1>12, <1>18, <1>19, <2>1
  <2> QED
    BY <1>13, <1>16, <2>2, <2>3, <2>4, <2>5 DEF Round!ReceiveTran
<1>21. PulledType'
  BY <1>1, <1>3, <1>7, ReplicaAssumption DEF MapInv, PulledType
<1>22. ListOnce'
  BY <1>1, <1>4, <1>14, <1>15 DEF MapInv, ListOnce
<1>23. OneLook'
  BY <1>1, <1>7, <1>17 DEF MapInv, OneLook, stateVars
<1> QED
  BY <1>16, <1>20, <1>21, <1>22, <1>23 DEF Round!Next, Round!System

LEMMA OtherReceivesMaps ==
    ASSUME MapInv, NEW a \in arrived, OtherReceives(a)
    PROVE  UNCHANGED Round!vars /\ PulledType' /\ ListOnce' /\ OneLook'
<1>1. /\ arrived' = arrived \ {a}
      /\ UNCHANGED <<stateVars, tmpBlock, tallyVars, voteVars, starts>>
      /\ UNCHANGED <<pendingInfo, pendingTran, proposals, clock>>
      /\ UNCHANGED <<pulled, filling, hashTranMap, sent>>
  BY DEF OtherReceives, vars
<1>2. a.at \in Replica \ {Leader}
  BY DEF MapInv, PulledType
<1>3. \A g \in looking' : g \in looking \/ g.at = a.at
  BY DEF OtherReceives, Lookup
<1>4. looking \subseteq looking'
  BY DEF OtherReceives
<1>5. Looks' = Looks
  BY <1>2, <1>3, <1>4 DEF Looks
<1>6. /\ Waiting' = Waiting /\ OnTheirWay' = OnTheirWay
      /\ Announced' = Announced /\ Generated' = Generated
  BY <1>1, <1>5 DEF Waiting, OnTheirWay, Broadcast, Tallies, Announced,
     Generated, tallyVars
<1>7. PulledType' /\ ListOnce' /\ OneLook'
  BY <1>1, <1>2, <1>3, <1>5
  DEF MapInv, PulledType, ListOnce, OneLook, Broadcast, Tallies, tallyVars,
      stateVars
<1> QED
  BY <1>1, <1>6, <1>7, RoundStutter

LEMMA GenerateMaps ==
    ASSUME MapInv, NEW g \in looking, Generate(g)
    PROVE  UNCHANGED Round!vars /\ PulledType' /\ ListOnce' /\ OneLook'
<1>1. /\ looking' = looking \ {g}
      /\ UNCHANGED <<stateVars, tmpBlock, tallyVars, voteVars, starts>>
      /\ UNCHANGED <<pendingInfo, pendingTran, pulled, filling, hashTranMap>>
      /\ UNCHANGED <<sent, arrived>>
  BY DEF Generate
<1>2. Waiting' = Waiting /\ OnTheirWay' = OnTheirWay
  BY <1>1 DEF Waiting, OnTheirWay, Broadcast, Tallies, tallyVars
<1>3. /\ clock \in Nat
      /\ \A p \in proposals : p.block.hash <= clock
  BY DEF MapInv, PulledType, OneLook
<1>4. CASE g.at = Leader
  <2>1. Looks = {g} /\ Looks' = {}
    BY <1>1, <1>4 DEF Looks, MapInv, OneLook
  <2>2. /\ clock' = clock + 1
        /\ proposals' = proposals \cup {Proposal(g.old, clock + 1)}
    BY <1>4 DEF Generate
  <2>3. Announced' = Announced /\ Generated' = Generated
    BY <2>1, <2>2 DEF Announced, Generated
  <2>4. \A p \in proposals' : p.block.hash \in {q.block.hash : q \in proposals} \cup {clock + 1}
    BY <2>2 DEF Proposal, GenerateBlock
  <2>5. \A p \in proposals' : p.block.hash <= clock'
    <3> SUFFICES ASSUME NEW p \in proposals' PROVE p.block.hash <= clock + 1
      BY <2>2
    <3>1. CASE p \in proposals
      <4>1. \E q \in Announced : q.block = p.block
        BY <3>1 DEF Announced
      <4>2. p.block.hash \in 1..Generated
        BY <4>1 DEF MapInv, Round!IInv, Round!BInv, Round!HashBound, Round!Made
      <4>3. Generated \in Nat
        BY <1>3 DEF Generated
      <4> QED
        BY <1>3, <3>1, <4>2, <4>3
    <3>2. CASE p \notin proposals
      BY <1>3, <2>2, <3>2 DEF Proposal, GenerateBlock
    <3> QED
      BY <3>1, <3>2
  <2>6. PulledType' /\ ListOnce' /\ OneLook'
    BY <1>1, <1>3, <2>1, <2>2, <2>5
    DEF MapInv, PulledType, ListOnce, OneLook, Broadcast, Tallies, tallyVars
  <2> QED
    BY <1>1, <1>2, <2>3, <2>6, RoundStutter
<1>5. CASE g.at # Leader
  <2>1. Looks' = Looks
    BY <1>1, <1>5 DEF Looks
  <2>2. UNCHANGED <<clock, proposals>>
    BY <1>5 DEF Generate
  <2>3. Announced' = Announced /\ Generated' = Generated
    BY <2>1, <2>2 DEF Announced, Generated
  <2>4. PulledType' /\ ListOnce' /\ OneLook'
    BY <1>1, <2>1, <2>2
    DEF MapInv, PulledType, ListOnce, OneLook, Broadcast, Tallies, tallyVars,
        stateVars
  <2> QED
    BY <1>1, <1>2, <2>3, <2>4, RoundStutter
<1> QED
  BY <1>4, <1>5
(* A handler that comes after the block is the handler of the round. *)
LEMMA RestOfBroadcast ==
    ASSUME MapInv, NEW p \in proposals, NEW rest,
           proposals' = (proposals \ {p}) \cup rest,
           \A q \in rest : q.block = p.block,
           UNCHANGED <<clock, looking, currBlock>>
    PROVE  /\ p \in Announced
           /\ Announced' = (Announced \ {p}) \cup rest
           /\ Generated' = Generated
           /\ OneLook'
<1>1. Looks' = Looks /\ clock \in Nat
  BY DEF Looks, MapInv, PulledType
<1>2. p.block.hash <= clock /\ p.block.hash \in Nat
  <2>1. p.block \in Round!Made
    BY DEF Announced, Round!Made
  <2>2. Generated \in Nat
    BY <1>1 DEF Generated
  <2> QED
    BY <2>1, <2>2 DEF MapInv, OneLook, Round!IInv, Round!BInv, Round!HashBound
<1>3. \A g \in Looks : Proposal(g.old, clock + 1) # p
  <2>1. \A g \in Looks : Proposal(g.old, clock + 1).block.hash = clock + 1
    BY DEF Proposal, GenerateBlock
  <2> QED
    BY <1>1, <1>2, <2>1
<1>4. Announced' = (Announced \ {p}) \cup rest
  BY <1>1, <1>3 DEF Announced
<1>5. OneLook'
  BY <1>1 DEF MapInv, OneLook
<1> QED
  BY <1>1, <1>4, <1>5 DEF Announced, Generated

(* The leader stores no block while it makes the next one, and the trigger *)
(* of the next round is new.                                               *)
LEMMA StoreBlockMaps ==
    ASSUME MapInv, NEW s \in storing, StoreBlock(s), UNCHANGED txVars
    PROVE  Round!Next /\ PulledType' /\ ListOnce' /\ OneLook'
<1>1. /\ storing' = storing \ {s}
      /\ UNCHANGED <<tmpBlock, tallyVars, pendingTran, proposals, verifying>>
      /\ UNCHANGED <<verified, pendingVote1, pendingVote2, clock, starts>>
      /\ UNCHANGED <<pulled, filling, hashTranMap, sent, arrived, looking>>
  BY DEF StoreBlock, txVars
<1>2. /\ Looks' = Looks /\ Broadcast' = Broadcast /\ Tallies' = Tallies
      /\ OnTheirWay' = OnTheirWay
      /\ Announced' = Announced /\ Generated' = Generated
  BY <1>1 DEF Looks, Broadcast, Tallies, OnTheirWay, Announced, Generated,
     tallyVars
<1>3. Round!Open(s.at, s.hash) <=> Open(s.at, s.hash)
  BY DEF Round!Open, Open
<1>4. PulledType'
  BY <1>1 DEF MapInv, PulledType
<1> SUFFICES Round!StoreBlock(s) /\ ListOnce' /\ OneLook'
  BY <1>4 DEF Round!Next, Round!System, Round!Handlers
<1>5. CASE ~Open(s.at, s.hash)
  <2>1. UNCHANGED <<stateVars, pendingInfo>>
    BY <1>5 DEF StoreBlock
  <2>2. Waiting' = Waiting
    BY <1>1, <2>1 DEF Waiting
  <2> QED
    BY <1>1, <1>2, <1>3, <1>5, <2>1, <2>2
    DEF Round!StoreBlock, MapInv, ListOnce, OneLook, stateVars,
        Round!stateVars, tallyVars, Round!tallyVars
<1>6. CASE Open(s.at, s.hash)
  <2> DEFINE n == s.at
             b == tmpBlock[n]
  <2>1. /\ chain' = [chain EXCEPT ![n] = Append(@, b)]
        /\ currBlock' = [currBlock EXCEPT ![n] = b]
        /\ times' = [times EXCEPT ![n] = NextTimes(n)]
        /\ transinblock' = [transinblock EXCEPT ![n] = NextSize(n)]
        /\ IF n = Leader /\ GoesOn(n)
           THEN \E to \in Reach :
                   pendingInfo' = pendingInfo \cup Testinfo(to, <<0, b.hash>>)
           ELSE pendingInfo' = pendingInfo
    BY <1>6 DEF StoreBlock, Store
  <2>2. /\ n \in Replica
        /\ b \in Round!Made
        /\ b.index = Len(chain[n])
    BY <1>3, <1>6, Round!OpenNext, RoundConstants, ReplicaAssumption,
       UrlsAssumption, CounterAssumption DEF MapInv, Round!IInv
  <2>3. \A to : Round!Testinfo(to, <<0, b.hash>>) = Testinfo(to, <<0, b.hash>>)
    BY DEF Round!Testinfo, Testinfo
  <2>4. \A to : pendingInfo' = pendingInfo \cup Testinfo(to, <<0, b.hash>>) =>
                   Waiting' = Waiting \cup Round!Testinfo(to, <<0, b.hash>>)
    BY <1>1, <2>3 DEF Waiting
  <2>5. pendingInfo' = pendingInfo => Waiting' = Waiting
    BY <1>1 DEF Waiting
  <2>6. /\ Round!NextTimes(n) = NextTimes(n) /\ Round!NextSize(n) = NextSize(n)
        /\ Round!GoesOn(n) <=> GoesOn(n)
    BY DEF Round!NextTimes, NextTimes, Round!NextSize, NextSize, Round!GoesOn,
       GoesOn, Round!LastOfSize, LastOfSize
  <2>7. Round!Store(n)
    <3>1. IF n = Leader /\ Round!GoesOn(n)
          THEN \E to \in Round!Reach :
                  Waiting' = Waiting \cup Round!Testinfo(to, <<0, b.hash>>)
          ELSE Waiting' = Waiting
      BY <2>1, <2>4, <2>5, <2>6, AllReached
    <3> QED
      BY <2>1, <2>6, <3>1 DEF Round!Store
  <2>8. Round!StoreBlock(s)
    BY <1>1, <1>2, <1>3, <1>6, <2>7
    DEF Round!StoreBlock, tallyVars, Round!tallyVars
  <2>9. n = Leader => Looks = {}
    <3> SUFFICES ASSUME n = Leader, Looks # {} PROVE FALSE
      OBVIOUS
    <3>1. PICK c \in Round!Made : c.index = Len(chain[Leader]) /\ tmpBlock[n] # c
      BY <2>2, LookFacts
    <3> QED
      BY <2>2, <3>1 DEF MapInv, Round!IInv, Round!BInv, Round!UniqueIndex
  <2>10. OneLook'
    <3>1. Looks # {} => currBlock'[Leader] = currBlock[Leader]
      BY <2>1, <2>9, ReplicaAssumption, TxTypes
    <3> QED
      BY <1>1, <1>2, <3>1 DEF MapInv, OneLook
  <2>11. n = Leader => \A g \in pulled : g.trigger # <<0, b.hash>>
    <3> SUFFICES ASSUME n = Leader, NEW g \in pulled, g.trigger = <<0, b.hash>>
                 PROVE  FALSE
      OBVIOUS
    <3>1. <<0, b.hash>> \in {h.trigger : h \in Waiting}
      <4>1. [at |-> g.at, trigger |-> g.trigger] \in Waiting
        BY TxTypes
      <4> QED
        BY <4>1
    <3>2. b.hash \in Round!StoredHashes
      BY <3>1 DEF MapInv, Round!IInv, Round!LInv, Round!TriggerBound
    <3>3. b.hash # 0
      BY <2>2 DEF MapInv, Round!IInv, Round!BInv, Round!HashBound
    <3>4. PICK c \in Round!Stored(Leader) : c.hash = b.hash
      BY <3>2, <3>3 DEF Round!StoredHashes
    <3>5. c \in Round!Made
      BY <3>4, ReplicaAssumption DEF Round!Made
    <3>6. c = b
      BY <2>2, <3>4, <3>5 DEF MapInv, Round!IInv, Round!BInv, Round!UniqueHash
    <3>7. PICK i \in 1..Len(chain[n]) : chain[n][i] = c
      BY <3>4 DEF Round!Stored
    <3>8. c.index = i - 1
      BY <2>2, <3>7 DEF MapInv, Round!IInv, Round!BInv, Round!ChainShape
    <3>9. Len(chain[n]) \in Nat \ {0}
      BY <2>2, Round!ChainFacts, RoundConstants, ReplicaAssumption,
         UrlsAssumption, CounterAssumption DEF MapInv, Round!IInv
    <3> QED
      BY <2>2, <3>6, <3>8, <3>9
  <2>12. ListOnce'
    <3>1. \A g \in pendingInfo' :
             g \in pendingInfo \/ (n = Leader /\ g.trigger = <<0, b.hash>>)
      BY <2>1 DEF Testinfo
    <3> QED
      BY <1>1, <1>2, <2>11, <3>1 DEF MapInv, ListOnce
  <2> QED
    BY <2>8, <2>10, <2>12
<1> QED
  BY <1>5, <1>6

LEMMA BlockHandlersMap ==
    ASSUME MapInv, BlockHandlers
    PROVE  Round!Next /\ PulledType' /\ ListOnce' /\ OneLook'
<1> DEFINE Goal == Round!Next /\ PulledType' /\ ListOnce' /\ OneLook'
<1>1. UNCHANGED <<pulled, filling, hashTranMap, sent, arrived, looking>>
  BY DEF BlockHandlers, txVars
<1>2. Looks' = Looks /\ Broadcast' = Broadcast
  BY <1>1 DEF Looks, Broadcast
<1>3. ASSUME UNCHANGED <<commonTransMap, pendingTran>>
      PROVE  OnTheirWay' = OnTheirWay /\ Tallies' = Tallies
  BY <1>1, <1>2, <1>3 DEF OnTheirWay, Tallies
<1>4. ASSUME UNCHANGED pendingInfo
      PROVE  Waiting' = Waiting
  BY <1>1, <1>4 DEF Waiting
<1>5. ASSUME UNCHANGED <<proposals, clock>>
      PROVE  Announced' = Announced /\ Generated' = Generated
  BY <1>2, <1>5 DEF Announced, Generated
<1>6. ASSUME UNCHANGED <<commonTransMap, pendingTran, pendingInfo, clock>>
      PROVE  PulledType' /\ ListOnce'
  BY <1>1, <1>2, <1>3, <1>6 DEF MapInv, PulledType, ListOnce
<1>7. ASSUME UNCHANGED <<proposals, clock, currBlock>>
      PROVE  OneLook'
  BY <1>2, <1>7 DEF MapInv, OneLook
<1> USE DEF stateVars, tallyVars, voteVars, Round!stateVars, Round!tallyVars,
            Round!voteVars
<1>8. ASSUME NEW p \in proposals, RecBlock(p) PROVE Goal
  <2>1. \A q \in Rest(p) : q.block = p.block
    <3>1. p \in Announced
      BY DEF Announced
    <3>2. p \in [block : Round!Block, next : 1..Len(Urls)]
      BY <3>1 DEF MapInv, Round!IInv, Round!BInv, Round!TypeOK
    <3> QED
      BY <3>2 DEF Rest
  <2>2. /\ UNCHANGED <<stateVars, tmpBlock, tallyVars, pendingInfo>>
        /\ UNCHANGED <<pendingTran, verified, pendingVote1, pendingVote2>>
        /\ UNCHANGED <<storing, clock, starts>>
        /\ proposals' = (proposals \ {p}) \cup Rest(p)
    BY <1>8 DEF RecBlock
  <2>3. /\ p \in Announced
        /\ Announced' = (Announced \ {p}) \cup Rest(p)
        /\ Generated' = Generated
        /\ OneLook'
    BY <1>1, <2>1, <2>2, RestOfBroadcast
  <2>4. Round!Rest(p) = Rest(p) /\ \A n : Round!Checkblock(n, p.block) <=> Checkblock(n, p.block)
    BY DEF Round!Rest, Rest, Round!Checkblock, Checkblock, Round!Extends, Extends
  <2>5. Round!RecBlock(p)
    BY <1>3, <1>4, <1>8, <2>2, <2>3, <2>4 DEF RecBlock, Round!RecBlock
  <2> QED
    BY <1>6, <2>2, <2>3, <2>5 DEF Round!Next, Round!System, Round!Handlers
<1>9. ASSUME NEW p \in proposals, LoseBlock(p) PROVE Goal
  <2> DEFINE none == {}
  <2>1. /\ UNCHANGED <<stateVars, tmpBlock, tallyVars, pendingInfo>>
        /\ UNCHANGED <<pendingTran, voteVars, clock, starts>>
        /\ proposals' = proposals \ {p} /\ Lossy
    BY <1>9 DEF LoseBlock
  <2>2. \A q : q \notin none
    OBVIOUS
  <2> HIDE DEF none
  <2>3. proposals' = (proposals \ {p}) \cup none
    BY <2>1, <2>2
  <2>4. /\ p \in Announced
        /\ Announced' = (Announced \ {p}) \cup none
        /\ Generated' = Generated
        /\ OneLook'
    BY <1>1, <2>1, <2>2, <2>3, RestOfBroadcast
  <2>5. Announced' = Announced \ {p}
    BY <2>2, <2>4
  <2>6. Round!LoseBlock(p)
    BY <1>3, <1>4, <2>1, <2>4, <2>5 DEF Round!LoseBlock
  <2> QED
    BY <1>6, <2>1, <2>4, <2>6 DEF Round!Next, Round!System, Round!Handlers
<1>10. ASSUME NEW g \in verifying, Verify(g) PROVE Goal
  <2>1. Round!Extends(g.at, g.block) <=> Extends(g.at, g.block)
    BY DEF Round!Extends, Extends
  <2>2. Round!Verify(g)
    BY <1>3, <1>4, <1>5, <1>10, <2>1 DEF Verify, Round!Verify, Round!Extends, Extends
  <2> QED
    BY <1>6, <1>7, <1>10, <2>2 DEF Verify, Round!Next, Round!System, Round!Handlers
<1>11. ASSUME NEW g \in verified, SetTmpB(g) PROVE Goal
  <2>1. Round!SetTmpB(g)
    BY <1>3, <1>4, <1>5, <1>11, AllReached DEF SetTmpB, Round!SetTmpB
  <2> QED
    BY <1>6, <1>7, <1>11, <2>1 DEF SetTmpB, Round!Next, Round!System, Round!Handlers
<1>12. ASSUME NEW v \in pendingVote1, Vote1(v) PROVE Goal
  <2>1. /\ Round!VoteKey(v.at, v.hash) = VoteKey(v.at, v.hash)
        /\ \A S, k : Round!Filed(S, k) = Filed(S, k)
        /\ \A S : Round!Full(S) <=> Full(S)
        /\ \A k : Round!Enough(k) <=> Enough(k)
        /\ \A S : Round!Cardinality(S) = Cardinality(S)
    BY RoundConstants
    DEF Round!VoteKey, VoteKey, Round!Filed, Filed, Round!Full, Full,
        Round!Enough, Enough
  <2> DEFINE key   == VoteKey(v.at, v.hash)
             entry == [key |-> key, from |-> v.from, vote |-> v.vote]
             votes == Filed(round1Map[v.at], key) \cup {entry}
             yes   == {e \in votes : e.vote}
  <2>2. /\ pendingVote1' = pendingVote1 \ {v}
        /\ round1Map' = [round1Map EXCEPT ![v.at] = @ \cup {entry}]
        /\ UNCHANGED <<stateVars, tmpBlock, commonTransMap, round2Map>>
        /\ UNCHANGED <<pendingInfo, pendingTran, proposals, verifying>>
        /\ UNCHANGED <<verified, storing, clock, starts>>
    BY <1>12 DEF Vote1
  <2>3. IF Full(votes)
        THEN \E to \in Reach :
                pendingVote2' = pendingVote2 \cup
                   {[at |-> n, from |-> v.at, hash |-> v.hash,
                     vote |-> Enough(Cardinality(yes))] : n \in to}
        ELSE pendingVote2' = pendingVote2
    BY <1>12 DEF Vote1
  <2> DEFINE filed == Round!Filed(round1Map[v.at], Round!VoteKey(v.at, v.hash))
                        \cup {[key |-> Round!VoteKey(v.at, v.hash),
                               from |-> v.from, vote |-> v.vote]}
             agree == {e \in filed : e.vote}
  <2>4. /\ round1Map' = [round1Map EXCEPT ![v.at] = @ \cup
              {[key |-> Round!VoteKey(v.at, v.hash), from |-> v.from,
                vote |-> v.vote]}]
        /\ IF Round!Full(filed)
           THEN \E to \in Round!Reach :
                   pendingVote2' = pendingVote2 \cup
                      {[at |-> n, from |-> v.at, hash |-> v.hash,
                        vote |-> Round!Enough(Round!Cardinality(agree))] : n \in to}
           ELSE pendingVote2' = pendingVote2
    <3>1. filed = votes
      BY <2>1
    <3>2. agree = yes
      BY <3>1
    <3> HIDE DEF filed, agree, votes, yes
    <3>3. Round!Enough(Round!Cardinality(agree)) = Enough(Cardinality(yes))
      BY <3>2, RoundConstants DEF Round!Enough, Enough
    <3>4. Round!Full(filed) <=> Full(votes)
      BY <2>1, <3>1
    <3>5. Round!Reach = Reach
      BY AllReached
    <3> QED
      BY <2>1, <2>2, <2>3, <3>3, <3>4, <3>5
  <2>5. /\ Waiting' = Waiting /\ OnTheirWay' = OnTheirWay
        /\ Announced' = Announced /\ Generated' = Generated
    BY <1>3, <1>4, <1>5, <2>2
  <2>6. Round!Vote1(v)
    BY <2>2, <2>4, <2>5 DEF Round!Vote1
  <2> QED
    BY <1>6, <1>7, <2>2, <2>6 DEF Round!Next, Round!System, Round!Handlers
<1>13. ASSUME NEW v \in pendingVote2, Vote2(v) PROVE Goal
  <2>1. /\ Round!VoteKey(v.at, v.hash) = VoteKey(v.at, v.hash)
        /\ \A S, k : Round!Filed(S, k) = Filed(S, k)
        /\ \A S : Round!Full(S) <=> Full(S)
        /\ \A k : Round!Enough(k) <=> Enough(k)
        /\ \A S : Round!Cardinality(S) = Cardinality(S)
        /\ Round!Open(v.at, v.hash) <=> Open(v.at, v.hash)
    BY RoundConstants
    DEF Round!VoteKey, VoteKey, Round!Filed, Filed, Round!Full, Full,
        Round!Enough, Enough, Round!Open, Open
  <2>2. Round!Vote2(v)
    BY <1>3, <1>4, <1>5, <1>13, <2>1 DEF Vote2, Round!Vote2
  <2> QED
    BY <1>6, <1>7, <1>13, <2>2 DEF Vote2, Round!Next, Round!System, Round!Handlers
<1>14. ASSUME NEW s \in storing, StoreBlock(s) PROVE Goal
  BY <1>14, StoreBlockMaps DEF BlockHandlers
<1> QED
  BY <1>8, <1>9, <1>10, <1>11, <1>12, <1>13, <1>14 DEF BlockHandlers
-----------------------------------------------------------------------------
LEMMA TxInitMaps == TxInit => Round!Init /\ MapInv
<1> SUFFICES ASSUME TxInit PROVE Round!Init /\ MapInv
  OBVIOUS
<1>1. /\ Init /\ pulled = {} /\ filling = {} /\ sent = {} /\ arrived = {}
      /\ looking = {} /\ hashTranMap = [n \in Replica |-> 0]
      /\ pendingInfo = {} /\ pendingTran = {} /\ proposals = {}
      /\ commonTransMap = {} /\ clock = 1
  BY DEF TxInit, Init, Fresh, Genesis
<1>2. /\ Waiting = {} /\ OnTheirWay = {} /\ Announced = {} /\ Generated = clock
      /\ Broadcast = {} /\ Tallies = {} /\ Looks = {}
  BY <1>1 DEF Waiting, OnTheirWay, Broadcast, Tallies, Announced, Generated,
     Looks
<1>3. Round!Init
  BY <1>1, <1>2
  DEF Init, Fresh, Round!Init, Round!Fresh, Round!Genesis, Genesis,
      Round!NoBlock, NoBlock
<1>4. Round!IInv
  BY <1>3, Round!InitIInv, RoundConstants, ReplicaAssumption, UrlsAssumption,
     CounterAssumption
<1>5. PulledType /\ ListOnce /\ OneLook
  BY <1>1, <1>2 DEF PulledType, ListOnce, OneLook
<1> QED
  BY <1>3, <1>4, <1>5 DEF MapInv

LEMMA TxNextMaps ==
    MapInv /\ [TxNext]_roundVars => [Round!Next]_Round!vars /\ MapInv'
<1> SUFFICES ASSUME MapInv, [TxNext]_roundVars
             PROVE  [Round!Next]_Round!vars /\ MapInv'
  OBVIOUS
<1>1. [Round!Next]_Round!vars /\ PulledType' /\ ListOnce' /\ OneLook'
  <2>1. CASE UNCHANGED roundVars
    <3>1. /\ UNCHANGED <<stateVars, tmpBlock, tallyVars, voteVars, starts>>
          /\ UNCHANGED <<pendingInfo, pendingTran, proposals, clock>>
          /\ UNCHANGED <<pulled, filling, hashTranMap, sent, arrived, looking>>
      BY <2>1 DEF roundVars, vars, txVars
    <3>2. /\ Waiting' = Waiting /\ OnTheirWay' = OnTheirWay
          /\ Announced' = Announced /\ Generated' = Generated
          /\ Looks' = Looks /\ Broadcast' = Broadcast /\ Tallies' = Tallies
      BY <3>1 DEF Waiting, OnTheirWay, Announced, Generated, Looks, Broadcast,
         Tallies, tallyVars
    <3>3. PulledType' /\ ListOnce' /\ OneLook'
      BY <3>1, <3>2 DEF MapInv, PulledType, ListOnce, OneLook, stateVars
    <3> QED
      BY <3>1, <3>2, <3>3, RoundStutter
  <2> QED
    BY <2>1, SendTxsMaps, PullMaps, FillMaps, SendHashesMaps,
       LeaderReceivesMaps, OtherReceivesMaps, GenerateMaps, BlockHandlersMap
    DEF TxNext
<1>2. Round!IInv'
  BY <1>1, Round!NextIInv, RoundConstants, ReplicaAssumption, UrlsAssumption,
     CounterAssumption DEF MapInv
<1> QED
  BY <1>1, <1>2 DEF MapInv

THEOREM MapInvariantHolds == TxSpec => []MapInv
<1>1. TxInit => MapInv  BY TxInitMaps
<1>2. MapInv /\ [TxNext]_roundVars => MapInv'  BY TxNextMaps
<1> QED  BY <1>1, <1>2, PTL DEF TxSpec

(* Cutting SendTransV2 and generateFromCommonTxV2 into the steps at which  *)
(* they read the pool, the current block and the map, and letting the      *)
(* other replicas tally as well, adds nothing to what the round of         *)
(* Consensus can do: TxRound implements it.                                *)
THEOREM RoundImplemented == TxSpec => ImplementsRound
<1>1. TxInit => Round!Init  BY TxInitMaps
<1>2. MapInv /\ [TxNext]_roundVars => [Round!Next]_Round!vars  BY TxNextMaps
<1> QED  BY <1>1, <1>2, MapInvariantHolds, PTL DEF TxSpec, ImplementsRound, Round!Spec

(* So what is proved of the blocks of Consensus holds of those of TxRound. *)
THEOREM TxAgreement == TxSpec => []Agreement
<1>1. Round!Spec => []Round!Agreement
  BY Round!AgreementHolds, RoundConstants, ReplicaAssumption, UrlsAssumption,
     CounterAssumption
<1>2. Round!Agreement <=> Agreement
  BY DEF Round!Agreement, Agreement, Round!Height, Height
<1> QED
  BY <1>1, <1>2, RoundImplemented, PTL DEF ImplementsRound

THEOREM TxChainLinked == TxSpec => []ChainLinked
<1>1. Round!Spec => []Round!ChainLinked
  BY Round!ChainLinkedHolds, RoundConstants, ReplicaAssumption,
     UrlsAssumption, CounterAssumption
<1>2. Round!ChainLinked <=> ChainLinked
  BY DEF Round!ChainLinked, ChainLinked, Round!Height, Height
<1> QED
  BY <1>1, <1>2, RoundImplemented, PTL DEF ImplementsRound
-----------------------------------------------------------------------------
(* The sizes. *)

(* When the tally of the leader's round is full, nobody has anything left  *)
(* to do in the round.                                                     *)
LEMMA RoundOver ==
    ASSUME MapInv, Round!SInv,
           \/ Looks # {}
           \/ \E b \in Round!Made : b.index = Len(chain[Leader])
    PROVE  /\ \A n \in Replica : \E t \in Round!Sent : t.from = n
           /\ Waiting = {} /\ OnTheirWay = {}
           /\ pendingInfo = {} /\ pulled = {} /\ filling = {}
<1>1. \E b \in Round!Made : b.index = Len(chain[Leader])
  BY LookFacts
<1>2. Round!Cardinality(Round!Filed(commonTransMap, Round!RoundKey(Leader)))
        >= Round!Nodes
  BY <1>1 DEF MapInv, Round!IInv, Round!LInv, Round!FiredOnce
<1>3. /\ \A n \in Replica : \E t \in Round!Sent : t.from = n
      /\ Waiting = {} /\ OnTheirWay = {}
  BY <1>2, Round!FullRound, RoundConstants, ReplicaAssumption, UrlsAssumption,
     CounterAssumption
<1>4. pendingInfo = {} /\ pulled = {}
  BY <1>3 DEF Waiting
<1>5. filling = {}
  BY <1>3 DEF OnTheirWay, MapInv, ListOnce
<1> QED
  BY <1>3, <1>4, <1>5

(* In a round nobody is higher than the leader, and no size greater.       *)
LEMMA LeaderIsAhead ==
    ASSUME MapInv, Round!SInv, Round!KInv, Waiting # {}, NEW n \in Replica
    PROVE  transinblock[n] <= transinblock[Leader]
<1>1. \A b \in Round!Made : b.index # Len(chain[Leader]) /\ b.index <= Len(chain[Leader])
  BY RoundOver DEF MapInv, Round!IInv, Round!LInv, Round!OnLeader
<1>2. \A m \in Replica : /\ currBlock[m] \in Round!Made
                         /\ currBlock[m].index = Len(chain[m]) - 1
                         /\ Len(chain[m]) \in Nat \ {0}
  BY Round!ChainFacts, RoundConstants, ReplicaAssumption, UrlsAssumption,
     CounterAssumption DEF MapInv, Round!IInv
<1>3. Len(chain[n]) <= Len(chain[Leader])
  BY <1>1, <1>2, ReplicaAssumption
<1> QED
  BY <1>3, Round!SizesGrow, RoundConstants, ReplicaAssumption, UrlsAssumption,
     CounterAssumption

(* The messages of the round: those in flight and those on file. *)
LEMMA InFlight ==
    ASSUME MapInv
    PROVE  /\ OnTheirWay \subseteq Round!Current
           /\ \A g \in filling : TranOf(g) \in OnTheirWay
           /\ \A g \in Waiting : g.trigger \in Round!Triggers
           /\ \A t \in Round!Current : t.trigger \in Round!Triggers
BY DEF Round!Current, Round!Triggers, OnTheirWay, MapInv, ListOnce

(* A step that leaves the lists and the leader's size alone. *)
LEMMA ListFrame ==
    ASSUME ListInv, UNCHANGED <<pulled, filling, sent, hashTranMap, content>>,
           transinblock'[Leader] = transinblock[Leader],
           Round!Current' = Round!Current, Round!Triggers' \subseteq Round!Triggers,
           Looks' = Looks
    PROVE  ListInv'
BY DEF ListInv, SizeInRange, PullFits, ListsFit, OwnListFilled, LooksFit,
   BlockIsFull, InRound

(* The size a start begins with is in range. *)
LEMMA SendTxsLists ==
    ASSUME MaxStarts <= 1, SizeInv, SendTxs, UNCHANGED txVars
    PROVE  ListInv'
<1>1. starts = 0
  BY CounterAssumption DEF SendTxs, SizeInv, MapInv, Round!IInv, Round!BInv,
     Round!TypeOK
<1>2. transinblock[Leader] = TransInBlock
  BY <1>1, ReplicaAssumption DEF SizeInv, Round!SInv, Round!RoundInv,
     Round!NotStarted, Round!Init, Round!Fresh
<1>3. /\ UNCHANGED <<transinblock, times, commonTransMap, pendingTran>>
      /\ UNCHANGED <<pulled, filling, sent, hashTranMap, content, looking>>
  BY DEF SendTxs, txVars, stateVars, tallyVars
<1>4. Round!Current' = Round!Current /\ Looks' = Looks
  BY <1>3 DEF Round!Current, Round!Sent, Round!Filed, Round!RoundKey,
     OnTheirWay, Broadcast, Tallies, Looks
<1>5. SizeInRange'
  BY <1>2, <1>3, PoolAssumption DEF SizeInRange
<1> QED
  BY <1>3, <1>4, <1>5
  DEF SizeInv, ListInv, PullFits, ListsFit, OwnListFilled, LooksFit,
      BlockIsFull, InRound

(* A list that is cut in a round is no longer than the leader's.           *)
LEMMA PullLists ==
    ASSUME SizeInv, NEW g \in pendingInfo, Pull(g)
    PROVE  ListInv'
<1> DEFINE list == [at |-> g.at, trigger |-> g.trigger, size |-> transinblock[g.at]]
<1>1. /\ pulled' = pulled \cup {list}
      /\ UNCHANGED <<stateVars, tmpBlock, tallyVars, voteVars, starts>>
      /\ UNCHANGED <<filling, sent, hashTranMap, content, looking, pendingTran>>
  BY DEF Pull
<1>2. list.at = g.at /\ list.size = transinblock[g.at]
  OBVIOUS
<1> HIDE DEF list
<1>3. g \in Waiting /\ g.at \in Replica
  BY TxTypes DEF SizeInv
<1>4. transinblock[g.at] <= transinblock[Leader]
  BY <1>3, LeaderIsAhead DEF SizeInv
<1>5. transinblock[Leader] <= MaxTransInBlock
  BY <1>3, InFlight DEF SizeInv, ListInv, SizeInRange
<1>6. /\ transinblock[g.at] \in Nat /\ transinblock[Leader] \in Nat
      /\ MaxTransInBlock \in Nat /\ PoolSize \in Nat
      /\ MaxTransInBlock <= PoolSize
  BY <1>3, TxTypes, ReplicaAssumption, CounterAssumption, PoolAssumption
  DEF SizeInv
<1>7. Waiting' = Waiting
  BY PullMaps DEF SizeInv, Round!vars
<1>8. Round!Current' = Round!Current /\ Looks' = Looks
  BY <1>1 DEF Round!Current, Round!Sent, Round!Filed, Round!RoundKey,
     OnTheirWay, Broadcast, Tallies, Looks, stateVars, tallyVars
<1>9. transinblock' = transinblock /\ Round!Triggers' = Round!Triggers
  BY <1>1, <1>7, <1>8 DEF Round!Triggers, stateVars
<1>10. PullFits'
  BY <1>1, <1>2, <1>4, <1>5, <1>6 DEF SizeInv, ListInv, PullFits
<1>11. ListsFit'
  BY <1>1, <1>2, <1>4, <1>8, <1>9 DEF SizeInv, ListInv, ListsFit, InRound
<1> QED
  BY <1>1, <1>8, <1>9, <1>10, <1>11
  DEF SizeInv, ListInv, SizeInRange, OwnListFilled, LooksFit, BlockIsFull,
      InRound

LEMMA FillLists ==
    ASSUME SizeInv, NEW g \in pulled, Fill(g)
    PROVE  ListInv'
<1> DEFINE list == [at |-> g.at, trigger |-> g.trigger, size |-> g.size,
                    prev |-> currBlock[g.at].hash]
<1>1. /\ pulled' = pulled \ {g}
      /\ filling' = filling \cup {list}
      /\ UNCHANGED <<stateVars, tallyVars, pendingInfo, pendingTran>>
      /\ UNCHANGED <<sent, hashTranMap, content, looking>>
  BY DEF Fill, vars
<1>2. list.at = g.at /\ list.size = g.size /\ list.trigger = g.trigger
  OBVIOUS
<1> HIDE DEF list
<1>3. /\ Tallies' = Tallies /\ Broadcast' = Broadcast
      /\ Round!Sent' = Round!Sent /\ Looks' = Looks
      /\ transinblock' = transinblock
  BY <1>1 DEF Tallies, Broadcast, Round!Sent, Round!Filed, Round!RoundKey,
     Looks, stateVars, tallyVars
<1>4. /\ OnTheirWay \subseteq OnTheirWay'
      /\ OnTheirWay' \subseteq OnTheirWay \cup {TranOf(list)}
  BY <1>1, <1>3 DEF OnTheirWay
<1>5. TranOf(list).trigger \in Round!Triggers
  <2>1. [at |-> g.at, trigger |-> g.trigger] \in Waiting
    BY TxTypes DEF SizeInv
  <2> QED
    BY <1>2, <2>1, InFlight DEF SizeInv, TranOf
<1>6. Waiting' \subseteq Waiting
  BY <1>1 DEF Waiting
<1>7. /\ Round!Current \subseteq Round!Current'
      /\ Round!Current' \subseteq Round!Current \cup {TranOf(list)}
  BY <1>3, <1>4 DEF Round!Current
<1>8. Round!Triggers' \subseteq Round!Triggers
  <2>1. \A t \in Round!Current' : t.trigger \in Round!Triggers
    BY <1>5, <1>7, InFlight DEF SizeInv
  <2> QED
    BY <1>6, <2>1, InFlight DEF SizeInv, Round!Triggers
<1>9. InRound' = InRound
  <2>1. TranOf(list) \notin Broadcast
    <3>1. list \in filling'
      BY <1>1
    <3>2. ListOnce'
      BY FillMaps DEF SizeInv
    <3>3. (\A h \in filling : TranOf(h) \notin Broadcast)'
      BY <3>2 DEF ListOnce
    <3> QED
      BY <1>3, <3>1, <3>3 DEF TranOf
  <2>2. \A m \in sent : m.tran # TranOf(list)
    BY <2>1 DEF Broadcast
  <2> QED
    BY <1>1, <1>7, <2>2 DEF InRound
<1>10. PullFits' /\ ListsFit'
  BY <1>1, <1>2, <1>3, <1>9 DEF SizeInv, ListInv, PullFits, ListsFit
<1> QED
  BY <1>1, <1>3, <1>8, <1>9, <1>10
  DEF SizeInv, ListInv, SizeInRange, OwnListFilled, LooksFit, BlockIsFull

(* The map has the longest list that was written to it. *)
LEMMA SendHashesLists ==
    ASSUME SizeInv, NEW g \in filling, SendHashes(g)
    PROVE  ListInv'
<1> DEFINE list == [tran |-> TranOf(g), size |-> g.size]
           size == transinblock[Leader]
<1>1. /\ filling' = filling \ {g}
      /\ hashTranMap' = [hashTranMap EXCEPT ![g.at] = Max({@, g.size})]
      /\ sent' = sent \cup {list}
      /\ UNCHANGED <<stateVars, tmpBlock, tallyVars, voteVars, starts>>
      /\ UNCHANGED <<pulled, content, looking>>
  BY DEF SendHashes
<1>2. list.tran = TranOf(g) /\ list.size = g.size /\ list.tran.from = g.at
  BY DEF TranOf
<1> HIDE DEF list
<1>3. UNCHANGED Round!vars
  BY SendHashesMaps DEF SizeInv
<1>4. /\ Round!Current' = Round!Current /\ Round!Triggers' = Round!Triggers
      /\ transinblock' = transinblock /\ Looks' = Looks
  BY <1>1, <1>3 DEF Round!vars, Round!stateVars, Round!tallyVars,
     Round!Current, Round!Triggers, Round!Sent, Round!Filed, Round!RoundKey,
     Looks
<1>5. /\ size \in Nat /\ g.size \in Nat /\ hashTranMap[Leader] \in Nat
      /\ g.size <= size /\ hashTranMap[Leader] <= size
      /\ g.at = Leader => g.size = size
      /\ hashTranMap \in [Replica -> Nat]
  BY TxTypes, ReplicaAssumption
  DEF SizeInv, MapInv, PulledType, ListInv, ListsFit
<1>6. hashTranMap'[Leader] =
         IF g.at = Leader THEN size ELSE hashTranMap[Leader]
  <2>1. CASE g.at = Leader
    <3>1. hashTranMap'[Leader] = Max({hashTranMap[Leader], g.size})
      BY <1>1, <1>5, <2>1, ReplicaAssumption
    <3> QED
      BY <1>5, <2>1, <3>1, MaxOfTwo
  <2>2. CASE g.at # Leader
    BY <1>1, <1>5, <2>2, ReplicaAssumption
  <2> QED
    BY <2>1, <2>2
<1>7. ListsFit'
  BY <1>1, <1>2, <1>4, <1>5, <1>6 DEF SizeInv, ListInv, ListsFit, InRound
<1>8. OwnListFilled'
  BY <1>1, <1>2, <1>4, <1>6 DEF SizeInv, ListInv, OwnListFilled, InRound
<1>9. LooksFit'
  BY <1>4, <1>6 DEF SizeInv, ListInv, LooksFit
<1> QED
  BY <1>1, <1>4, <1>7, <1>8, <1>9
  DEF SizeInv, ListInv, SizeInRange, PullFits, BlockIsFull

LEMMA MaxIs ==
    ASSUME NEW S \in SUBSET Nat, NEW k \in S, \A x \in S : x <= k
    PROVE  Max(S) = k
<1>1. k \in S /\ \A y \in S : k >= y
  OBVIOUS
<1>2. Max(S) \in S /\ \A y \in S : Max(S) >= y
  BY <1>1 DEF Max
<1>3. Max(S) >= k /\ Max(S) <= k /\ Max(S) \in Nat /\ k \in Nat
  BY <1>2
<1> QED
  BY <1>3

(* A full tally has the leader's own list, so the union has its size, and  *)
(* the map has the list by then.                                           *)
LEMMA FullUnion ==
    ASSUME SizeInv, NEW t \in pendingTran,
           NEW list, list = Filed(commonTransMap, RoundKey(Leader)) \cup
                               {[key |-> RoundKey(Leader), tran |-> t]},
           Full(list)
    PROVE  /\ Union(list) = transinblock[Leader]
           /\ hashTranMap[Leader] = transinblock[Leader]
<1> DEFINE size  == transinblock[Leader]
           entry == [key |-> RoundKey(Leader), tran |-> t]
           old   == Filed(commonTransMap, RoundKey(Leader))
<1>1. /\ t \in Broadcast /\ t \notin Tallies
      /\ t \in OnTheirWay /\ t \in Round!Current
  BY DEF SizeInv, MapInv, ListOnce, OnTheirWay, Round!Current
<1>2. old = Round!Filed(commonTransMap, Round!RoundKey(Leader))
  BY DEF Round!Filed, Filed, Round!RoundKey, RoundKey
<1>3. \A e \in old : /\ e \in commonTransMap
                     /\ e.key = RoundKey(Leader)
                     /\ e.tran \in Tran /\ e.tran \in Tallies
                     /\ e.tran \in Round!Sent
                     /\ e = [key |-> e.key, tran |-> e.tran]
  BY <1>2, TxTypes DEF SizeInv, Filed, Tallies, Round!Sent
<1>4. entry.tran = t /\ entry.key = RoundKey(Leader) /\ list = old \cup {entry}
  OBVIOUS
<1>5. t \in Tran
  <2>1. t \in {m.tran : m \in sent}
    BY <1>1 DEF Broadcast
  <2> QED
    BY <2>1, TxTypes DEF SizeInv
<1> HIDE DEF entry
<1>6. \A e \in list : e.tran \in Round!Current /\ e.tran.from \in Replica
  BY <1>1, <1>3, <1>4, <1>5 DEF Round!Current, Tran
<1>7. \A d, e \in list : d.tran.from = e.tran.from => d = e
  <2>1. \A d, e \in list : d.tran.from = e.tran.from => d.tran = e.tran
    BY <1>6 DEF SizeInv, Round!SInv, Round!RoundInv, Round!SentOnce
  <2>2. \A e \in old : e.tran # t
    BY <1>1, <1>3
  <2> QED
    BY <1>3, <1>4, <2>1, <2>2
<1>8. IsFiniteSet(list)
  <2>1. IsFiniteSet(commonTransMap)
    <3>1. Round!IsFiniteSet(commonTransMap)
      BY DEF SizeInv, MapInv, Round!IInv, Round!LInv
    <3> QED
      BY <3>1 DEF Round!IsFiniteSet, IsFiniteSet
  <2>2. IsFiniteSet(old)
    BY <2>1, FS_Subset DEF Filed
  <2> QED
    BY <1>4, <2>2, FS_AddElement
<1>9. PICK own \in list : own.tran.from = Leader
  <2>1. Cardinality(list) >= Nodes
    BY <1>8, FS_CardinalityType DEF Full
  <2>2. Round!IsFiniteSet(list) /\ Round!Cardinality(list) >= Round!Nodes
    BY <1>8, <2>1, RoundConstants DEF Round!IsFiniteSet, IsFiniteSet
  <2>3. \A n \in Replica : \E e \in list : e.tran.from = n
    BY <1>6, <1>7, <2>2, Round!FullHasAll, RoundConstants, ReplicaAssumption,
       UrlsAssumption, CounterAssumption
  <2> QED
    BY <2>3, ReplicaAssumption
<1>10. own.tran \in Broadcast
  BY <1>1, <1>3, <1>4 DEF SizeInv, MapInv, ListOnce
<1>11. PICK m \in sent : m.tran = own.tran
  BY <1>10 DEF Broadcast
<1>12. m \in InRound /\ m.tran.from = Leader
  BY <1>6, <1>9, <1>11 DEF InRound
<1>13. m.size = size /\ hashTranMap[Leader] = size
  BY <1>12 DEF SizeInv, ListInv, ListsFit, OwnListFilled
<1>14. /\ Sizes(list) \in SUBSET Nat /\ m.size \in Sizes(list)
       /\ \A x \in Sizes(list) : x <= size
  <2>1. \A k \in sent : k.size \in Nat /\ k.size <= size
    BY TxTypes DEF SizeInv, ListInv, ListsFit
  <2> QED
    BY <1>11, <2>1 DEF Sizes
<1>15. Union(list) = size
  BY <1>13, <1>14, MaxIs DEF Union
<1> QED
  BY <1>13, <1>15

LEMMA LeaderReceivesLists ==
    ASSUME SizeInv, NEW t \in pendingTran, LeaderReceives(t)
    PROVE  ListInv'
<1> DEFINE entry == [key |-> RoundKey(Leader), tran |-> t]
           list  == Filed(commonTransMap, RoundKey(Leader)) \cup {entry}
           look  == [at |-> Leader, old |-> currBlock[Leader], wanted |-> Union(list)]
<1>1. /\ commonTransMap' = commonTransMap \cup {entry}
      /\ pendingTran' = pendingTran \ {t}
      /\ UNCHANGED <<stateVars, pendingInfo>>
      /\ UNCHANGED <<pulled, filling, sent, hashTranMap, content>>
  BY DEF LeaderReceives, Tallied
<1>2. Filed(commonTransMap \cup {entry}, RoundKey(Leader)) = list
  BY DEF Filed
<1>3. looking' \subseteq looking \cup {look} /\ (~Full(list) => looking' = looking)
  BY <1>2 DEF LeaderReceives, Lookup, Tallied
<1>4. t \in Broadcast /\ t \notin Tallies
  BY DEF SizeInv, MapInv, ListOnce
<1>5. /\ entry.tran = t /\ entry.key = RoundKey(Leader)
      /\ entry.key = Round!RoundKey(Leader) /\ look.wanted = Union(list)
  BY DEF Round!RoundKey, RoundKey
<1>6. /\ Waiting' = Waiting /\ Broadcast' = Broadcast
      /\ transinblock' = transinblock /\ Round!RoundKey(Leader)' = Round!RoundKey(Leader)
  BY <1>1 DEF Waiting, Broadcast, stateVars, Round!RoundKey
<1> HIDE DEF entry
<1>7. Tallies' = Tallies \cup {t} /\ Round!Sent' = Round!Sent \cup {t}
  BY <1>1, <1>5, <1>6 DEF Tallies, Round!Sent, Round!Filed
<1>8. OnTheirWay' = OnTheirWay \ {t} /\ t \in OnTheirWay
  BY <1>1, <1>4, <1>6, <1>7 DEF OnTheirWay
<1>9. Round!Current' = Round!Current
  BY <1>7, <1>8 DEF Round!Current
<1>10. Round!Triggers' = Round!Triggers
  BY <1>6, <1>9 DEF Round!Triggers
<1>11. LooksFit'
  <2>1. CASE Full(list)
    <3>1. /\ Union(list) = transinblock[Leader]
          /\ hashTranMap[Leader] = transinblock[Leader]
      BY <2>1, FullUnion DEF entry
    <3> HIDE DEF look
    <3> QED
      BY <1>1, <1>3, <1>5, <1>6, <3>1 DEF SizeInv, ListInv, LooksFit, Looks
  <2>2. CASE ~Full(list)
    BY <1>1, <1>3, <1>6, <2>2 DEF SizeInv, ListInv, LooksFit, Looks
  <2> QED
    BY <2>1, <2>2
<1> QED
  BY <1>1, <1>6, <1>9, <1>10, <1>11
  DEF SizeInv, ListInv, SizeInRange, PullFits, ListsFit, OwnListFilled,
      BlockIsFull, InRound

(* The block is made of the leader's whole list.                           *)
LEMMA GenerateLists ==
    ASSUME SizeInv, NEW g \in looking, Generate(g)
    PROVE  ListInv'
<1>1. /\ looking' = looking \ {g}
      /\ UNCHANGED <<stateVars, tallyVars, pendingInfo, pendingTran>>
      /\ UNCHANGED <<pulled, filling, hashTranMap, sent>>
  BY DEF Generate
<1>2. /\ Waiting' = Waiting /\ OnTheirWay' = OnTheirWay
      /\ Round!Sent' = Round!Sent /\ transinblock' = transinblock
  BY <1>1 DEF Waiting, OnTheirWay, Broadcast, Tallies, stateVars, tallyVars,
     Round!Sent, Round!Filed, Round!RoundKey
<1>3. Round!Current' = Round!Current /\ Round!Triggers' = Round!Triggers
  BY <1>2 DEF Round!Current, Round!Triggers
<1>4. LooksFit'
  BY <1>1, <1>2 DEF SizeInv, ListInv, LooksFit, Looks
<1>5. BlockIsFull'
  <2>1. CASE g.at = Leader
    <3> DEFINE made == [block |-> GenerateBlock(g.old, clock + 1),
                        size |-> Min({g.wanted, hashTranMap[g.at]})]
    <3>1. content' = content \cup {made}
      BY <2>1 DEF Generate
    <3>2. g \in Looks
      BY <2>1 DEF Looks
    <3>3. /\ g.wanted = transinblock[Leader]
          /\ hashTranMap[Leader] = transinblock[Leader]
          /\ g.old = currBlock[Leader]
      BY <3>2 DEF SizeInv, ListInv, LooksFit, MapInv, OneLook
    <3>4. Min({g.wanted, hashTranMap[g.at]}) = transinblock[Leader]
      <4>1. transinblock[Leader] \in Nat
        BY TxTypes, ReplicaAssumption DEF SizeInv
      <4> QED
        BY <2>1, <3>3, <4>1 DEF Min
    <3>5. /\ currBlock[Leader].index = Len(chain[Leader]) - 1
          /\ Len(chain[Leader]) \in Nat
      BY Round!ChainFacts, RoundConstants, ReplicaAssumption, UrlsAssumption,
         CounterAssumption DEF SizeInv, MapInv, Round!IInv
    <3>6. made.block.index = Len(chain[Leader])
      BY <3>3, <3>5 DEF GenerateBlock
    <3>7. made.size = transinblock[Leader]
      BY <3>4
    <3>8. transinblock[Leader] =
             TransInBlock + TransChangeStep * ((Len(chain[Leader]) - 1) \div Rounds)
      BY Round!SizeOfHeight, RoundConstants, ReplicaAssumption,
         UrlsAssumption, CounterAssumption DEF SizeInv
    <3> HIDE DEF made
    <3>9. made.size =
             TransInBlock + TransChangeStep * ((made.block.index - 1) \div Rounds)
      BY <3>6, <3>7, <3>8
    <3> QED
      BY <3>1, <3>9 DEF SizeInv, ListInv, BlockIsFull
  <2>2. CASE g.at # Leader
    BY <2>2 DEF Generate, SizeInv, ListInv, BlockIsFull
  <2> QED
    BY <2>1, <2>2
<1> QED
  BY <1>1, <1>2, <1>3, <1>4, <1>5
  DEF SizeInv, ListInv, SizeInRange, PullFits, ListsFit, OwnListFilled, InRound

(* The leader's store ends the round and begins the next, if the size it   *)
(* has then is in range.                                                   *)
LEMMA StoreLists ==
    ASSUME SizeInv, NEW s \in storing, StoreBlock(s), UNCHANGED txVars
    PROVE  ListInv'
<1>1. /\ UNCHANGED <<commonTransMap, pendingTran>>
      /\ UNCHANGED <<pulled, filling, sent, hashTranMap, content, looking>>
  BY DEF StoreBlock, txVars, tallyVars
<1>2. /\ OnTheirWay' = OnTheirWay /\ Looks' = Looks
  BY <1>1 DEF OnTheirWay, Broadcast, Tallies, Looks
<1>3. /\ transinblock \in [Replica -> Nat] /\ times \in [Replica -> Nat]
      /\ Leader \in Replica
  BY TxTypes, ReplicaAssumption DEF SizeInv
<1>4. CASE UNCHANGED <<pendingInfo, times, transinblock>> \/
           (UNCHANGED pendingInfo /\ times'[Leader] = times[Leader]
            /\ transinblock'[Leader] = transinblock[Leader])
  <2>1. /\ Waiting' = Waiting /\ Round!Sent' = Round!Sent
        /\ transinblock'[Leader] = transinblock[Leader]
    BY <1>1, <1>4 DEF Waiting, Round!Sent, Round!Filed, Round!RoundKey
  <2>2. Round!Current' = Round!Current /\ Round!Triggers' = Round!Triggers
    BY <1>2, <2>1 DEF Round!Current, Round!Triggers
  <2> QED
    BY <1>1, <1>2, <2>1, <2>2, ListFrame DEF SizeInv
<1>5. CASE Open(s.at, s.hash) /\ s.at = Leader
  <2> DEFINE b == tmpBlock[Leader]
             size == transinblock[Leader]
  <2>1. b \in Round!Made /\ b.index = Len(chain[Leader])
    BY <1>5, Round!OpenNext, RoundConstants, ReplicaAssumption,
       UrlsAssumption, CounterAssumption
    DEF SizeInv, MapInv, Round!IInv, Round!Open, Open
  <2>2. /\ \A n \in Replica : \E t \in Round!Sent : t.from = n
        /\ OnTheirWay = {} /\ Waiting = {} /\ pendingInfo = {}
        /\ pulled = {} /\ filling = {}
    BY <2>1, RoundOver DEF SizeInv
  <2>3. Looks = {}
    <3> SUFFICES ASSUME Looks # {} PROVE FALSE
      OBVIOUS
    <3>1. PICK c \in Round!Made : c.index = Len(chain[Leader]) /\ b # c
      BY <1>3, LookFacts DEF SizeInv
    <3> QED
      BY <2>1, <3>1
      DEF SizeInv, MapInv, Round!IInv, Round!BInv, Round!UniqueIndex
  <2>4. /\ transinblock'[Leader] = NextSize(Leader)
        /\ IF GoesOn(Leader)
           THEN \E to \in Reach :
                   pendingInfo' = pendingInfo \cup Testinfo(to, <<0, b.hash>>)
           ELSE pendingInfo' = pendingInfo
    BY <1>3, <1>5 DEF StoreBlock, Store
  <2>5. size \in Nat /\ NextSize(Leader) \in Nat /\ size <= NextSize(Leader)
    BY <1>3, CounterAssumption DEF NextSize
  <2>6. size <= MaxTransInBlock
    <3>1. Round!Sent # {}
      BY <1>3, <2>2
    <3>2. Round!Triggers # {}
      BY <3>1 DEF Round!Triggers, Round!Current
    <3> QED
      BY <3>2 DEF SizeInv, ListInv, SizeInRange
  <2>7. Round!Sent' = {}
    <3>1. /\ times' = [times EXCEPT ![Leader] = NextTimes(Leader)]
          /\ transinblock' = [transinblock EXCEPT ![Leader] = NextSize(Leader)]
      BY <1>5 DEF StoreBlock, Store
    <3>2. /\ Round!NextTimes(Leader) = NextTimes(Leader)
          /\ Round!NextSize(Leader) = NextSize(Leader)
      BY DEF Round!NextTimes, NextTimes, Round!NextSize, NextSize,
         Round!LastOfSize, LastOfSize
    <3>3. /\ times'[Leader] = Round!NextTimes(Leader)
          /\ transinblock'[Leader] = Round!NextSize(Leader)
      BY <1>3, <3>1, <3>2
    <3>4. Round!TypeOK /\ Round!PastKeys
      BY DEF SizeInv, MapInv, Round!IInv, Round!BInv, Round!SInv, Round!RoundInv
    <3> QED
      BY <1>1, <3>3, <3>4, Round!KeysMoveOn, RoundConstants,
         ReplicaAssumption, UrlsAssumption, CounterAssumption
  <2>8. Round!Current' = {}
    BY <1>2, <2>2, <2>7 DEF Round!Current
  <2>9. SizeInRange'
    <3> SUFFICES ASSUME Round!Triggers' # {}
                 PROVE  transinblock'[Leader] <= MaxTransInBlock
      BY DEF SizeInRange
    <3>1. Waiting' # {}
      BY <2>8 DEF Round!Triggers
    <3>2. pendingInfo' # {}
      BY <1>1, <2>2, <3>1 DEF Waiting
    <3>3. GoesOn(Leader)
      BY <2>2, <2>4, <3>2
    <3> QED
      BY <2>4, <2>6, <3>3 DEF GoesOn, NextSize
  <2>10. PullFits' /\ LooksFit' /\ BlockIsFull'
    BY <1>1, <1>2, <2>2, <2>3
    DEF PullFits, LooksFit, SizeInv, ListInv, BlockIsFull
  <2>11. InRound' = {}
    BY <2>8 DEF InRound
  <2>12. ListsFit' /\ OwnListFilled'
    <3>1. \A m \in sent : m.size \in Nat
      BY TxTypes DEF SizeInv
    <3>2. hashTranMap[Leader] \in Nat
      BY <1>3 DEF SizeInv, MapInv, PulledType
    <3> QED
      BY <1>1, <2>2, <2>4, <2>5, <2>11, <3>1, <3>2
      DEF SizeInv, ListInv, ListsFit, OwnListFilled
  <2> QED
    BY <2>9, <2>10, <2>12 DEF ListInv
<1>6. CASE ~(Open(s.at, s.hash) /\ s.at = Leader)
  <2>1. CASE ~Open(s.at, s.hash)
    BY <1>4, <2>1 DEF StoreBlock, stateVars
  <2>2. CASE s.at # Leader /\ Open(s.at, s.hash)
    BY <1>3, <1>4, <2>2 DEF StoreBlock, Store
  <2> QED
    BY <1>6, <2>1, <2>2
<1> QED
  BY <1>5, <1>6

LEMMA BlockHandlersLists ==
    ASSUME SizeInv, BlockHandlers
    PROVE  ListInv'
<1>1. UNCHANGED txVars
  BY DEF BlockHandlers
<1>2. CASE UNCHANGED <<stateVars, commonTransMap, pendingInfo, pendingTran>>
  <2>1. /\ UNCHANGED <<times, transinblock, commonTransMap, pendingInfo>>
        /\ UNCHANGED <<pulled, filling, sent, hashTranMap, content, looking>>
    BY <1>1, <1>2 DEF txVars, stateVars
  <2>2. /\ Waiting' = Waiting /\ Round!Sent' = Round!Sent
        /\ OnTheirWay' = OnTheirWay /\ Looks' = Looks
    BY <2>1 DEF Waiting, Round!Sent, Round!Filed, Round!RoundKey, OnTheirWay,
       Broadcast, Tallies, Looks
  <2>3. Round!Current' = Round!Current /\ Round!Triggers' = Round!Triggers
    BY <2>2 DEF Round!Current, Round!Triggers
  <2> QED
    BY <2>1, <2>2, <2>3, ListFrame DEF SizeInv
<1> QED
  BY <1>1, <1>2, StoreLists
  DEF BlockHandlers, RecBlock, LoseBlock, Verify, SetTmpB, Vote1, Vote2,
      tallyVars

LEMMA TxInitSizes == TxInit => SizeInv
<1> SUFFICES ASSUME TxInit PROVE SizeInv
  OBVIOUS
<1>1. Round!Init /\ MapInv
  BY TxInitMaps
<1>2. Round!SInv /\ Round!KInv
  BY <1>1, Round!InitSInv, Round!InitKInv, RoundConstants, ReplicaAssumption,
     UrlsAssumption, CounterAssumption
<1>3. /\ pulled = {} /\ filling = {} /\ sent = {} /\ looking = {}
      /\ content = {} /\ hashTranMap[Leader] = 0
      /\ transinblock[Leader] = TransInBlock
  BY ReplicaAssumption DEF TxInit, Init, Fresh
<1>4. ListInv
  BY <1>3, CounterAssumption, PoolAssumption
  DEF ListInv, SizeInRange, PullFits, ListsFit, OwnListFilled, LooksFit,
      BlockIsFull, InRound, Looks
<1> QED
  BY <1>1, <1>2, <1>4 DEF SizeInv

LEMMA TxNextSizes ==
    ASSUME MaxStarts <= 1, SizeInv, [TxNext]_roundVars
    PROVE  SizeInv'
<1>1. [Round!Next]_Round!vars /\ MapInv'
  BY TxNextMaps DEF SizeInv
<1>2. Round!SInv' /\ Round!KInv'
  BY <1>1, Round!NextSInv, Round!NextKInv, RoundConstants, ReplicaAssumption,
     UrlsAssumption, CounterAssumption DEF SizeInv
<1>3. ListInv'
  <2>1. ASSUME NEW a \in arrived, OtherReceives(a) PROVE ListInv'
    <3>1. UNCHANGED Round!vars
      BY <2>1, OtherReceivesMaps DEF SizeInv
    <3>2. /\ transinblock' = transinblock
          /\ Round!Current' = Round!Current /\ Round!Triggers' = Round!Triggers
      BY <3>1 DEF Round!vars, Round!stateVars, Round!tallyVars, Round!Current,
         Round!Triggers, Round!Sent, Round!Filed, Round!RoundKey
    <3>3. UNCHANGED <<pulled, filling, sent, hashTranMap, content>>
      BY <2>1 DEF OtherReceives
    <3>4. a.at # Leader
      BY <2>1 DEF SizeInv, MapInv, PulledType
    <3>5. Looks' = Looks
      BY <2>1, <3>4 DEF OtherReceives, Lookup, Looks
    <3> QED
      BY <3>2, <3>3, <3>5, ListFrame DEF SizeInv
  <2>2. CASE UNCHANGED roundVars
    <3>1. /\ UNCHANGED <<times, transinblock, commonTransMap, pendingInfo>>
          /\ UNCHANGED <<pulled, filling, sent, hashTranMap, content, looking>>
      BY <2>2 DEF roundVars, vars, stateVars, tallyVars, txVars
    <3>2. /\ Waiting' = Waiting /\ Round!Sent' = Round!Sent
          /\ OnTheirWay' = OnTheirWay /\ Looks' = Looks
      BY <3>1 DEF Waiting, Round!Sent, Round!Filed, Round!RoundKey, OnTheirWay,
         Broadcast, Tallies, Looks
    <3>3. Round!Current' = Round!Current /\ Round!Triggers' = Round!Triggers
      BY <3>2 DEF Round!Current, Round!Triggers
    <3> QED
      BY <3>1, <3>2, <3>3, ListFrame DEF SizeInv
  <2> QED
    BY <2>1, <2>2, SendTxsLists, PullLists, FillLists, SendHashesLists,
       LeaderReceivesLists, GenerateLists, BlockHandlersLists DEF TxNext
<1> QED
  BY <1>1, <1>2, <1>3 DEF SizeInv

LEMMA SizesHold ==
    ASSUME MaxStarts <= 1
    PROVE  TxSpec => []SizeInv
<1>1. TxInit => SizeInv  BY TxInitSizes
<1>2. SizeInv /\ [TxNext]_roundVars => SizeInv'  BY TxNextSizes
<1> QED  BY <1>1, <1>2, PTL DEF TxSpec

(* With one start, no replica slices its pool beyond its end, or beyond    *)
(* MaxTransInBlock, however many blocks it is behind.                      *)
THEOREM PullFitsHolds ==
    ASSUME MaxStarts <= 1
    PROVE  TxSpec => []PullFits
<1>1. SizeInv => PullFits  BY DEF SizeInv, ListInv
<1> QED  BY <1>1, SizesHold, PTL

(* With one start, the block of a round has the size due at its height:    *)
(* the leader's own list, of that size, is in its map when the tally fires.*)
THEOREM BlockIsFullHolds ==
    ASSUME MaxStarts <= 1
    PROVE  TxSpec => []BlockIsFull
<1>1. SizeInv => BlockIsFull  BY DEF SizeInv, ListInv
<1> QED  BY <1>1, SizesHold, PTL
=============================================================================
