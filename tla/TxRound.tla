------------------------------ MODULE TxRound ------------------------------
(***************************************************************************)
(* The block round with the transactions in it.  Each replica reads the    *)
(* first transinblock transactions of its pool, files them by hash in the  *)
(* plain map HashTranMap and broadcasts the hashes; a replica that has all *)
(* broadcasts takes the union of the hashes and looks it up in its map in  *)
(* a goroutine of its own, and the leader's becomes the next block.        *)
(*                                                                         *)
(* A list of transactions is its length: every pool holds the same         *)
(* transactions in the same order (generateTx), nothing takes them out     *)
(* (pullTransV2 only reads), and what receiveTx would append is refused,   *)
(* because the pool is stored as one string.  So every list is a beginning *)
(* of the pool, a union of lists the longest of them, and a lookup the     *)
(* shorter of what is asked for and what the map has.                      *)
(*                                                                         *)
(* The map is read and written without a lock.  The Go runtime ends a      *)
(* program it catches writing a map that another goroutine is using, so    *)
(* the model has a state for a goroutine that is at the map.               *)
(*                                                                         *)
(* The tallies are those of Consensus, load, Store and second Load in one  *)
(* step, so one goroutine makes the block of a round.  That two may is the *)
(* subject of ConsensusRace, and outside this module.                      *)
(***************************************************************************)
EXTENDS Consensus, FiniteSetsExt

CONSTANT PoolSize  \* transactions in every pool: generateTx

(* The sizes grow from 4000 to 6000, and 300001 transactions are made for  *)
(* each pool.                                                              *)
ASSUME PoolAssumption ==
    /\ PoolSize \in Nat
    /\ TransInBlock <= MaxTransInBlock
    /\ MaxTransInBlock <= PoolSize

VARIABLES
    pulled,       \* goroutines of SendTransV2 that have their list
    filling,      \* the same goroutines, writing HashTranMap
    hashTranMap,  \* [replica -> length of the list its map has]
    sent,         \* the lists that were broadcast
    arrived,      \* goroutines of receiveTran at the other replicas
    collected,    \* [replica -> entries of its transaction tally]
    looking,      \* goroutines of generateFromCommonTxV2, reading the map
    content       \* [block, size] of the blocks generated

txVars == <<pulled, filling, hashTranMap, sent, arrived, collected, looking,
            content>>

roundVars == <<vars, txVars>>

TxInit ==
    /\ Init
    /\ pulled = {}
    /\ filling = {}
    /\ hashTranMap = [n \in Replica |-> 0]
    /\ sent = {}
    /\ arrived = {}
    /\ collected = [n \in Replica |-> {}]
    /\ looking = {}
    /\ content = {}

(* pullTransV2: the slice of a pool that is too short panics, and the      *)
(* process with it; PullFits says that it never is.                        *)
Pull(g) ==
    /\ pendingInfo' = pendingInfo \ {g}
    /\ pulled' = pulled \cup
          {[at |-> g.at, trigger |-> g.trigger, size |-> transinblock[g.at]]}
    /\ UNCHANGED <<stateVars, tmpBlock, tallyVars, pendingTran, proposals,
                   voteVars, clock, starts, filling, hashTranMap, sent,
                   arrived, collected, looking, content>>

(* SendTransV2 reads the current block and begins to fill the map. *)
Fill(g) ==
    /\ pulled' = pulled \ {g}
    /\ filling' = filling \cup
          {[at |-> g.at, trigger |-> g.trigger, size |-> g.size,
            prev |-> currBlock[g.at].hash]}
    /\ UNCHANGED <<vars, hashTranMap, sent, arrived, collected, looking,
                   content>>

TranOf(g) == [from |-> g.at, trigger |-> g.trigger, prev |-> g.prev]

(* The map is filled, and the hashes are broadcast. *)
SendHashes(g) ==
    /\ filling' = filling \ {g}
    /\ hashTranMap' = [hashTranMap EXCEPT ![g.at] = Max({@, g.size})]
    /\ sent' = sent \cup {[tran |-> TranOf(g), size |-> g.size]}
    /\ \E to \in Reach :
          /\ pendingTran' = IF Leader \in to THEN pendingTran \cup {TranOf(g)}
                                             ELSE pendingTran
          /\ arrived' = arrived \cup
                {[at |-> n, tran |-> TranOf(g)] : n \in to \ {Leader}}
    /\ UNCHANGED <<stateVars, tmpBlock, tallyVars, pendingInfo, proposals,
                   voteVars, clock, starts, pulled, collected, looking,
                   content>>

(* The lengths of the lists whose messages are in a tally. *)
Sizes(list) == {s.size : s \in {m \in sent : \E e \in list : e.tran = m.tran}}

(* A faulty variant of the definition that follows: the intersection. *)
UnionBug(list) == Min(Sizes(list))

(* mapset: the hashes of all lists of a tally. *)
Union(list) == Max(Sizes(list))

(* receiveTran at n, whose tally is the set `before' so far: what it is    *)
(* afterwards, and the goroutine of generateFromCommonTxV2 if it is full.  *)
Tallied(n, before, t) ==
    before \cup {[key |-> RoundKey(n), tran |-> t]}

(* A faulty variant of the definition that follows: a list that is full is *)
(* looked up although its sender was a block behind.                       *)
LookupBug(n, before, t) ==
    LET list == Filed(Tallied(n, before, t), RoundKey(n))
    IN  IF Full(list)
        THEN {[at |-> n, old |-> currBlock[n], wanted |-> Union(list)]}
        ELSE {}

Lookup(n, before, t) ==
    LET list == Filed(Tallied(n, before, t), RoundKey(n))
    IN  IF Full(list) /\ t.prev = currBlock[n].hash
        THEN {[at |-> n, old |-> currBlock[n], wanted |-> Union(list)]}
        ELSE {}

LeaderReceives(t) ==
    /\ pendingTran' = pendingTran \ {t}
    /\ commonTransMap' = Tallied(Leader, commonTransMap, t)
    /\ looking' = looking \cup Lookup(Leader, commonTransMap, t)
    /\ UNCHANGED <<stateVars, tmpBlock, round1Map, round2Map, pendingInfo,
                   proposals, voteVars, clock, starts, pulled, filling,
                   hashTranMap, sent, arrived, collected, content>>

OtherReceives(a) ==
    /\ arrived' = arrived \ {a}
    /\ collected' = [collected EXCEPT ![a.at] = Tallied(a.at, @, a.tran)]
    /\ looking' = looking \cup Lookup(a.at, collected[a.at], a.tran)
    /\ UNCHANGED <<vars, pulled, filling, hashTranMap, sent, content>>

(* generateFromCommonTxV2: everybody looks the hashes up for a check that  *)
(* is not made (commonTransList); only the leader makes a block.           *)
Generate(g) ==
    /\ looking' = looking \ {g}
    /\ IF g.at = Leader
       THEN /\ clock' = clock + 1
            /\ proposals' = proposals \cup {Proposal(g.old, clock + 1)}
            /\ content' = content \cup
                  {[block |-> GenerateBlock(g.old, clock + 1),
                    size |-> Min({g.wanted, hashTranMap[g.at]})]}
       ELSE UNCHANGED <<clock, proposals, content>>
    /\ UNCHANGED <<stateVars, tmpBlock, tallyVars, pendingInfo, pendingTran,
                   voteVars, starts, pulled, filling, hashTranMap, sent,
                   arrived, collected>>

(* The handlers that come after the block, as they are in Consensus. *)
BlockHandlers ==
    /\ \/ \E p \in proposals : RecBlock(p) \/ LoseBlock(p)
       \/ \E g \in verifying : Verify(g)
       \/ \E g \in verified : SetTmpB(g)
       \/ \E v \in pendingVote1 : Vote1(v)
       \/ \E v \in pendingVote2 : Vote2(v)
       \/ \E s \in storing : StoreBlock(s)
    /\ UNCHANGED txVars

TxNext ==
    \/ SendTxs /\ UNCHANGED txVars
    \/ \E g \in pendingInfo : Pull(g)
    \/ \E g \in pulled : Fill(g)
    \/ \E g \in filling : SendHashes(g)
    \/ \E t \in pendingTran : LeaderReceives(t)
    \/ \E a \in arrived : OtherReceives(a)
    \/ \E g \in looking : Generate(g)
    \/ BlockHandlers

TxSpec == TxInit /\ [][TxNext]_roundVars
----------------------------------------------------------------------------
(* A block holds as many transactions as the size that is due at its       *)
(* height, although the lists it is made from are cut by replicas that may *)
(* be a block behind, and looked up in a map another goroutine fills.      *)
BlockIsFull ==
    \A c \in content :
        c.size = TransInBlock + TransChangeStep * ((c.block.index - 1) \div Rounds)

(* No slice is longer than the pool, and none longer than the greatest     *)
(* size: a replica grows its size without looking at MaxTransInBlock, only *)
(* the leader's not starting another round keeps it from being used.       *)
PullFits ==
    \A g \in pulled : g.size <= MaxTransInBlock /\ g.size <= PoolSize

(* recBlockVoteRound1.go:114: maps several goroutines use are to be        *)
(* protected "so that concurrent reads and writes do not corrupt the map". *)
(* HashTranMap is such a map at every replica.  It fails at those that are *)
(* not the leader.  At the leader it is not a question to this module,     *)
(* whose tally is one step: where two goroutines find the list full        *)
(* (ConsensusRace), the later of them may be at the map when the next      *)
(* list is written to it.                                                  *)
MapExclusive ==
    \A g \in filling :
        /\ \A h \in filling : g.at = h.at => g = h
        /\ \A h \in looking : g.at # h.at

(* The trigger of the round a block was made in, after a single start. *)
RoundOf(b) == IF b.prev = Genesis.hash THEN <<1, 0>> ELSE <<0, b.prev>>

(* rtbitarry.go:62 announces the selection as "start find common trans"    *)
(* and the comment below it as the search for the common set: a block has  *)
(* only transactions that every replica of its round has sent.             *)
SelectedIsCommon ==
    \A c \in content : \A m \in sent :
        m.tran.trigger = RoundOf(c.block) => c.size <= m.size
=============================================================================
