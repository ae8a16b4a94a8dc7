----------------------------- MODULE Consensus -----------------------------
(***************************************************************************)
(* The block round of lib/net: every replica broadcasts the hashes of its  *)
(* pending transactions, the leader turns the union into a block and       *)
(* broadcasts it, the replicas vote on it twice, and a replica whose       *)
(* second tally is full and affirmative stores the block and advances its  *)
(* round counters.                                                         *)
(*                                                                         *)
(* A step is one handler or one goroutine, cut where it takes or releases  *)
(* the lock of BlockState or spawns another goroutine.  Broadcasts to      *)
(* handlers that only spawn a goroutine put the goroutines of the reached  *)
(* replicas in a pending set; the broadcast of a block is stepped replica  *)
(* by replica, because receiveBlockHandler checks the block before it      *)
(* answers.  The three tallies are atomic here, which is what the comment  *)
(* of recBlockVoteRound1.go:114 intends; module ConsensusRace splits the   *)
(* one that selects the block.                                             *)
(*                                                                         *)
(* Left out: signatures (every message verifies), compression, logging,    *)
(* the timing of the throughput report, the contents of the transactions,  *)
(* and what a non-leader collects from recTransHash: it only reaches       *)
(* commonTransList, whose one reader is behind verifyBlockTxV2's return.   *)
(***************************************************************************)
EXTENDS Integers, Sequences, FiniteSets

CONSTANTS
    Replica,          \* the servers
    Urls,             \* the replicas in the order a broadcast posts to them
    Leader,           \* the replica listening on port 8000
    TransInBlock,     \* initial number of transactions of a block
    MaxTransInBlock,  \* the leader starts no round above this size
    TransChangeStep,  \* growth of the size after Rounds blocks
    Rounds,           \* blocks of one size
    Lossy,            \* TRUE: a post may fail, which ends its broadcast
    MaxStarts         \* bound: requests to /sendTxs by an operator

Nodes == Cardinality(Replica)

(* A tally's first entry is never counted, so one replica alone would     *)
(* never store a block.                                                   *)
ASSUME ReplicaAssumption ==
    /\ IsFiniteSet(Replica)
    /\ Nodes >= 2
    /\ Leader \in Replica

ASSUME UrlsAssumption ==
    /\ Urls \in Seq(Replica)
    /\ Len(Urls) = Nodes
    /\ \A n \in Replica : \E i \in 1..Len(Urls) : Urls[i] = n
    /\ \A i, j \in 1..Len(Urls) : Urls[i] = Urls[j] => i = j

ASSUME CounterAssumption ==
    /\ TransInBlock \in Nat
    /\ MaxTransInBlock \in Nat
    /\ TransChangeStep \in Nat \ {0}
    /\ Rounds \in Nat \ {0}
    /\ MaxStarts \in Nat
    /\ Lossy \in BOOLEAN

VARIABLES
    currBlock,       \* [replica -> block]: blockState.currBlock
    tmpBlock,        \* [replica -> block]: blockState.tmpBlock
    chain,           \* [replica -> sequence of blocks]: channel Blockchains
    times,           \* [replica -> Nat]: blocks stored of the present size
    transinblock,    \* [replica -> Nat]: the present size
    commonTransMap,  \* entries of the leader's transaction tally
    round1Map,       \* [replica -> entries of its first vote tally]
    round2Map,       \* [replica -> entries of its second vote tally]
    pendingInfo,     \* goroutines of testinfoHandler
    pendingTran,     \* goroutines of rtbitarryHandler at the leader
    proposals,       \* block broadcasts, with the position of the next post
    verifying,       \* goroutines verify(block), before they check
    verified,        \* the same goroutines, holding the result of the check
    pendingVote1,    \* goroutines of recBlockVoteRound1HandlerV2
    pendingVote2,    \* goroutines of recBlockVoteRound2HandlerV2
    storing,         \* goroutines store_block(hash)
    clock,           \* number of blocks generated: makes hashes fresh
    starts           \* number of operator starts so far

stateVars == <<currBlock, chain, times, transinblock>>
tallyVars == <<commonTransMap, round1Map, round2Map>>
voteVars  == <<verifying, verified, pendingVote1, pendingVote2, storing>>
vars == <<stateVars, tmpBlock, tallyVars, pendingInfo, pendingTran, proposals,
          voteVars, clock, starts>>

----------------------------------------------------------------------------
(* Blocks.  calculateHash covers the timestamp, so a generated block has a *)
(* hash of its own: the value of the clock.  The zero Block has no hash.   *)

Block == [hash : Nat, prev : Nat, index : Nat]

NoBlock == [hash |-> 0, prev |-> 0, index |-> 0]

Genesis == [hash |-> 1, prev |-> 0, index |-> 0]

GenerateBlockBug(old, hash) ==
    [hash |-> hash, prev |-> old.hash, index |-> old.index]

GenerateBlock(old, hash) ==
    [hash |-> hash, prev |-> old.hash, index |-> old.index + 1]

(* The key under which a tally files a message: the counters of the        *)
(* receiver when the message is handled, and for a vote the block's hash.  *)
RoundKey(n) == <<times[n], transinblock[n]>>

VoteKey(n, hash) == <<times[n], transinblock[n], hash>>

Key == Nat \X Nat \X Nat

Filed(entries, key) == {e \in entries : e.key = key}

----------------------------------------------------------------------------
(* Guards and thresholds.  A definition whose name ends in Bug is a faulty *)
(* variant of the definition that follows it; no action uses it.           *)

FullBug(entries) == Cardinality(entries) >= Nodes - 1

FullLateBug(entries) == Cardinality(entries) > Nodes

Full(entries) == Cardinality(entries) = Nodes

(* float64(count) > float64(Nodes)*0.75 *)
Enough(count) == 4 * count > 3 * Nodes

ExtendsBug(n, b) == TRUE

(* block.PrevHash against the current block, in Checkblock and again in    *)
(* verify_block.                                                           *)
Extends(n, b) == b.prev = currBlock[n].hash

CheckblockBug(n, b) == tmpBlock[n].hash # b.hash

Checkblock(n, b) == Extends(n, b) /\ tmpBlock[n].hash # b.hash

(* BlockState.Checks returns TRUE when the round is over; this is its      *)
(* negation, and also the guard with which CheckAndStore begins.           *)
OpenBug(n, hash) == TRUE

OpenAtLeaderBug(n, hash) ==
    /\ n = Leader
    /\ tmpBlock[n].hash = hash
    /\ tmpBlock[n].hash # currBlock[n].hash

Open(n, hash) ==
    /\ tmpBlock[n].hash = hash
    /\ tmpBlock[n].hash # currBlock[n].hash

(* The replicas a broadcast may reach.  It posts to Urls in order and      *)
(* returns at the first error, which every caller ignores.                 *)
Reach ==
    IF Lossy THEN {{Urls[i] : i \in 1..k} : k \in 0..Len(Urls)}
             ELSE {Replica}

Trigger == Nat \X Nat  \* <<start, 0>> by an operator, <<0, hash>> by a store

Testinfo(to, trigger) == {[at |-> n, trigger |-> trigger] : n \in to}

----------------------------------------------------------------------------
(* common.Init and net.Init: the genesis block is current and in the       *)
(* channel, every map is empty, no round has begun.                        *)
Fresh ==
    /\ currBlock = [n \in Replica |-> Genesis]
    /\ tmpBlock = [n \in Replica |-> NoBlock]
    /\ chain = [n \in Replica |-> <<Genesis>>]
    /\ times = [n \in Replica |-> 0]
    /\ transinblock = [n \in Replica |-> TransInBlock]
    /\ commonTransMap = {}
    /\ round1Map = [n \in Replica |-> {}]
    /\ round2Map = [n \in Replica |-> {}]
    /\ proposals = {}
    /\ verifying = {}
    /\ verified = {}
    /\ pendingVote1 = {}
    /\ pendingVote2 = {}
    /\ storing = {}
    /\ clock = Genesis.hash

Init ==
    /\ Fresh
    /\ pendingInfo = {}
    /\ pendingTran = {}
    /\ starts = 0

(* sendTxHandler: an operator starts the test; sendTrans broadcasts        *)
(* "testinfo" to every replica.                                            *)
SendTxs ==
    /\ starts < MaxStarts
    /\ starts' = starts + 1
    /\ \E to \in Reach :
          pendingInfo' = pendingInfo \cup Testinfo(to, <<starts + 1, 0>>)
    /\ UNCHANGED <<stateVars, tmpBlock, tallyVars, pendingTran, proposals,
                   voteVars, clock>>

(* SendTransV2 at g.at: the hash of the current block goes out with the    *)
(* transactions.                                                           *)
SendTransV2(g) ==
    /\ pendingInfo' = pendingInfo \ {g}
    /\ \E to \in Reach :
          pendingTran' = IF Leader \in to
                         THEN pendingTran \cup
                                {[from |-> g.at, trigger |-> g.trigger,
                                  prev |-> currBlock[g.at].hash]}
                         ELSE pendingTran
    /\ UNCHANGED <<stateVars, tmpBlock, tallyVars, proposals, voteVars, clock,
                   starts>>

(* generateFromCommonTxV2 at the leader: the block on top of the one that  *)
(* was current when the list was found full, and its broadcast.            *)
Proposal(old, hash) == [block |-> GenerateBlock(old, hash), next |-> 1]

(* receiveTran at the leader.  Only the message that fills the tally is    *)
(* compared with the current block, and only it can have a block made.     *)
ReceiveTran(t) ==
    LET key  == RoundKey(Leader)
        list == Filed(commonTransMap, key) \cup {[key |-> key, tran |-> t]}
    IN  /\ pendingTran' = pendingTran \ {t}
        /\ commonTransMap' = commonTransMap \cup list
        /\ IF Full(list) /\ t.prev = currBlock[Leader].hash
           THEN /\ clock' = clock + 1
                /\ proposals' = proposals \cup
                                  {Proposal(currBlock[Leader], clock + 1)}
           ELSE UNCHANGED <<clock, proposals>>
        /\ UNCHANGED <<stateVars, tmpBlock, round1Map, round2Map, pendingInfo,
                       voteVars, starts>>

RestRetryBug(p) ==
    {p} \cup (IF p.next < Len(Urls) THEN {[p EXCEPT !.next = @ + 1]} ELSE {})

(* What is left of the broadcast of a block after one post. *)
Rest(p) ==
    IF p.next < Len(Urls) THEN {[p EXCEPT !.next = @ + 1]} ELSE {}

(* receiveBlockHandler at the replica whose turn it is.  The answer is the *)
(* same whether or not the block passes, so the broadcast goes on.         *)
RecBlock(p) ==
    LET n == Urls[p.next]
    IN  /\ verifying' = IF Checkblock(n, p.block)
                        THEN verifying \cup {[at |-> n, block |-> p.block]}
                        ELSE verifying
        /\ proposals' = (proposals \ {p}) \cup Rest(p)
        /\ UNCHANGED <<stateVars, tmpBlock, tallyVars, pendingInfo, pendingTran,
                       verified, pendingVote1, pendingVote2, storing, clock,
                       starts>>

(* A post of the block fails: the rest of the broadcast is not sent.       *)
LoseBlock(p) ==
    /\ Lossy
    /\ proposals' = proposals \ {p}
    /\ UNCHANGED <<stateVars, tmpBlock, tallyVars, pendingInfo, pendingTran,
                   voteVars, clock, starts>>

(* verify, up to the result of verify_block.  The signature field is       *)
(* always "Signature" and verifyBlockTxV2 always true.                     *)
Verify(g) ==
    /\ verifying' = verifying \ {g}
    /\ verified' = verified \cup
          {[at |-> g.at, block |-> g.block,
            vote |-> Extends(g.at, g.block)]}
    /\ UNCHANGED <<stateVars, tmpBlock, tallyVars, pendingInfo, pendingTran,
                   proposals, pendingVote1, pendingVote2, storing, clock,
                   starts>>

(* verify, from SetTmpB, which is called whatever the result, to the       *)
(* broadcast of the vote.                                                  *)
SetTmpB(g) ==
    /\ verified' = verified \ {g}
    /\ tmpBlock' = [tmpBlock EXCEPT ![g.at] = g.block]
    /\ \E to \in Reach :
          pendingVote1' = pendingVote1 \cup
             {[at |-> n, from |-> g.at, hash |-> g.block.hash, vote |-> g.vote]
                : n \in to}
    /\ UNCHANGED <<stateVars, tallyVars, pendingInfo, pendingTran, proposals,
                   verifying, pendingVote2, storing, clock, starts>>

(* vote1 at v.at: the vote that fills the tally sends the revote.          *)
Vote1(v) ==
    LET key   == VoteKey(v.at, v.hash)
        entry == [key |-> key, from |-> v.from, vote |-> v.vote]
        votes == Filed(round1Map[v.at], key) \cup {entry}
        yes   == {e \in votes : e.vote}
    IN  /\ pendingVote1' = pendingVote1 \ {v}
        /\ round1Map' = [round1Map EXCEPT ![v.at] = @ \cup {entry}]
        /\ IF Full(votes)
           THEN \E to \in Reach :
                   pendingVote2' = pendingVote2 \cup
                      {[at |-> n, from |-> v.at, hash |-> v.hash,
                        vote |-> Enough(Cardinality(yes))] : n \in to}
           ELSE pendingVote2' = pendingVote2
        /\ UNCHANGED <<stateVars, tmpBlock, commonTransMap, round2Map,
                       pendingInfo, pendingTran, proposals, verifying, verified,
                       storing, clock, starts>>

(* vote2 at v.at: the revote that fills the tally has the block stored,    *)
(* unless the round is over (Checks) or too few agree.                     *)
Vote2(v) ==
    LET key   == VoteKey(v.at, v.hash)
        entry == [key |-> key, from |-> v.from, vote |-> v.vote]
        votes == Filed(round2Map[v.at], key) \cup {entry}
        yes   == {e \in votes : e.vote}
    IN  /\ pendingVote2' = pendingVote2 \ {v}
        /\ round2Map' = [round2Map EXCEPT ![v.at] = @ \cup {entry}]
        /\ storing' = IF /\ Full(votes)
                         /\ Open(v.at, v.hash)
                         /\ Enough(Cardinality(yes))
                      THEN storing \cup {[at |-> v.at, hash |-> v.hash]}
                      ELSE storing
        /\ UNCHANGED <<stateVars, tmpBlock, commonTransMap, round1Map,
                       pendingInfo, pendingTran, proposals, verifying, verified,
                       pendingVote1, clock, starts>>

LastOfSize(n) == times[n] + 1 >= Rounds

(* The counters grow in lockstep with the chain: rounds blocks of a size.  *)
NextSize(n) ==
    IF LastOfSize(n) THEN transinblock[n] + TransChangeStep ELSE transinblock[n]

NextTimes(n) == IF LastOfSize(n) THEN 0 ELSE times[n] + 1

GoesOnBug(n) == LastOfSize(n) => transinblock[n] <= MaxTransInBlock

(* Whether a leader that stores a block starts another round. *)
GoesOn(n) == LastOfSize(n) => NextSize(n) <= MaxTransInBlock

(* The part of CheckAndStore behind its guard: store tmpBlock, advance the *)
(* counters, and at the leader start the next round.                       *)
Store(n) ==
    /\ chain' = [chain EXCEPT ![n] = Append(@, tmpBlock[n])]
    /\ currBlock' = [currBlock EXCEPT ![n] = tmpBlock[n]]
    /\ times' = [times EXCEPT ![n] = NextTimes(n)]
    /\ transinblock' = [transinblock EXCEPT ![n] = NextSize(n)]
    /\ IF n = Leader /\ GoesOn(n)
       THEN \E to \in Reach :
               pendingInfo' = pendingInfo \cup
                                Testinfo(to, <<0, tmpBlock[n].hash>>)
       ELSE pendingInfo' = pendingInfo

(* store_block, i.e. CheckAndStore under the lock of BlockState.           *)
StoreBlock(s) ==
    /\ storing' = storing \ {s}
    /\ IF Open(s.at, s.hash)
       THEN Store(s.at)
       ELSE UNCHANGED <<stateVars, pendingInfo>>
    /\ UNCHANGED <<tmpBlock, tallyVars, pendingTran, proposals, verifying,
                   verified, pendingVote1, pendingVote2, clock, starts>>

----------------------------------------------------------------------------
(* Handlers and goroutines, without the leader's transaction tally. *)
Handlers ==
    \/ \E g \in pendingInfo : SendTransV2(g)
    \/ \E p \in proposals : RecBlock(p) \/ LoseBlock(p)
    \/ \E g \in verifying : Verify(g)
    \/ \E g \in verified : SetTmpB(g)
    \/ \E v \in pendingVote1 : Vote1(v)
    \/ \E v \in pendingVote2 : Vote2(v)
    \/ \E s \in storing : StoreBlock(s)

System == Handlers \/ \E t \in pendingTran : ReceiveTran(t)

Next == SendTxs \/ System

Spec == Init /\ [][Next]_vars

(* A goroutine that was spawned runs, and a post that was begun ends: the  *)
(* Go scheduler and the HTTP client see to it.  Each runs once and their   *)
(* number is finite, so weak fairness of their union lets none starve.     *)
(* An operator need not start anything.                                    *)
FairSpec == Spec /\ WF_vars(System)
----------------------------------------------------------------------------
(* What must hold.                                                         *)

Vote == [at : Replica, from : Replica, hash : Nat, vote : BOOLEAN]

Entry == [key : Key, from : Replica, vote : BOOLEAN]

Tran == [from : Replica, trigger : Trigger, prev : Nat]

(* Every variable holds values of its kind (the Go types of BlockState,    *)
(* the sync.Map contents and the goroutines' arguments).                   *)
TypeOK ==
    /\ currBlock \in [Replica -> Block]
    /\ tmpBlock \in [Replica -> Block]
    /\ chain \in [Replica -> Seq(Block)]
    /\ times \in [Replica -> Nat]
    /\ transinblock \in [Replica -> Nat]
    /\ commonTransMap \subseteq [key : Nat \X Nat, tran : Tran]
    /\ round1Map \in [Replica -> SUBSET Entry]
    /\ round2Map \in [Replica -> SUBSET Entry]
    /\ pendingInfo \subseteq [at : Replica, trigger : Trigger]
    /\ pendingTran \subseteq Tran
    /\ proposals \subseteq [block : Block, next : 1..Len(Urls)]
    /\ verifying \subseteq [at : Replica, block : Block]
    /\ verified \subseteq [at : Replica, block : Block, vote : BOOLEAN]
    /\ pendingVote1 \subseteq Vote
    /\ pendingVote2 \subseteq Vote
    /\ storing \subseteq [at : Replica, hash : Nat]
    /\ clock \in Nat
    /\ starts \in 0..MaxStarts

Height(n) == Len(chain[n])

Behind(n) == \E m \in Replica : Height(m) > Height(n)

(* Two replicas never store different blocks at the same height, although  *)
(* CheckAndStore compares no heights and no predecessors.                  *)
Agreement ==
    \A m, n \in Replica : \A i \in 1..Height(m) :
        i <= Height(n) => chain[m][i] = chain[n][i]

(* Every stored block extends the one stored before it: what isBlockValid  *)
(* would check (common/block.go:65) if anything called it.                 *)
ChainLinked ==
    \A n \in Replica : \A i \in 1..Height(n) - 1 :
        /\ chain[n][i + 1].prev = chain[n][i].hash
        /\ chain[n][i + 1].index = chain[n][i].index + 1

(* A block one replica has stored is, at every other replica, stored or    *)
(* held in tmpBlock: no replica can be left without what the others store, *)
(* and no later block has overwritten it there before it was stored.       *)
StoredIsHeldByAll ==
    \A m, n \in Replica : \A i \in 2..Height(m) :
        i <= Height(n) \/ tmpBlock[n] = chain[m][i]

(* No replica is two blocks ahead of another: the unanimous tallies keep   *)
(* the replicas in step without any message that says who stored.          *)
SkewAtMostOne == \A m, n \in Replica : Height(m) <= Height(n) + 1

(* verify_block is never late: between Checkblock in the handler and       *)
(* GetCurrB in the goroutine the current block has not moved on, so no     *)
(* replica ever votes against a block.                                     *)
NoDissent ==
    /\ \A g \in verified : g.vote
    /\ \A v \in pendingVote1 \cup pendingVote2 : v.vote

(* A replica's vote on a block is counted once at a receiver and is not    *)
(* still on its way when it has been counted, so len(votes) counts         *)
(* replicas, as the thresholds of vote1 and vote2 assume.                  *)
CountedOnce ==
    \A n \in Replica :
        /\ \A d, e \in round1Map[n] :
              d.from = e.from /\ d.key[3] = e.key[3] => d = e
        /\ \A d, e \in round2Map[n] :
              d.from = e.from /\ d.key[3] = e.key[3] => d = e
        /\ \A v \in pendingVote1 : \A e \in round1Map[v.at] :
              ~(v.from = e.from /\ v.hash = e.key[3])
        /\ \A v \in pendingVote2 : \A e \in round2Map[v.at] :
              ~(v.from = e.from /\ v.hash = e.key[3])

(* Replicas of the same height file messages under the same counters: the  *)
(* counters are the only round number there is, and no message carries it. *)
SameHeightSameKey ==
    \A m, n \in Replica : Height(m) = Height(n) => RoundKey(m) = RoundKey(n)

(* A replica that takes up a block has put the previous one away: at the   *)
(* step that overwrites tmpBlock the old value is stored or was never set. *)
NoUnstoredOverwrite ==
    [][\A n \in Replica :
         tmpBlock'[n] # tmpBlock[n] =>
             tmpBlock[n] \in {NoBlock, currBlock[n]}]_vars

(* The blocks for which replica n has filed revotes of more than three     *)
(* quarters of the replicas under one key.                                 *)
Certified(n) ==
    {d.key[3] : d \in
        {e \in round2Map[n] :
            4 * Cardinality({c \in round2Map[n] : c.key = e.key /\ c.vote})
              > 3 * Nodes}}

(* What a replica stores, more than three quarters of the replicas have    *)
(* revoted for under one key: CheckAndStore compares tmpBlock with the     *)
(* hash again under its lock, so another block cannot slip in.             *)
StoredIsCertified ==
    \A n \in Replica : \A i \in 2..Height(n) : chain[n][i].hash \in Certified(n)

(* The chains of the replicas implement the abstract ledger (Ledger.tla):  *)
(* one log, stored in lockstep.                                            *)
Abstract == INSTANCE Ledger WITH Replica <- Replica, Genesis <- Genesis, chain <- chain

ImplementsLedger == Abstract!Spec

(* A block stored anywhere is stored everywhere in the end, and a start    *)
(* leads to a first block, when no post fails: the revotes that stored it  *)
(* at one replica also reach the others before they can move on.           *)
LaggardCatchesUp == \A n \in Replica : Behind(n) ~> ~Behind(n)

FirstBlockStored ==
    starts > 0 ~> \A n \in Replica : Height(n) > 1
=============================================================================
