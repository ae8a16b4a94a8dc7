------------------------- MODULE ConsensusInvariant -------------------------
(***************************************************************************)
(* The inductive invariants behind the properties of Consensus, and of the *)
(* modules that extend it.  Agreement and ChainLinked are not inductive:   *)
(* that CheckAndStore may store tmpBlock without looking at its            *)
(* predecessor rests on how few blocks there can be (BInv), which rests on *)
(* the leader's transaction tally firing once per round (LInv, or SInv     *)
(* when replicas restart).  The properties of the votes rest on HInv, CInv *)
(* and SealInv, those of the counters on KInv.                             *)
(***************************************************************************)
EXTENDS Consensus

Stored(n) == {chain[n][i] : i \in 1..Len(chain[n])}

InHand == verifying \cup
          {[at |-> g.at, block |-> g.block] : g \in verified}

(* Every block some replica or some broadcast still knows. *)
Made == {p.block : p \in proposals}
        \cup {g.block : g \in InHand}
        \cup {b \in {tmpBlock[n] : n \in Replica} : b # NoBlock}
        \cup UNION {Stored(n) : n \in Replica}

(* A chain is a chain of consecutive indices from Genesis to currBlock. *)
ChainShape ==
    \A n \in Replica :
        /\ chain[n] # <<>>
        /\ chain[n][1] = Genesis
        /\ chain[n][Len(chain[n])] = currBlock[n]
        /\ \A i \in 1..Len(chain[n]) : chain[n][i].index = i - 1

(* A block was generated on top of the known block of the index before its *)
(* own, and of no other.                                                   *)
Linked ==
    \A b, c \in Made : b.prev = c.hash <=> b.index = c.index + 1

PrevBound == \A b \in Made : b.prev <= clock

HashBound == \A b \in Made : b.hash \in 1..clock

UniqueHash == \A b, c \in Made : b.hash = c.hash => b = c

UniqueIndex == \A b, c \in Made : b.index = c.index => b = c

(* tmpBlock is the current block or the next one. *)
TmpNext ==
    \A n \in Replica :
        \/ tmpBlock[n] = NoBlock
        \/ tmpBlock[n] = currBlock[n]
        \/ tmpBlock[n].index = currBlock[n].index + 1

(* A block being verified is the next one, and is not in tmpBlock yet. *)
InHandNext ==
    \A g \in InHand :
        /\ g.block.index = currBlock[g.at].index + 1
        /\ tmpBlock[g.at] # g.block

(* No replica verifies twice: it is before or behind its check, with one   *)
(* result.                                                                 *)
InHandOnce ==
    /\ \A g \in verified :
          [at |-> g.at, block |-> g.block] \notin verifying
    /\ \A g, h \in verified :
          g.at = h.at /\ g.block = h.block => g = h

(* A replica the broadcast of a block has not come to does not know it. *)
Undelivered ==
    \A p \in proposals : \A i \in p.next..Len(Urls) :
        /\ [at |-> Urls[i], block |-> p.block] \notin InHand
        /\ tmpBlock[Urls[i]] # p.block

OneBroadcast ==
    \A p, q \in proposals : p.block = q.block => p = q

(* Votes and stores are about generated blocks: never the zero hash with   *)
(* which an unset tmpBlock would compare equal.                            *)
HashSet ==
    /\ \A v \in pendingVote1 \cup pendingVote2 : v.hash # NoBlock.hash
    /\ \A s \in storing : s.hash # NoBlock.hash

(* The known blocks: one of each index, each on top of the one before, and *)
(* no replica more than one block away from another.                       *)
BInv ==
    /\ TypeOK
    /\ ChainShape
    /\ Linked
    /\ PrevBound
    /\ HashBound
    /\ UniqueHash
    /\ UniqueIndex
    /\ TmpNext
    /\ InHandNext
    /\ InHandOnce
    /\ Undelivered
    /\ OneBroadcast
    /\ HashSet
----------------------------------------------------------------------------
(* The leader. *)

(* No block is more than one ahead of the leader's chain. *)
OnLeader == \A b \in Made : b.index <= Len(chain[Leader])

(* Once there is a block on top of the leader's current block, the tally   *)
(* of the leader's round is full for good: no further message fires it.    *)
FiredOnce ==
    (\E b \in Made : b.index = Len(chain[Leader])) =>
        Cardinality(Filed(commonTransMap, RoundKey(Leader))) >= Nodes

(* A trigger makes a replica send its transactions once. *)
Received == {e.tran : e \in commonTransMap}

TranOnce ==
    /\ pendingTran \cap Received = {}
    /\ \A t \in pendingTran \cup Received :
          [at |-> t.from, trigger |-> t.trigger] \notin pendingInfo
    /\ \A t, u \in pendingTran :
          t.from = u.from /\ t.trigger = u.trigger => t = u

(* An operator's trigger has no hash, any other the hash of a block the    *)
(* leader has stored.                                                      *)
StoredHashes == {0} \cup {b.hash : b \in Stored(Leader)}

TriggerBound ==
    \A k \in {g.trigger : g \in pendingInfo} \cup
             {t.trigger : t \in pendingTran \cup Received} :
        /\ k[1] <= starts
        /\ k[2] \in StoredHashes
        /\ k[1] = 0 \/ k[2] = 0
        /\ k # <<0, 0>>

(* The leader's tally, when no replica restarts. *)
LInv ==
    /\ IsFiniteSet(commonTransMap)
    /\ OnLeader
    /\ FiredOnce
    /\ TranOnce
    /\ TriggerBound

(* What the steps of the system preserve, and what implies Agreement and   *)
(* ChainLinked: no vote is needed for them, only the leader's tally.       *)
IInv == BInv /\ LInv
----------------------------------------------------------------------------
(* What a vote says about the replica that cast it, and what a full tally  *)
(* therefore says about all of them.                                       *)

(* Replica n has taken the block with this hash up, or stored it. *)
Holds(n, hash) ==
    \E b \in Stored(n) \cup {tmpBlock[n]} : b # NoBlock /\ b.hash = hash

(* Every first vote, on its way or filed, is in favour, and its sender     *)
(* holds the block.                                                        *)
VotersHold ==
    /\ \A v \in pendingVote1 : Holds(v.from, v.hash)
    /\ \A n \in Replica : \A e \in round1Map[n] :
          e.vote /\ Holds(e.from, e.key[3])

(* Revotes are cast, and blocks stored, when all replicas hold the block. *)
AllHold ==
    /\ \A v \in pendingVote2 : \A n \in Replica : Holds(n, v.hash)
    /\ \A s \in storing : \A n \in Replica : Holds(n, s.hash)
    /\ \A m, n \in Replica : \A b \in Stored(m) : Holds(n, b.hash)

(* The invariant behind StoredIsHeldByAll, SkewAtMostOne, NoDissent and    *)
(* ImplementsLedger.                                                       *)
HInv ==
    /\ BInv
    /\ NoDissent
    /\ \A n \in Replica : IsFiniteSet(round1Map[n])
    /\ VotersHold
    /\ AllHold
----------------------------------------------------------------------------
(* Each replica votes once on a block, and revotes once, so that a tally   *)
(* of Nodes entries is one of all replicas.  Nothing is said here about    *)
(* what the leader proposes, or about what a replica has stored.           *)

(* A block that is proposed, verified or voted on has been generated. *)
KnownHashes ==
    /\ \A p \in proposals : p.block.hash \in 1..clock
    /\ \A g \in InHand : g.block.hash \in 1..clock
    /\ \A v \in pendingVote1 \cup pendingVote2 : v.hash \in 1..clock
    /\ \A n \in Replica : \A e \in round1Map[n] \cup round2Map[n] :
          e.key[3] \in 1..clock

OneBroadcastOfHash ==
    \A p, q \in proposals : p.block.hash = q.block.hash => p = q

InHandOnceOfHash ==
    /\ \A g, h \in verifying :
          g.at = h.at /\ g.block.hash = h.block.hash => g = h
    /\ \A g, h \in verified :
          g.at = h.at /\ g.block.hash = h.block.hash => g = h
    /\ \A g \in verifying : \A h \in verified :
          ~(g.at = h.at /\ g.block.hash = h.block.hash)

(* Replica n has cast a first vote on the block. *)
Cast(n, hash) ==
    \/ \E v \in pendingVote1 : v.from = n /\ v.hash = hash
    \/ \E m \in Replica : \E e \in round1Map[m] : e.from = n /\ e.key[3] = hash

(* A replica that has yet to take a block up has not voted on it, and one  *)
(* the broadcast has not come to is not taking it up.                      *)
NotYetCast ==
    /\ \A g \in InHand : ~Cast(g.at, g.block.hash)
    /\ \A p \in proposals : \A i \in p.next..Len(Urls) :
          /\ ~Cast(Urls[i], p.block.hash)
          /\ \A g \in InHand :
                ~(g.at = Urls[i] /\ g.block.hash = p.block.hash)

(* Nobody has yet to vote on the block. *)
Settled(hash) ==
    /\ \A p \in proposals : p.block.hash # hash
    /\ \A g \in InHand : g.block.hash # hash

(* Replica n has cast a revote on the block. *)
Revoted(n, hash) ==
    \/ \E v \in pendingVote2 : v.from = n /\ v.hash = hash
    \/ \E m \in Replica : \E e \in round2Map[m] : e.from = n /\ e.key[3] = hash

(* A revote is cast when all replicas have voted, and the vote that made   *)
(* its sender cast it was the last one to come there: no further one can   *)
(* fill the sender's tally again.                                          *)
RevotedLast ==
    \A n \in Replica : \A hash \in 1..clock :
        Revoted(n, hash) =>
           /\ Settled(hash)
           /\ \A v \in pendingVote1 : ~(v.at = n /\ v.hash = hash)

(* No message is on its way twice. *)
SentApart ==
    /\ \A v, w \in pendingVote1 :
          v.at = w.at /\ v.from = w.from /\ v.hash = w.hash => v = w
    /\ \A v, w \in pendingVote2 :
          v.at = w.at /\ v.from = w.from /\ v.hash = w.hash => v = w

(* The invariant behind CountedOnce.  It holds whatever the leader's tally *)
(* does and whoever restarts, because no block is generated twice.         *)
CInv ==
    /\ TypeOK
    /\ \A n \in Replica : IsFiniteSet(round1Map[n])
    /\ KnownHashes
    /\ OneBroadcastOfHash
    /\ InHandOnceOfHash
    /\ NotYetCast
    /\ RevotedLast
    /\ SentApart
    /\ CountedOnce

(* The invariant behind StoredIsCertified: what is about to be stored is   *)
(* certified already.                                                      *)
SealInv ==
    /\ TypeOK
    /\ \A n \in Replica : IsFiniteSet(round2Map[n])
    /\ \A s \in storing : s.hash \in Certified(s.at)
    /\ StoredIsCertified
----------------------------------------------------------------------------
(* The counters are those of the height: q sizes of Rounds blocks each are *)
(* done, and times blocks of the present size.                             *)
CountersOf(n, q) ==
    /\ Len(chain[n]) = times[n] + Rounds * q + 1
    /\ transinblock[n] = TransInBlock + TransChangeStep * q
    /\ times[n] < Rounds

KInv == TypeOK /\ \A n \in Replica : \E q \in Nat : CountersOf(n, q)
----------------------------------------------------------------------------
(* The leader's tally when replicas may restart, which forgets what LInv   *)
(* remembers.  With one start there is one round at a time, made of the    *)
(* transactions of one trigger, and if the leader loses its own part in it *)
(* nobody ever makes a block again.                                        *)

(* The transactions the leader has filed in its present round. *)
Sent == {e.tran : e \in Filed(commonTransMap, RoundKey(Leader))}

Current == pendingTran \cup Sent

Triggers == {g.trigger : g \in pendingInfo} \cup {t.trigger : t \in Current}

OneRound == \A j, k \in Triggers : j = k

(* A replica is in one place of the round. *)
SentOnce ==
    /\ \A t, u \in Current : t.from = u.from => t = u
    /\ pendingTran \cap Sent = {}
    /\ \A t \in Current : \A g \in pendingInfo : g.at # t.from

(* No entry is filed under counters the leader has yet to come to. *)
PastKeys ==
    \A e \in commonTransMap :
        \/ e.key[2] < transinblock[Leader]
        \/ e.key[2] = transinblock[Leader] /\ e.key[1] <= times[Leader]

NotStarted == starts = 0 => Init

(* The leader can still complete a tally. *)
Alive ==
    \/ starts = 0
    \/ \E g \in pendingInfo : g.at = Leader
    \/ \E t \in Current : t.from = Leader

LeaderMakes == Alive => OnLeader /\ FiredOnce

(* A leader that cannot will store no block either. *)
LeaderStuck ==
    ~Alive =>
       /\ tmpBlock[Leader].index # Len(chain[Leader])
       /\ \A p \in proposals : p.block.index # Len(chain[Leader])
       /\ \A g \in InHand :
             g.at = Leader => g.block.index # Len(chain[Leader])

(* The part of SInv that is about the leader. *)
RoundInv ==
    /\ IsFiniteSet(commonTransMap)
    /\ OneRound
    /\ SentOnce
    /\ PastKeys
    /\ NotStarted
    /\ LeaderMakes
    /\ LeaderStuck

SInv == BInv /\ RoundInv
=============================================================================
