------------------------- MODULE ConsensusCounting -------------------------
(***************************************************************************)
(* CInv, SealInv and KInv are inductive: votes are counted once, what is   *)
(* stored is certified, and replicas of one height have the same counters. *)
(* So is SInv: with one start, the rounds of the leader follow one another.*)
(***************************************************************************)
EXTENDS ConsensusSafety

LEMMA InitCInv == Init => CInv
<1> SUFFICES ASSUME Init PROVE CInv
  OBVIOUS
<1>1. TypeOK
  BY InitType
<1>2. /\ verifying = {} /\ verified = {} /\ proposals = {}
      /\ pendingVote1 = {} /\ pendingVote2 = {}
      /\ round1Map = [n \in Replica |-> {}]
      /\ round2Map = [n \in Replica |-> {}]
  BY DEF Init, Fresh
<1>3. InHand = {}
  BY <1>2 DEF InHand
<1>4. \A n \in Replica : IsFiniteSet(round1Map[n])
  BY <1>2, FS_EmptySet
<1>5. KnownHashes /\ OneBroadcastOfHash /\ InHandOnceOfHash /\ SentApart
  BY <1>2, <1>3 DEF KnownHashes, OneBroadcastOfHash, InHandOnceOfHash, SentApart
<1>6. NotYetCast /\ RevotedLast /\ CountedOnce
  BY <1>2, <1>3 DEF NotYetCast, RevotedLast, Revoted, CountedOnce
<1> QED
  BY <1>1, <1>4, <1>5, <1>6 DEF CInv

(* What the goroutines hold. *)
LEMMA InHandFacts ==
    ASSUME TypeOK
    PROVE  /\ \A g \in verifying :
                 g = [at |-> g.at, block |-> g.block] /\ g \in InHand
           /\ \A g \in verified : [at |-> g.at, block |-> g.block] \in InHand
           /\ \A g \in InHand :
                 /\ g.at \in Replica
                 /\ g = [at |-> g.at, block |-> g.block]
<1>1. \A g \in verifying :
         g = [at |-> g.at, block |-> g.block] /\ g.at \in Replica
  BY DEF TypeOK
<1>2. \A g \in verified : g.at \in Replica
  BY DEF TypeOK
<1>3. \A g \in verifying : g \in InHand
  BY DEF InHand
<1>4. \A g \in verified : [at |-> g.at, block |-> g.block] \in InHand
  BY DEF InHand
<1>5. ASSUME NEW g \in InHand
      PROVE  g.at \in Replica /\ g = [at |-> g.at, block |-> g.block]
  <2>1. g \in verifying
        \/ \E h \in verified : g = [at |-> h.at, block |-> h.block]
    BY DEF InHand
  <2> QED
    BY <1>1, <1>2, <2>1
<1> QED
  BY <1>1, <1>3, <1>4, <1>5

LEMMA VoteTypes ==
    ASSUME TypeOK
    PROVE  /\ \A v \in pendingVote1 \cup pendingVote2 :
                 /\ v.at \in Replica /\ v.from \in Replica
                 /\ v.hash \in Nat /\ v.vote \in BOOLEAN
                 /\ v = [at |-> v.at, from |-> v.from, hash |-> v.hash,
                         vote |-> v.vote]
           /\ \A n \in Replica : \A e \in round1Map[n] \cup round2Map[n] :
                 e.from \in Replica /\ e \in Entry
<1>1. \A v \in pendingVote1 \cup pendingVote2 : v \in Vote
  BY DEF TypeOK
<1>2. ASSUME NEW n \in Replica, NEW e \in round1Map[n] \cup round2Map[n]
      PROVE  e.from \in Replica /\ e \in Entry
  <2>1. e \in Entry
    BY DEF TypeOK
  <2> QED
    BY <2>1 DEF Entry
<1>3. \A v \in pendingVote1 \cup pendingVote2 :
         /\ v.at \in Replica /\ v.from \in Replica
         /\ v.hash \in Nat /\ v.vote \in BOOLEAN
         /\ v = [at |-> v.at, from |-> v.from, hash |-> v.hash, vote |-> v.vote]
  BY <1>1 DEF Vote
<1> QED
  BY <1>2, <1>3

(* A step that makes no block and no message, and files none: it may lose  *)
(* any of them, as a failing post or a restart does.                       *)
LEMMA ShrinkCounts ==
    ASSUME CInv, TypeOK', clock' = clock, proposals' \subseteq proposals,
           verifying' \subseteq verifying, verified' \subseteq verified,
           pendingVote1' \subseteq pendingVote1,
           pendingVote2' \subseteq pendingVote2,
           \A n \in Replica : /\ round1Map'[n] \subseteq round1Map[n]
                              /\ round2Map'[n] \subseteq round2Map[n]
    PROVE  CInv'
<1>1. InHand' \subseteq InHand
  BY DEF InHand
<1>2. \A n, hash : Cast(n, hash)' => Cast(n, hash)
  BY DEF Cast
<1>3. \A n, hash : Revoted(n, hash)' => Revoted(n, hash)
  BY DEF Revoted
<1>4. \A n \in Replica : IsFiniteSet(round1Map'[n])
  BY FS_Subset DEF CInv
<1>5. KnownHashes'
  BY <1>1 DEF CInv, KnownHashes
<1>6. OneBroadcastOfHash' /\ InHandOnceOfHash' /\ SentApart'
  BY DEF CInv, OneBroadcastOfHash, InHandOnceOfHash, SentApart
<1>7. NotYetCast'
  BY <1>1, <1>2 DEF CInv, NotYetCast
<1>8. RevotedLast'
  BY <1>1, <1>3 DEF CInv, RevotedLast, Settled
<1>9. CountedOnce'
  <2>1. \A n \in Replica :
           /\ \A d, e \in round1Map'[n] :
                 d.from = e.from /\ d.key[3] = e.key[3] => d = e
           /\ \A d, e \in round2Map'[n] :
                 d.from = e.from /\ d.key[3] = e.key[3] => d = e
    BY DEF CInv, CountedOnce
  <2>2. /\ \A v \in pendingVote1' : v \in pendingVote1 /\ v.at \in Replica
        /\ \A v \in pendingVote2' : v \in pendingVote2 /\ v.at \in Replica
    BY VoteTypes DEF CInv
  <2>3. /\ \A v \in pendingVote1' : \A e \in round1Map'[v.at] :
              ~(v.from = e.from /\ v.hash = e.key[3])
        /\ \A v \in pendingVote2' : \A e \in round2Map'[v.at] :
              ~(v.from = e.from /\ v.hash = e.key[3])
    BY <2>2 DEF CInv, CountedOnce
  <2> QED
    BY <2>1, <2>3 DEF CountedOnce
<1> QED
  BY <1>4, <1>5, <1>6, <1>7, <1>8, <1>9 DEF CInv

(* A new block has a hash nobody has voted on. *)
LEMMA NewBlockCounts ==
    ASSUME CInv, TypeOK', NEW old, clock' = clock + 1,
           proposals' = proposals \cup {Proposal(old, clock + 1)},
           UNCHANGED <<verifying, verified, pendingVote1, pendingVote2,
                       round1Map, round2Map>>
    PROVE  CInv'
<1> DEFINE new == Proposal(old, clock + 1)
<1>1. new.block.hash = clock + 1 /\ new.next = 1
  BY DEF Proposal, GenerateBlock
<1> HIDE DEF new
<1>2. InHand' = InHand
  BY DEF InHand
<1>3. \A n, hash : /\ Cast(n, hash)' <=> Cast(n, hash)
                   /\ Revoted(n, hash)' <=> Revoted(n, hash)
  BY DEF Cast, Revoted
<1>4. clock \in Nat /\ clock + 1 \notin 1..clock
  BY DEF CInv, TypeOK
<1>5. KnownHashes'
  <2>1. \A h \in 1..clock : h \in 1..clock'
    BY <1>4
  <2>2. clock + 1 \in 1..clock'
    BY <1>4
  <2> QED
    BY <1>1, <1>2, <2>1, <2>2 DEF CInv, KnownHashes, new
<1>6. OneBroadcastOfHash'
  BY <1>1, <1>4 DEF CInv, KnownHashes, OneBroadcastOfHash, new
<1>7. InHandOnceOfHash' /\ SentApart' /\ CountedOnce'
  BY DEF CInv, InHandOnceOfHash, SentApart, CountedOnce
<1>8. NotYetCast'
  <2>1. \A n : ~Cast(n, clock + 1)
    BY <1>4 DEF Cast, CInv, KnownHashes
  <2>2. \A g \in InHand : g.block.hash # clock + 1
    BY <1>4 DEF CInv, KnownHashes
  <2> QED
    BY <1>1, <1>2, <1>3, <2>1, <2>2 DEF CInv, NotYetCast, new
<1>9. RevotedLast'
  <2> SUFFICES ASSUME NEW n \in Replica, NEW hash \in 1..clock',
                      Revoted(n, hash)
               PROVE  /\ Settled(hash)'
                      /\ \A v \in pendingVote1 : ~(v.at = n /\ v.hash = hash)
    BY <1>3 DEF RevotedLast
  <2>1. hash \in 1..clock
    BY DEF Revoted, CInv, KnownHashes
  <2>2. Settled(hash) /\ \A v \in pendingVote1 : ~(v.at = n /\ v.hash = hash)
    BY <2>1 DEF CInv, RevotedLast
  <2> QED
    BY <1>1, <1>2, <1>4, <2>1, <2>2 DEF Settled, new
<1>10. \A n \in Replica : IsFiniteSet(round1Map'[n])
  BY DEF CInv
<1> QED
  BY <1>5, <1>6, <1>7, <1>8, <1>9, <1>10 DEF CInv

LEMMA RecBlockCounts ==
    ASSUME CInv, TypeOK', NEW p \in proposals, RecBlock(p)
    PROVE  CInv'
<1> DEFINE here == [at |-> Urls[p.next], block |-> p.block]
<1>1. /\ UNCHANGED <<pendingVote1, pendingVote2, round1Map, round2Map, verified,
                     clock>>
      /\ verifying' \subseteq verifying \cup {here}
      /\ proposals' = (proposals \ {p}) \cup Rest(p)
  BY DEF RecBlock, tallyVars
<1>2. p = [block |-> p.block, next |-> p.next] /\ p.next \in 1..Len(Urls)
  BY DEF CInv, TypeOK
<1>3. p.next \in p.next..Len(Urls)
  BY <1>2, UrlType
<1>4. /\ ~Cast(here.at, here.block.hash)
      /\ \A g \in InHand : ~(g.at = here.at /\ g.block.hash = here.block.hash)
  BY <1>3 DEF CInv, NotYetCast
<1>5. here.at = Urls[p.next] /\ here.block = p.block
  OBVIOUS
<1> HIDE DEF here
<1>6. \A g \in InHand' : g \in InHand \/ g = here
  BY <1>1 DEF InHand
<1>7. \A q \in proposals' :
         \/ q \in proposals /\ q # p
         \/ q.block = p.block /\ q.next = p.next + 1
  BY <1>1, <1>2 DEF Rest
<1>8. \A i \in p.next + 1..Len(Urls) :
         i \in p.next..Len(Urls) /\ Urls[i] # Urls[p.next]
  <2> SUFFICES ASSUME NEW i \in p.next + 1..Len(Urls)
               PROVE  i \in p.next..Len(Urls) /\ Urls[i] # Urls[p.next]
    OBVIOUS
  <2>1. i \in 1..Len(Urls) /\ i # p.next /\ i \in p.next..Len(Urls)
    BY <1>2, UrlType
  <2> QED
    BY <1>2, <2>1, UrlsAssumption
<1>9. \A n, hash : /\ Cast(n, hash)' <=> Cast(n, hash)
                   /\ Revoted(n, hash)' <=> Revoted(n, hash)
  BY <1>1 DEF Cast, Revoted
<1>10. KnownHashes'
  BY <1>1, <1>5, <1>6, <1>7 DEF CInv, KnownHashes
<1>11. OneBroadcastOfHash'
  <2>1. \A q \in proposals' : q = [block |-> q.block, next |-> q.next]
    BY DEF TypeOK
  <2> QED
    BY <1>7, <2>1 DEF CInv, OneBroadcastOfHash
<1>12. InHandOnceOfHash'
  <2>1. /\ \A g \in verifying :
              ~(g.at = here.at /\ g.block.hash = here.block.hash)
        /\ \A g \in verified :
              ~(g.at = here.at /\ g.block.hash = here.block.hash)
    BY <1>4, InHandFacts DEF CInv
  <2> QED
    BY <1>1, <2>1 DEF CInv, InHandOnceOfHash
<1>13. NotYetCast'
  <2>1. \A g \in InHand' : ~Cast(g.at, g.block.hash)
    BY <1>4, <1>6 DEF CInv, NotYetCast
  <2>2. ASSUME NEW q \in proposals', NEW i \in q.next..Len(Urls)
        PROVE  /\ ~Cast(Urls[i], q.block.hash)
               /\ \A g \in InHand' :
                     ~(g.at = Urls[i] /\ g.block.hash = q.block.hash)
    <3>1. CASE q \in proposals /\ q # p
      <4>1. q.block.hash # here.block.hash
        BY <1>5, <3>1 DEF CInv, OneBroadcastOfHash
      <4> QED
        BY <1>6, <3>1, <4>1 DEF CInv, NotYetCast
    <3>2. CASE q.block = p.block /\ q.next = p.next + 1
      <4>1. i \in p.next..Len(Urls) /\ Urls[i] # here.at
        BY <1>5, <1>8, <3>2
      <4> QED
        BY <1>6, <3>2, <4>1 DEF CInv, NotYetCast
    <3> QED
      BY <1>7, <3>1, <3>2
  <2> QED
    BY <1>9, <2>1, <2>2 DEF NotYetCast
<1>14. RevotedLast'
  BY <1>1, <1>5, <1>6, <1>7, <1>9 DEF CInv, RevotedLast, Settled
<1>15. SentApart' /\ CountedOnce' /\ \A n \in Replica : IsFiniteSet(round1Map'[n])
  BY <1>1 DEF CInv, SentApart, CountedOnce
<1> QED
  BY <1>10, <1>11, <1>12, <1>13, <1>14, <1>15 DEF CInv

LEMMA VerifyCounts ==
    ASSUME CInv, TypeOK', NEW g \in verifying, Verify(g)
    PROVE  CInv'
<1> DEFINE done == [at |-> g.at, block |-> g.block,
                    vote |-> Extends(g.at, g.block)]
<1>1. /\ verifying' = verifying \ {g}
      /\ verified' = verified \cup {done}
      /\ UNCHANGED <<pendingVote1, pendingVote2, round1Map, round2Map,
                     proposals, clock>>
  BY DEF Verify, tallyVars
<1>2. done.at = g.at /\ done.block = g.block
  OBVIOUS
<1> HIDE DEF done
<1>3. InHand' \subseteq InHand
  BY <1>1, <1>2, InHandFacts DEF CInv, InHand
<1>4. \A n, hash : /\ Cast(n, hash)' <=> Cast(n, hash)
                   /\ Revoted(n, hash)' <=> Revoted(n, hash)
  BY <1>1 DEF Cast, Revoted
<1>5. InHandOnceOfHash'
  BY <1>1, <1>2 DEF CInv, InHandOnceOfHash
<1>6. KnownHashes' /\ OneBroadcastOfHash' /\ SentApart' /\ CountedOnce'
  BY <1>1, <1>3 DEF CInv, KnownHashes, OneBroadcastOfHash, SentApart, CountedOnce
<1>7. NotYetCast' /\ RevotedLast'
  BY <1>1, <1>3, <1>4 DEF CInv, NotYetCast, RevotedLast, Settled
<1>8. \A n \in Replica : IsFiniteSet(round1Map'[n])
  BY <1>1 DEF CInv
<1> QED
  BY <1>5, <1>6, <1>7, <1>8 DEF CInv

(* The first vote of a replica on a block is cast as it takes the block    *)
(* up, which it does once, and before anybody revotes.                     *)
LEMMA SetTmpBCounts ==
    ASSUME CInv, TypeOK', NEW g \in verified, SetTmpB(g)
    PROVE  CInv'
<1> DEFINE hash == g.block.hash
           taken == [at |-> g.at, block |-> g.block]
<1>1. /\ verified' = verified \ {g}
      /\ UNCHANGED <<pendingVote2, round1Map, round2Map, verifying, proposals,
                     clock>>
  BY DEF SetTmpB, tallyVars
<1>2. PICK to \in Reach :
         pendingVote1' = pendingVote1 \cup
            {[at |-> n, from |-> g.at, hash |-> hash, vote |-> g.vote] : n \in to}
  BY DEF SetTmpB
<1>3. \A v \in pendingVote1' :
         \/ v \in pendingVote1
         \/ /\ v.from = g.at /\ v.hash = hash
            /\ v = [at |-> v.at, from |-> g.at, hash |-> hash, vote |-> g.vote]
  BY <1>2
<1>4. taken \in InHand /\ g.at \in Replica /\ taken.at = g.at
      /\ taken.block.hash = hash
  BY InHandFacts DEF CInv
<1>5. ~Cast(g.at, hash) /\ hash \in 1..clock
  BY <1>4 DEF CInv, NotYetCast, KnownHashes
<1>6. \A n \in Replica : ~Revoted(n, hash)
  BY <1>4, <1>5 DEF CInv, RevotedLast, Settled
<1>7. InHand' \subseteq InHand
      /\ \A h \in InHand' : ~(h.at = g.at /\ h.block.hash = hash)
  <2>1. \A h \in verifying \cup (verified \ {g}) :
           ~(h.at = g.at /\ h.block.hash = hash)
    BY DEF CInv, InHandOnceOfHash
  <2> QED
    BY <1>1, <2>1 DEF InHand
<1> HIDE DEF taken, hash
<1>8. \A n, h : /\ Cast(n, h)' => Cast(n, h) \/ (n = g.at /\ h = hash)
                /\ Revoted(n, h)' <=> Revoted(n, h)
  BY <1>1, <1>3 DEF Cast, Revoted
<1>9. KnownHashes'
  BY <1>1, <1>3, <1>5, <1>7 DEF CInv, KnownHashes
<1>10. OneBroadcastOfHash' /\ InHandOnceOfHash'
  BY <1>1 DEF CInv, OneBroadcastOfHash, InHandOnceOfHash
<1>11. NotYetCast'
  <2>1. \A p \in proposals : \A i \in p.next..Len(Urls) :
           ~(Urls[i] = g.at /\ p.block.hash = hash)
    BY <1>4 DEF CInv, NotYetCast
  <2> QED
    BY <1>1, <1>7, <1>8, <2>1 DEF CInv, NotYetCast
<1>12. RevotedLast'
  BY <1>1, <1>3, <1>6, <1>7, <1>8 DEF CInv, RevotedLast, Settled
<1>13. SentApart'
  <2>1. \A v \in pendingVote1 : ~(v.from = g.at /\ v.hash = hash)
    BY <1>5 DEF Cast
  <2> QED
    BY <1>1, <1>3, <2>1 DEF CInv, SentApart
<1>14. CountedOnce'
  <2>1. \A m \in Replica : \A e \in round1Map[m] :
           ~(e.from = g.at /\ e.key[3] = hash)
    BY <1>5 DEF Cast
  <2>2. \A v \in pendingVote1' : v.at \in Replica
    BY VoteTypes DEF TypeOK, Vote
  <2> QED
    BY <1>1, <1>3, <2>1, <2>2 DEF CInv, CountedOnce
<1>15. \A n \in Replica : IsFiniteSet(round1Map'[n])
  BY <1>1 DEF CInv
<1> QED
  BY <1>9, <1>10, <1>11, <1>12, <1>13, <1>14, <1>15 DEF CInv

(* A vote moves into the first tally.  The one that completes it finds     *)
(* everybody's there, so nobody has yet to vote, and no second one can     *)
(* complete it again.                                                      *)
LEMMA Vote1Counts ==
    ASSUME CInv, TypeOK', NEW v \in pendingVote1, Vote1(v)
    PROVE  CInv'
<1> DEFINE key   == VoteKey(v.at, v.hash)
           entry == [key |-> key, from |-> v.from, vote |-> v.vote]
           votes == Filed(round1Map[v.at], key) \cup {entry}
           re    == Enough(Cardinality({e \in votes : e.vote}))
<1>1. /\ pendingVote1' = pendingVote1 \ {v}
      /\ round1Map' = [round1Map EXCEPT ![v.at] = @ \cup {entry}]
      /\ UNCHANGED <<round2Map, verifying, verified, proposals, clock>>
  BY DEF Vote1
<1>2. /\ v.at \in Replica /\ v.from \in Replica
      /\ v.hash \in 1..clock /\ v.vote \in BOOLEAN
  BY VoteTypes DEF CInv, KnownHashes
<1>3. key[3] = v.hash
  BY DEF VoteKey
<1>4. entry.from = v.from /\ entry.key[3] = v.hash /\ entry.key = key
  BY <1>3
<1>5. /\ \A n \in Replica : \A e \in round1Map'[n] :
            e \in round1Map[n] \/ (n = v.at /\ e = entry)
      /\ round1Map[v.at] \subseteq round1Map'[v.at]
      /\ entry \in round1Map'[v.at]
  <2> HIDE DEF entry
  <2> QED
    BY <1>1, <1>2 DEF CInv, TypeOK
<1>6. \A n \in Replica : IsFiniteSet(round1Map'[n])
  <2>1. IsFiniteSet(round1Map[v.at] \cup {entry})
    BY <1>2, FS_AddElement DEF CInv
  <2> HIDE DEF entry
  <2> QED
    BY <1>1, <1>2, <2>1 DEF CInv, TypeOK
<1>7. \A e \in round1Map[v.at] : ~(v.from = e.from /\ v.hash = e.key[3])
  BY <1>2 DEF CInv, CountedOnce
<1>8. \A n \in Replica : \A d, e \in round1Map'[n] :
         d.from = e.from /\ d.key[3] = e.key[3] => d = e
  BY <1>4, <1>5, <1>7 DEF CInv, CountedOnce
<1>9. Full(votes) =>
         \A m \in Replica : \E e \in round1Map'[v.at] :
            e.from = m /\ e.key[3] = v.hash
  <2> SUFFICES ASSUME Full(votes)
               PROVE  \A m \in Replica : \E e \in round1Map'[v.at] :
                         e.from = m /\ e.key[3] = v.hash
    OBVIOUS
  <2> DEFINE sender == [e \in votes |-> e.from]
  <2>1. votes \subseteq round1Map'[v.at] /\ \A e \in votes : e.key[3] = v.hash
    BY <1>3, <1>4, <1>5 DEF Filed
  <2>2. IsFiniteSet(votes)
    BY <1>2, <1>6, <2>1, FS_Subset
  <2>3. \A e \in votes : e.from \in Replica
    <3>1. round1Map'[v.at] \subseteq Entry
      BY <1>2 DEF TypeOK
    <3> QED
      BY <2>1, <3>1 DEF Entry
  <2> HIDE DEF votes, key, entry
  <2>4. \A d, e \in votes : sender[d] = sender[e] => d = e
    BY <1>2, <1>8, <2>1
  <2>5. sender \in [votes -> Replica]
    BY <2>3
  <2>6. Cardinality(votes) >= Nodes
    BY NodesType DEF Full
  <2> HIDE DEF sender
  <2>7. \A m \in Replica : \E e \in votes : sender[e] = m
    BY <2>2, <2>4, <2>5, <2>6, AllReplicas
  <2> QED
    BY <2>1, <2>7 DEF sender
<1>10. pendingVote2' = pendingVote2
       \/ /\ Full(votes)
          /\ \E to \in Reach : pendingVote2' = pendingVote2 \cup
                {[at |-> n, from |-> v.at, hash |-> v.hash, vote |-> re]
                   : n \in to}
  BY DEF Vote1
<1> HIDE DEF entry, key, votes, re
<1>11. \A n, hash : Cast(n, hash)' => Cast(n, hash)
  BY <1>1, <1>2, <1>4, <1>5 DEF Cast
<1>12. ~Revoted(v.at, v.hash)
  BY <1>2 DEF CInv, RevotedLast
<1>13. \A w \in pendingVote2' :
          \/ w \in pendingVote2
          \/ /\ w.from = v.at /\ w.hash = v.hash /\ Full(votes)
             /\ w = [at |-> w.at, from |-> v.at, hash |-> v.hash, vote |-> re]
  BY <1>10
<1>14. \A n, hash : Revoted(n, hash)' =>
          Revoted(n, hash) \/ (n = v.at /\ hash = v.hash /\ Full(votes))
  BY <1>1, <1>13 DEF Revoted
<1>15. Full(votes) =>
          /\ Settled(v.hash)
          /\ \A w \in pendingVote1' : ~(w.at = v.at /\ w.hash = v.hash)
  <2> SUFFICES ASSUME Full(votes)
               PROVE  /\ Settled(v.hash)
                      /\ \A w \in pendingVote1' : ~(w.at = v.at /\ w.hash = v.hash)
    OBVIOUS
  <2>1. \A m \in Replica : Cast(m, v.hash)
    <3> SUFFICES ASSUME NEW m \in Replica PROVE Cast(m, v.hash)
      OBVIOUS
    <3>1. PICK e \in round1Map'[v.at] : e.from = m /\ e.key[3] = v.hash
      BY <1>9
    <3> QED
      BY <1>2, <1>4, <1>5, <3>1 DEF Cast
  <2>2. \A g \in InHand : g.block.hash # v.hash
    BY <2>1, InHandFacts DEF CInv, NotYetCast
  <2>3. \A p \in proposals : p.block.hash # v.hash
    <3> SUFFICES ASSUME NEW p \in proposals, p.block.hash = v.hash
                 PROVE  FALSE
      OBVIOUS
    <3>1. p.next \in p.next..Len(Urls) /\ Urls[p.next] \in Replica
      BY UrlType DEF CInv, TypeOK
    <3> QED
      BY <2>1, <3>1 DEF CInv, NotYetCast
  <2>4. ASSUME NEW w \in pendingVote1', w.at = v.at, w.hash = v.hash
        PROVE  FALSE
    <3>1. w \in pendingVote1 /\ w # v /\ w.from \in Replica
      BY <1>1, VoteTypes DEF CInv
    <3>2. PICK e \in round1Map'[v.at] : e.from = w.from /\ e.key[3] = v.hash
      BY <1>9, <3>1
    <3>3. w.from # v.from
      BY <2>4, <3>1 DEF CInv, SentApart
    <3>4. e \in round1Map[v.at]
      BY <1>2, <1>4, <1>5, <3>2, <3>3
    <3> QED
      BY <1>2, <2>4, <3>1, <3>2, <3>4 DEF CInv, CountedOnce
  <2> QED
    BY <2>2, <2>3, <2>4 DEF Settled
<1>16. InHand' = InHand
  BY <1>1 DEF InHand
<1>17. KnownHashes'
  BY <1>1, <1>2, <1>4, <1>5, <1>13, <1>16 DEF CInv, KnownHashes
<1>18. OneBroadcastOfHash' /\ InHandOnceOfHash' /\ NotYetCast'
  BY <1>1, <1>11, <1>16 DEF CInv, OneBroadcastOfHash, InHandOnceOfHash, NotYetCast
<1>19. RevotedLast'
  <2>1. \A hash : Settled(hash)' <=> Settled(hash)
    BY <1>1, <1>16 DEF Settled
  <2> QED
    BY <1>1, <1>14, <1>15, <2>1 DEF CInv, RevotedLast
<1>20. SentApart'
  <2>1. \A w \in pendingVote2 : ~(w.from = v.at /\ w.hash = v.hash)
    BY <1>12 DEF Revoted
  <2> QED
    BY <1>1, <1>13, <2>1 DEF CInv, SentApart
<1>21. CountedOnce'
  <2>1. \A w \in pendingVote1' : \A e \in round1Map'[w.at] :
           ~(w.from = e.from /\ w.hash = e.key[3])
    <3>1. \A w \in pendingVote1' : w.at \in Replica /\ w \in pendingVote1 /\ w # v
      BY <1>1, VoteTypes DEF CInv
    <3>2. \A w \in pendingVote1' :
             ~(w.at = v.at /\ w.from = v.from /\ w.hash = v.hash)
      BY <3>1 DEF CInv, SentApart
    <3> QED
      BY <1>4, <1>5, <3>1, <3>2 DEF CInv, CountedOnce
  <2>2. \A w \in pendingVote2' : \A e \in round2Map[w.at] :
           ~(w.from = e.from /\ w.hash = e.key[3])
    <3>1. \A m \in Replica : \A e \in round2Map[m] :
             ~(e.from = v.at /\ e.key[3] = v.hash)
      BY <1>12 DEF Revoted
    <3>2. \A w \in pendingVote2' : w.at \in Replica
      BY DEF TypeOK, Vote
    <3> QED
      BY <1>13, <3>1, <3>2 DEF CInv, CountedOnce
  <2> QED
    BY <1>1, <1>8, <2>1, <2>2 DEF CInv, CountedOnce
<1> QED
  BY <1>6, <1>17, <1>18, <1>19, <1>20, <1>21 DEF CInv

LEMMA Vote2Counts ==
    ASSUME CInv, TypeOK', NEW v \in pendingVote2, Vote2(v)
    PROVE  CInv'
<1> DEFINE key   == VoteKey(v.at, v.hash)
           entry == [key |-> key, from |-> v.from, vote |-> v.vote]
<1>1. /\ pendingVote2' = pendingVote2 \ {v}
      /\ round2Map' = [round2Map EXCEPT ![v.at] = @ \cup {entry}]
      /\ UNCHANGED <<round1Map, pendingVote1, verifying, verified, proposals,
                     clock>>
  BY DEF Vote2
<1>2. v.at \in Replica /\ v.hash \in 1..clock
  BY VoteTypes DEF CInv, KnownHashes
<1>3. entry.from = v.from /\ entry.key[3] = v.hash
  BY DEF VoteKey
<1> HIDE DEF entry
<1>4. \A n \in Replica : \A e \in round2Map'[n] :
         e \in round2Map[n] \/ (n = v.at /\ e = entry)
  BY <1>1, <1>2 DEF CInv, TypeOK
<1>5. InHand' = InHand /\ \A n, hash : Cast(n, hash)' <=> Cast(n, hash)
  BY <1>1 DEF InHand, Cast
<1>6. \A n, hash : Revoted(n, hash)' => Revoted(n, hash)
  BY <1>1, <1>3, <1>4 DEF Revoted
<1>7. KnownHashes'
  BY <1>1, <1>2, <1>3, <1>4, <1>5 DEF CInv, KnownHashes
<1>8. OneBroadcastOfHash' /\ InHandOnceOfHash' /\ NotYetCast' /\ SentApart'
  BY <1>1, <1>5
  DEF CInv, OneBroadcastOfHash, InHandOnceOfHash, NotYetCast, SentApart
<1>9. RevotedLast'
  BY <1>1, <1>5, <1>6 DEF CInv, RevotedLast, Settled
<1>10. CountedOnce'
  <2>1. \A e \in round2Map[v.at] : ~(v.from = e.from /\ v.hash = e.key[3])
    BY <1>2 DEF CInv, CountedOnce
  <2>2. \A n \in Replica : \A d, e \in round2Map'[n] :
           d.from = e.from /\ d.key[3] = e.key[3] => d = e
    BY <1>3, <1>4, <2>1 DEF CInv, CountedOnce
  <2>3. \A w \in pendingVote2' : \A e \in round2Map'[w.at] :
           ~(w.from = e.from /\ w.hash = e.key[3])
    <3>1. \A w \in pendingVote2' : w.at \in Replica /\ w \in pendingVote2 /\ w # v
      BY <1>1, VoteTypes DEF CInv
    <3>2. \A w \in pendingVote2' :
             ~(w.at = v.at /\ w.from = v.from /\ w.hash = v.hash)
      BY <3>1 DEF CInv, SentApart
    <3> QED
      BY <1>3, <1>4, <3>1, <3>2 DEF CInv, CountedOnce
  <2> QED
    BY <1>1, <2>2, <2>3 DEF CInv, CountedOnce
<1>11. \A n \in Replica : IsFiniteSet(round1Map'[n])
  BY <1>1 DEF CInv
<1> QED
  BY <1>7, <1>8, <1>9, <1>10, <1>11 DEF CInv

LEMMA HandlersCount ==
    ASSUME CInv, TypeOK', Handlers
    PROVE  CInv'
<1>1. ASSUME UNCHANGED <<verifying, verified, pendingVote1, pendingVote2,
                         round1Map, round2Map, clock>>,
             proposals' \subseteq proposals
      PROVE  CInv'
  BY <1>1, ShrinkCounts
<1>2. ASSUME NEW g \in pendingInfo, SendTransV2(g) PROVE CInv'
  BY <1>1, <1>2 DEF SendTransV2, tallyVars, voteVars
<1>3. ASSUME NEW p \in proposals, LoseBlock(p) PROVE CInv'
  BY <1>1, <1>3 DEF LoseBlock, tallyVars, voteVars
<1>4. ASSUME NEW s \in storing, StoreBlock(s) PROVE CInv'
  BY <1>1, <1>4 DEF StoreBlock, tallyVars
<1> QED
  BY <1>2, <1>3, <1>4, RecBlockCounts, VerifyCounts, SetTmpBCounts, Vote1Counts,
     Vote2Counts DEF Handlers

LEMMA NextCInv == CInv /\ [Next]_vars => CInv'
<1> SUFFICES ASSUME CInv, [Next]_vars PROVE CInv'
  OBVIOUS
<1>1. TypeOK'
  BY NextType DEF CInv
<1>2. ASSUME UNCHANGED <<verifying, verified, pendingVote1, pendingVote2,
                         round1Map, round2Map, clock, proposals>>
      PROVE  CInv'
  BY <1>1, <1>2, ShrinkCounts
<1>3. CASE UNCHANGED vars
  BY <1>2, <1>3 DEF vars, tallyVars, voteVars
<1>4. CASE SendTxs
  BY <1>2, <1>4 DEF SendTxs, tallyVars, voteVars
<1>5. ASSUME NEW t \in pendingTran, ReceiveTran(t) PROVE CInv'
  BY <1>1, <1>2, <1>5, NewBlockCounts DEF ReceiveTran, voteVars
<1> QED
  BY <1>1, <1>3, <1>4, <1>5, HandlersCount DEF Next, System

(* A replica casts one vote of each round on a block. *)
THEOREM CountingInvariant == Spec => []CInv
<1>1. Init => CInv  BY InitCInv
<1>2. CInv /\ [Next]_vars => CInv'  BY NextCInv
<1> QED  BY <1>1, <1>2, PTL DEF Spec

(* No vote is counted twice, and none is on its way that was counted: a    *)
(* tally of Nodes entries is one of all replicas.                          *)
THEOREM CountedOnceHolds == Spec => []CountedOnce
<1>1. CInv => CountedOnce
  BY DEF CInv
<1> QED
  BY <1>1, CountingInvariant, PTL
----------------------------------------------------------------------------
(* Certificates. *)

(* An entry filed is never taken out of a tally of a running replica. *)
LEMMA CertifiedGrows ==
    ASSUME NEW n \in Replica, IsFiniteSet(round2Map'[n]),
           round2Map[n] \subseteq round2Map'[n]
    PROVE  Certified(n) \subseteq Certified(n)'
<1> SUFFICES ASSUME NEW d \in round2Map[n],
                    4 * Cardinality({e \in round2Map[n] : e.key = d.key /\ e.vote})
                      > 3 * Nodes
             PROVE  d.key[3] \in Certified(n)'
  BY DEF Certified
<1> DEFINE old == {e \in round2Map[n] : e.key = d.key /\ e.vote}
           new == {e \in round2Map'[n] : e.key = d.key /\ e.vote}
<1>1. old \subseteq new /\ new \subseteq round2Map'[n]
  OBVIOUS
<1>2. IsFiniteSet(new)
  BY <1>1, FS_Subset
<1>3. IsFiniteSet(old) /\ Cardinality(old) <= Cardinality(new)
  BY <1>1, <1>2, FS_Subset
<1>4. Cardinality(old) \in Nat /\ Cardinality(new) \in Nat
  BY <1>2, <1>3, FS_CardinalityType
<1>5. 4 * Cardinality(old) > 3 * Nodes
  OBVIOUS
<1> HIDE DEF old, new
<1>6. 4 * Cardinality(new) > 3 * Nodes
  BY <1>3, <1>4, <1>5, NodesType
<1> QED
  BY <1>6 DEF Certified, new

LEMMA InitSealInv == Init => SealInv
<1> SUFFICES ASSUME Init PROVE SealInv
  OBVIOUS
<1>1. /\ round2Map = [n \in Replica |-> {}]
      /\ storing = {}
      /\ \A n \in Replica : Len(chain[n]) = 1
  BY DEF Init, Fresh
<1>2. \A n \in Replica : IsFiniteSet(round2Map[n])
  BY <1>1, FS_EmptySet
<1>3. StoredIsCertified
  <2>1. ASSUME NEW n \in Replica, NEW i \in 2..Height(n) PROVE FALSE
    <3>1. Height(n) = 1
      BY <1>1 DEF Height
    <3> QED
      BY <3>1
  <2> QED
    BY <2>1 DEF StoredIsCertified
<1> QED
  BY <1>1, <1>2, <1>3, InitType DEF SealInv

LEMMA SealFrame ==
    ASSUME SealInv, TypeOK', UNCHANGED <<round2Map, chain>>,
           storing' \subseteq storing
    PROVE  SealInv'
<1>1. StoredIsCertified'
  <2>1. \A n \in Replica : Height(n)' = Height(n) /\ Certified(n)' = Certified(n)
    BY DEF Height, Certified
  <2> QED
    BY <2>1 DEF SealInv, StoredIsCertified
<1> QED
  BY <1>1 DEF SealInv, Certified

(* The revote that has a block stored completes its certificate. *)
LEMMA Vote2Seals ==
    ASSUME SealInv, TypeOK', NEW v \in pendingVote2, Vote2(v)
    PROVE  SealInv'
<1> DEFINE key   == VoteKey(v.at, v.hash)
           entry == [key |-> key, from |-> v.from, vote |-> v.vote]
           votes == Filed(round2Map[v.at], key) \cup {entry}
           yes   == {e \in votes : e.vote}
<1>1. /\ round2Map' = [round2Map EXCEPT ![v.at] = @ \cup {entry}]
      /\ chain' = chain
      /\ \A s \in storing' :
            \/ s \in storing
            \/ s = [at |-> v.at, hash |-> v.hash] /\ Enough(Cardinality(yes))
  BY DEF Vote2, stateVars
<1>2. v.at \in Replica
  BY VoteTypes DEF SealInv
<1>3. entry.key = key /\ key[3] = v.hash
  BY DEF VoteKey
<1>4. \A n \in Replica : /\ IsFiniteSet(round2Map'[n])
                         /\ round2Map[n] \subseteq round2Map'[n]
  <2>1. IsFiniteSet(round2Map[v.at] \cup {entry})
    BY <1>2, FS_AddElement DEF SealInv
  <2> HIDE DEF entry
  <2> QED
    BY <1>1, <1>2, <2>1 DEF SealInv, TypeOK
<1>5. round2Map'[v.at] = round2Map[v.at] \cup {entry}
  <2> HIDE DEF entry
  <2> QED
    BY <1>1, <1>2 DEF SealInv, TypeOK
<1>6. Enough(Cardinality(yes)) => v.hash \in Certified(v.at)'
  <2> SUFFICES ASSUME Enough(Cardinality(yes))
               PROVE  v.hash \in Certified(v.at)'
    OBVIOUS
  <2>1. entry \in round2Map'[v.at]
    BY <1>5
  <2> HIDE DEF entry, key
  <2>2. yes = {e \in round2Map'[v.at] : e.key = key /\ e.vote}
    BY <1>3, <1>5 DEF Filed
  <2> QED
    BY <1>3, <2>1, <2>2 DEF Certified, Enough
<1>7. \A n \in Replica : Certified(n) \subseteq Certified(n)'
  BY <1>4, CertifiedGrows
<1>8. \A s \in storing : s.at \in Replica
  BY DEF SealInv, TypeOK
<1> HIDE DEF yes
<1>9. \A s \in storing' : s.hash \in Certified(s.at)'
  BY <1>1, <1>6, <1>7, <1>8 DEF SealInv
<1>10. StoredIsCertified'
  BY <1>1, <1>7 DEF SealInv, StoredIsCertified, Height
<1> QED
  BY <1>4, <1>9, <1>10 DEF SealInv

(* CheckAndStore stores what its caller had counted: it compares the hash  *)
(* of tmpBlock with that of the tally under the lock.                      *)
LEMMA StoreSeals ==
    ASSUME SealInv, TypeOK', NEW s \in storing, StoreBlock(s), Open(s.at, s.hash)
    PROVE  SealInv'
<1> DEFINE n == s.at
<1>1. /\ storing' \subseteq storing
      /\ chain' = [chain EXCEPT ![n] = Append(@, tmpBlock[n])]
      /\ round2Map' = round2Map
  BY DEF StoreBlock, Store, tallyVars
<1>2. n \in Replica /\ chain[n] \in Seq(Block) /\ tmpBlock[n] \in Block
  BY DEF SealInv, TypeOK
<1>3. /\ chain'[n] = Append(chain[n], tmpBlock[n])
      /\ \A m \in Replica \ {n} : chain'[m] = chain[m]
  BY <1>1, <1>2 DEF SealInv, TypeOK
<1>4. tmpBlock[n].hash \in Certified(n)
  BY DEF Open, SealInv
<1>5. \A m \in Replica : Certified(m)' = Certified(m)
  BY <1>1 DEF Certified
<1>6. StoredIsCertified'
  <2> SUFFICES ASSUME NEW m \in Replica, NEW i \in 2..Len(chain'[m])
               PROVE  chain'[m][i].hash \in Certified(m)
    BY <1>5 DEF StoredIsCertified, Height
  <2>1. CASE m # n
    BY <1>3, <2>1 DEF SealInv, StoredIsCertified, Height
  <2>2. CASE m = n
    <3>1. \/ i \in 2..Len(chain[n]) /\ chain'[n][i] = chain[n][i]
          \/ chain'[n][i] = tmpBlock[n]
      BY <1>2, <1>3, <2>2
    <3> QED
      BY <1>2, <1>4, <2>2, <3>1 DEF SealInv, StoredIsCertified, Height
  <2> QED
    BY <2>1, <2>2
<1>7. \A t \in storing' : t.hash \in Certified(t.at)'
  BY <1>1 DEF SealInv, Certified
<1> QED
  BY <1>1, <1>6, <1>7 DEF SealInv

LEMMA HandlersSeal ==
    ASSUME SealInv, TypeOK', Handlers
    PROVE  SealInv'
<1>1. ASSUME UNCHANGED <<round2Map, chain, storing>> PROVE SealInv'
  BY <1>1, SealFrame
<1>2. ASSUME NEW s \in storing, StoreBlock(s) PROVE SealInv'
  <2>1. CASE Open(s.at, s.hash)
    BY <1>2, <2>1, StoreSeals
  <2>2. CASE ~Open(s.at, s.hash)
    BY <1>2, <2>2, SealFrame DEF StoreBlock, stateVars, tallyVars
  <2> QED
    BY <2>1, <2>2
<1>3. ASSUME NEW v \in pendingVote1, Vote1(v) PROVE SealInv'
  BY <1>1, <1>3 DEF Vote1, stateVars
<1>4. ASSUME NEW v \in pendingVote2, Vote2(v) PROVE SealInv'
  BY <1>4, Vote2Seals
<1> QED
  BY <1>1, <1>2, <1>3, <1>4
  DEF Handlers, SendTransV2, RecBlock, LoseBlock, Verify, SetTmpB, stateVars,
      tallyVars, voteVars

LEMMA NextSealInv == SealInv /\ [Next]_vars => SealInv'
<1> SUFFICES ASSUME SealInv, [Next]_vars PROVE SealInv'
  OBVIOUS
<1>1. TypeOK'
  BY NextType DEF SealInv
<1>2. ASSUME UNCHANGED <<round2Map, chain, storing>> PROVE SealInv'
  BY <1>1, <1>2, SealFrame
<1> QED
  BY <1>1, <1>2, HandlersSeal
  DEF vars, Next, System, SendTxs, ReceiveTran, stateVars, tallyVars, voteVars

(* What a replica stores, more than three quarters of the replicas have    *)
(* revoted for under one key, whatever else happened in between.           *)
THEOREM StoredIsCertifiedHolds == Spec => []StoredIsCertified
<1>1. Init => SealInv  BY InitSealInv
<1>2. SealInv /\ [Next]_vars => SealInv'  BY NextSealInv
<1>3. SealInv => StoredIsCertified  BY DEF SealInv
<1> QED  BY <1>1, <1>2, <1>3, PTL DEF Spec
----------------------------------------------------------------------------
(* The counters. *)

(* Division with remainder has one result. *)
LEMMA OneQuotient ==
    ASSUME NEW d \in Nat \ {0}, NEW q \in Nat, NEW r \in Nat,
           NEW s \in Nat, NEW t \in Nat, s < d, t < d, s + d * q = t + d * r
    PROVE  q = r /\ s = t
<1>1. ASSUME q + 1 <= r PROVE FALSE
  <2>1. d * (q + 1) <= d * r
    BY <1>1
  <2>2. d * (q + 1) = d * q + d
    OBVIOUS
  <2> QED
    BY <2>1, <2>2
<1>2. ASSUME r + 1 <= q PROVE FALSE
  <2>1. d * (r + 1) <= d * q
    BY <1>2
  <2>2. d * (r + 1) = d * r + d
    OBVIOUS
  <2> QED
    BY <2>1, <2>2
<1>3. q = r
  BY <1>1, <1>2
<1> QED
  BY <1>3

LEMMA InitKInv == Init => KInv
<1> SUFFICES ASSUME Init, NEW n \in Replica
             PROVE  CountersOf(n, 0)
  BY InitType DEF KInv
<1>1. /\ Len(chain[n]) = 1
      /\ times[n] = 0
      /\ transinblock[n] = TransInBlock
  BY DEF Init, Fresh
<1> QED
  BY <1>1, CounterAssumption DEF CountersOf

(* A store advances the counters with the chain: the last block of a size  *)
(* begins the next size.                                                   *)
LEMMA StoreCounters ==
    ASSUME KInv, NEW s \in storing, Store(s.at), NEW q \in Nat,
           s.at \in Replica, CountersOf(s.at, q)
    PROVE  CountersOf(s.at, q)' \/ CountersOf(s.at, q + 1)'
<1> DEFINE n == s.at
<1>1. /\ times[n] \in Nat /\ transinblock[n] \in Nat
      /\ chain[n] \in Seq(Block) /\ tmpBlock[n] \in Block
  BY DEF KInv, TypeOK
<1>2. /\ chain'[n] = Append(chain[n], tmpBlock[n])
      /\ times'[n] = NextTimes(n)
      /\ transinblock'[n] = NextSize(n)
  BY DEF Store, KInv, TypeOK
<1>3. Len(chain'[n]) = Len(chain[n]) + 1 /\ Len(chain[n]) \in Nat
  BY <1>1, <1>2
<1>4. CASE times[n] + 1 < Rounds
  <2>1. NextTimes(n) = times[n] + 1 /\ NextSize(n) = transinblock[n]
    BY <1>1, <1>4, CounterAssumption DEF NextTimes, NextSize, LastOfSize
  <2> QED
    BY <1>1, <1>2, <1>3, <1>4, <2>1, CounterAssumption DEF CountersOf
<1>5. CASE ~(times[n] + 1 < Rounds)
  <2>1. NextTimes(n) = 0 /\ NextSize(n) = transinblock[n] + TransChangeStep
    BY <1>1, <1>5, CounterAssumption DEF NextTimes, NextSize, LastOfSize
  <2>2. times[n] + 1 = Rounds
    BY <1>1, <1>5, CounterAssumption DEF CountersOf
  <2> DEFINE blocks == Rounds * q
             growth == TransChangeStep * q
  <2>3. /\ Rounds * (q + 1) = blocks + Rounds /\ blocks \in Nat
        /\ TransChangeStep * (q + 1) = growth + TransChangeStep /\ growth \in Nat
    BY CounterAssumption
  <2>4. /\ Len(chain[n]) = times[n] + blocks + 1
        /\ transinblock[n] = TransInBlock + growth
    BY DEF CountersOf
  <2> HIDE DEF blocks, growth
  <2>5. Len(chain'[n]) = times'[n] + Rounds * (q + 1) + 1
    <3>1. times'[n] = 0 /\ times[n] \in Nat /\ Rounds \in Nat
      BY <1>1, <1>2, <2>1, CounterAssumption
    <3>2. Len(chain'[n]) = times[n] + blocks + 1 + 1
      BY <1>3, <2>4
    <3>3. Len(chain'[n]) = times'[n] + (blocks + Rounds) + 1
      BY <2>2, <2>3, <3>1, <3>2
    <3> QED
      BY <2>3, <3>3
  <2>6. transinblock'[n] = TransInBlock + TransChangeStep * (q + 1)
    <3>1. transinblock'[n] = TransInBlock + (growth + TransChangeStep)
      BY <1>2, <2>1, <2>3, <2>4, CounterAssumption
    <3> QED
      BY <2>3, <3>1
  <2>7. times'[n] < Rounds
    BY <1>2, <2>1, CounterAssumption
  <2> QED
    BY <2>5, <2>6, <2>7 DEF CountersOf
<1> QED
  BY <1>4, <1>5

LEMMA NextKInv == KInv /\ [Next]_vars => KInv'
<1> SUFFICES ASSUME KInv, [Next]_vars PROVE KInv'
  OBVIOUS
<1>1. TypeOK'
  BY NextType DEF KInv
<1>2. CASE UNCHANGED <<chain, times, transinblock>>
  BY <1>1, <1>2 DEF KInv, CountersOf
<1>3. ASSUME NEW s \in storing, Store(s.at) PROVE KInv'
  <2>1. s.at \in Replica
    BY DEF KInv, TypeOK
  <2>2. PICK q \in Nat : CountersOf(s.at, q)
    BY <2>1 DEF KInv
  <2>3. \E r \in Nat : CountersOf(s.at, r)'
    BY <1>3, <2>1, <2>2, StoreCounters
  <2>4. ASSUME NEW n \in Replica \ {s.at}
        PROVE  \E r \in Nat : CountersOf(n, r)'
    <3>1. PICK r \in Nat : CountersOf(n, r)
      BY DEF KInv
    <3>2. /\ chain'[n] = chain[n]
          /\ times'[n] = times[n]
          /\ transinblock'[n] = transinblock[n]
      BY <1>3 DEF Store, KInv, TypeOK
    <3> QED
      BY <3>1, <3>2 DEF CountersOf
  <2> QED
    BY <1>1, <2>3, <2>4 DEF KInv
<1>4. CASE UNCHANGED vars
  BY <1>2, <1>4 DEF vars, stateVars
<1>5. CASE Next
  BY <1>2, <1>3, <1>5
  DEF Next, System, Handlers, SendTxs, SendTransV2, RecBlock, LoseBlock, Verify,
      SetTmpB, Vote1, Vote2, StoreBlock, ReceiveTran, stateVars
<1> QED
  BY <1>4, <1>5

LEMMA QuotientOf ==
    ASSUME NEW d \in Nat \ {0}, NEW q \in Nat, NEW s \in Nat, s < d
    PROVE  (s + d * q) \div d = q
<1> DEFINE a == s + d * q
<1>1. a \in Nat
  OBVIOUS
<1> HIDE DEF a
<1>2. a \div d \in Nat /\ a % d \in Nat /\ a % d < d
  BY <1>1
<1>3. a = (a % d) + d * (a \div d)
  BY <1>1
<1>4. s + d * q = (a % d) + d * (a \div d)
  BY <1>3 DEF a
<1>5. q = a \div d
  BY <1>2, <1>4, OneQuotient
<1> QED
  BY <1>5 DEF a

(* The size is a function of the height, and grows with it. *)
LEMMA SizeOfHeight ==
    ASSUME KInv, NEW n \in Replica
    PROVE  transinblock[n] =
              TransInBlock + TransChangeStep * ((Len(chain[n]) - 1) \div Rounds)
<1>1. PICK q \in Nat : CountersOf(n, q)
  BY DEF KInv
<1>2. times[n] \in Nat
  BY DEF KInv, TypeOK
<1> DEFINE blocks == Rounds * q
<1>3. blocks \in Nat /\ Len(chain[n]) = times[n] + blocks + 1
  BY <1>1, CounterAssumption DEF CountersOf
<1> HIDE DEF blocks
<1>4. Len(chain[n]) - 1 = times[n] + blocks
  BY <1>2, <1>3
<1>5. (times[n] + blocks) \div Rounds = q
  BY <1>1, <1>2, QuotientOf, CounterAssumption DEF CountersOf, blocks
<1> QED
  BY <1>1, <1>4, <1>5 DEF CountersOf

LEMMA SizesGrow ==
    ASSUME KInv, NEW m \in Replica, NEW n \in Replica,
           Len(chain[m]) <= Len(chain[n])
    PROVE  transinblock[m] <= transinblock[n]
<1>1. PICK q \in Nat : CountersOf(m, q)
  BY DEF KInv
<1>2. PICK r \in Nat : CountersOf(n, r)
  BY DEF KInv
<1>3. times[m] \in Nat /\ times[n] \in Nat
  BY DEF KInv, TypeOK
<1>4. q <= r
  <2> SUFFICES ASSUME r + 1 <= q PROVE FALSE
    OBVIOUS
  <2> DEFINE a == Rounds * q
             b == Rounds * r
  <2>1. Rounds * (r + 1) <= Rounds * q
    BY CounterAssumption
  <2>2. Rounds * (r + 1) = Rounds * r + Rounds
    BY CounterAssumption
  <2>3. a \in Nat /\ b \in Nat /\ b + Rounds <= a
    BY <2>1, <2>2, CounterAssumption
  <2>4. /\ Len(chain[m]) = times[m] + a + 1
        /\ Len(chain[n]) = times[n] + b + 1 /\ times[n] < Rounds
    BY <1>1, <1>2 DEF CountersOf
  <2> HIDE DEF a, b
  <2> QED
    BY <1>3, <2>3, <2>4, CounterAssumption
<1>5. TransChangeStep * q <= TransChangeStep * r
  BY <1>4, CounterAssumption
<1> DEFINE a == TransChangeStep * q
           b == TransChangeStep * r
<1>6. a \in Nat /\ b \in Nat /\ a <= b
  BY <1>5, CounterAssumption
<1>7. transinblock[m] = TransInBlock + a /\ transinblock[n] = TransInBlock + b
  BY <1>1, <1>2 DEF CountersOf
<1> HIDE DEF a, b
<1> QED
  BY <1>6, <1>7, CounterAssumption

LEMMA SameKeyFollows == KInv => SameHeightSameKey
<1> SUFFICES ASSUME KInv, NEW m \in Replica, NEW n \in Replica,
                    Height(m) = Height(n)
             PROVE  RoundKey(m) = RoundKey(n)
  BY DEF SameHeightSameKey
<1>1. PICK q \in Nat : CountersOf(m, q)
  BY DEF KInv
<1>2. PICK r \in Nat : CountersOf(n, r)
  BY DEF KInv
<1>3. times[m] \in Nat /\ times[n] \in Nat
  BY DEF KInv, TypeOK
<1>4. times[m] + Rounds * q = times[n] + Rounds * r
  <2> DEFINE a == Rounds * q
             b == Rounds * r
  <2>1. a \in Nat /\ b \in Nat
    BY CounterAssumption
  <2>2. times[m] + a + 1 = times[n] + b + 1
    BY <1>1, <1>2 DEF CountersOf, Height
  <2> HIDE DEF a, b
  <2>3. times[m] + a = times[n] + b
    BY <1>3, <2>1, <2>2
  <2> QED
    BY <2>3 DEF a, b
<1>5. q = r /\ times[m] = times[n]
  BY <1>1, <1>2, <1>3, <1>4, OneQuotient, CounterAssumption DEF CountersOf
<1> QED
  BY <1>1, <1>2, <1>5 DEF CountersOf, RoundKey

(* Replicas of one height file messages under the same counters, for every *)
(* number of blocks of a size and every growth of the size.                *)
THEOREM SameHeightSameKeyHolds == Spec => []SameHeightSameKey
<1>1. Init => KInv  BY InitKInv
<1>2. KInv /\ [Next]_vars => KInv'  BY NextKInv
<1> QED  BY <1>1, <1>2, SameKeyFollows, PTL DEF Spec

-----------------------------------------------------------------------------
(* With one start, the rounds of the leader follow one another: SInv is    *)
(* inductive.  It says what IInv says of the blocks without remembering    *)
(* the past of the tally, so that it also holds when replicas restart      *)
(* (ConsensusFaults) and when the transactions are counted (TxRound).      *)

(* The transactions and goroutines of a round. *)
LEMMA RoundTypes ==
    ASSUME TypeOK
    PROVE  /\ \A g \in pendingInfo :
                 /\ g.at \in Replica /\ g.trigger \in Trigger
                 /\ g = [at |-> g.at, trigger |-> g.trigger]
           /\ \A e \in commonTransMap :
                 /\ e.key[1] \in Nat /\ e.key[2] \in Nat
                 /\ e.tran.from \in Replica
                 /\ e = [key |-> e.key, tran |-> e.tran]
           /\ \A t \in Current : t.from \in Replica
           /\ times[Leader] \in Nat /\ transinblock[Leader] \in Nat
<1>1. \A e \in commonTransMap :
         /\ e.key \in Nat \X Nat /\ e.tran \in Tran
         /\ e = [key |-> e.key, tran |-> e.tran]
  BY DEF TypeOK
<1>2. \A t \in Sent : t \in Tran
  BY <1>1 DEF Sent, Filed
<1>3. \A t \in Current : t \in Tran
  BY <1>2 DEF TypeOK, Current
<1>4. \A t \in Tran : t.from \in Replica
  BY DEF Tran
<1>5. times[Leader] \in Nat /\ transinblock[Leader] \in Nat
  BY ReplicaAssumption DEF TypeOK
<1> QED
  BY <1>1, <1>3, <1>4, <1>5 DEF TypeOK

LEMMA InitSInv == Init => SInv
<1> SUFFICES ASSUME Init PROVE SInv
  OBVIOUS
<1>1. IInv
  BY InitIInv
<1>2. pendingInfo = {} /\ pendingTran = {} /\ commonTransMap = {} /\ starts = 0
  BY DEF Init, Fresh
<1>3. Current = {} /\ Triggers = {}
  BY <1>2 DEF Current, Sent, Filed, Triggers
<1> QED
  BY <1>1, <1>2, <1>3
  DEF IInv, LInv, SInv, RoundInv, OneRound, SentOnce, PastKeys, NotStarted,
      LeaderMakes, LeaderStuck, Alive

(* Goroutines run only once an operator has started the test. *)
LEMMA RunningStarted ==
    ASSUME SInv, Handlers \/ pendingTran # {}
    PROVE  starts # 0
<1> SUFFICES ASSUME Init PROVE FALSE
  BY DEF SInv, RoundInv, NotStarted
<1> QED
  BY DEF Init, Fresh, Handlers

(* Nodes entries, no two of one replica, are one of each replica.          *)
LEMMA FullHasAll ==
    ASSUME NEW S, IsFiniteSet(S), \A e \in S : e.tran.from \in Replica,
           \A d, e \in S : d.tran.from = e.tran.from => d = e,
           Cardinality(S) >= Nodes
    PROVE  \A n \in Replica : \E e \in S : e.tran.from = n
<1> DEFINE sender == [e \in S |-> e.tran.from]
<1>1. sender \in [S -> Replica]
  OBVIOUS
<1>2. \A d, e \in S : sender[d] = sender[e] => d = e
  OBVIOUS
<1> HIDE DEF sender
<1>3. \A n \in Replica : \E e \in S : sender[e] = n
  BY <1>1, <1>2, AllReplicas
<1> QED
  BY <1>3 DEF sender

(* A full tally has a transaction of every replica, so the round has       *)
(* nothing on its way.                                                     *)
LEMMA FullRound ==
    ASSUME SInv, Cardinality(Filed(commonTransMap, RoundKey(Leader))) >= Nodes
    PROVE  /\ \A n \in Replica : \E t \in Sent : t.from = n
           /\ pendingInfo = {}
           /\ pendingTran = {}
<1> DEFINE S == Filed(commonTransMap, RoundKey(Leader))
<1>1. S \subseteq commonTransMap /\ \A e \in S : e.key = RoundKey(Leader)
  BY DEF Filed
<1>2. IsFiniteSet(S)
  BY <1>1, FS_Subset DEF SInv, RoundInv
<1>3. \A e \in S : e.tran \in Sent
  BY DEF Sent
<1>4. Cardinality(S) >= Nodes
  OBVIOUS
<1> HIDE DEF S
<1>5. \A e \in S : e.tran.from \in Replica
  BY <1>1, RoundTypes DEF SInv, BInv
<1>6. \A d, e \in S : d.tran.from = e.tran.from => d = e
  BY <1>1, <1>3, RoundTypes DEF SInv, BInv, RoundInv, SentOnce, Current
<1>7. \A n \in Replica : \E e \in S : e.tran.from = n
  BY <1>2, <1>4, <1>5, <1>6, FullHasAll
<1>8. \A n \in Replica : \E t \in Sent : t.from = n
  BY <1>3, <1>7
<1>9. pendingInfo = {}
  BY <1>8, RoundTypes DEF SInv, BInv, RoundInv, SentOnce, Current
<1>10. pendingTran = {}
  <2> SUFFICES ASSUME NEW t \in pendingTran PROVE FALSE
    OBVIOUS
  <2>1. t \in Current /\ t.from \in Replica
    BY RoundTypes DEF SInv, BInv, Current
  <2>2. PICK u \in Sent : u.from = t.from
    BY <1>8, <2>1
  <2>3. t = u
    BY <2>1, <2>2 DEF SInv, RoundInv, SentOnce, Current
  <2> QED
    BY <2>2, <2>3 DEF SInv, RoundInv, SentOnce
<1> QED
  BY <1>8, <1>9, <1>10

(* A block on top of the leader's current one means that the round that    *)
(* made it is over.                                                        *)
LEMMA NextBlockMeansFull ==
    ASSUME SInv, Alive, NEW b \in Made, b.index = Len(chain[Leader])
    PROVE  /\ \A n \in Replica : \E t \in Sent : t.from = n
           /\ pendingInfo = {}
           /\ pendingTran = {}
BY FullRound DEF SInv, RoundInv, LeaderMakes, FiredOnce

(* A step after the start that leaves the round alone, and gives the       *)
(* leader no block that is not proposed or in its hands already.           *)
LEMMA RoundFrame ==
    ASSUME SInv, starts # 0, Made' \subseteq Made,
           UNCHANGED <<commonTransMap, pendingInfo, pendingTran, starts>>,
           chain'[Leader] = chain[Leader], times'[Leader] = times[Leader],
           transinblock'[Leader] = transinblock[Leader],
           \A p \in proposals' : \E q \in proposals : p.block = q.block,
           \A g \in InHand' :
              g \in InHand \/ \E p \in proposals : g.block = p.block,
           \/ tmpBlock'[Leader] = tmpBlock[Leader]
           \/ \E g \in InHand : g.at = Leader /\ tmpBlock'[Leader] = g.block
    PROVE  RoundInv'
<1>1. /\ Filed(commonTransMap, RoundKey(Leader))' =
            Filed(commonTransMap, RoundKey(Leader))
      /\ Sent' = Sent
  BY DEF Sent, Filed, RoundKey
<1>2. Current' = Current /\ Triggers' = Triggers /\ (Alive' <=> Alive)
  BY <1>1 DEF Current, Triggers, Alive
<1>3. OneRound' /\ SentOnce' /\ PastKeys' /\ NotStarted'
  BY <1>1, <1>2 DEF SInv, RoundInv, OneRound, SentOnce, PastKeys, NotStarted
<1>4. LeaderMakes'
  BY <1>1, <1>2 DEF SInv, RoundInv, LeaderMakes, OnLeader, FiredOnce
<1>5. LeaderStuck'
  BY <1>2 DEF SInv, RoundInv, LeaderStuck
<1>6. IsFiniteSet(commonTransMap)'
  BY DEF SInv, RoundInv
<1> QED
  BY <1>3, <1>4, <1>5, <1>6 DEF RoundInv

(* The start is the first thing to happen. *)
LEMMA SendTxsRounds ==
    ASSUME MaxStarts <= 1, SInv, SendTxs
    PROVE  RoundInv'
<1>1. starts = 0 /\ starts' = 1
  BY CounterAssumption DEF SendTxs, SInv, BInv, TypeOK
<1>2. Init
  BY <1>1 DEF SInv, RoundInv, NotStarted
<1>3. PICK to \in Reach : pendingInfo' = pendingInfo \cup Testinfo(to, <<starts + 1, 0>>)
  BY DEF SendTxs
<1>4. /\ UNCHANGED <<chain, tmpBlock, times, transinblock, proposals, verifying,
                     verified, pendingTran, commonTransMap>>
      /\ pendingTran = {} /\ commonTransMap = {} /\ pendingInfo = {}
      /\ proposals = {} /\ verifying = {} /\ verified = {}
      /\ Len(chain[Leader]) = 1 /\ tmpBlock[Leader] = NoBlock
  BY <1>2, ReplicaAssumption
  DEF SendTxs, Init, Fresh, stateVars, tallyVars, voteVars
<1>5. Current' = {} /\ Sent' = {}
  BY <1>4 DEF Current, Sent, Filed
<1>6. \A g \in pendingInfo' : g.trigger = <<starts + 1, 0>>
  BY <1>3, <1>4 DEF Testinfo
<1>7. OneRound'
  BY <1>5, <1>6 DEF OneRound, Triggers
<1>8. SentOnce' /\ PastKeys' /\ NotStarted' /\ IsFiniteSet(commonTransMap)'
  BY <1>1, <1>4, <1>5, FS_EmptySet DEF SentOnce, PastKeys, NotStarted
<1>9. LeaderMakes'
  <2>1. Made' = Made /\ Made \subseteq {Genesis}
    BY <1>2, <1>4, MadeFrame, InitIInv
  <2> QED
    BY <1>4, <2>1 DEF LeaderMakes, OnLeader, FiredOnce, Genesis
<1>10. LeaderStuck'
  BY <1>4 DEF LeaderStuck, InHand, NoBlock
<1> QED
  BY <1>7, <1>8, <1>9, <1>10 DEF RoundInv

(* A replica's part in the round moves on to the leader, or is lost.  If   *)
(* it is the leader's own, no block can have been made in the round.       *)
LEMMA SendTransRounds ==
    ASSUME SInv, NEW g \in pendingInfo, SendTransV2(g), Made' = Made
    PROVE  RoundInv'
<1> DEFINE sent == [from |-> g.at, trigger |-> g.trigger,
                    prev |-> currBlock[g.at].hash]
<1>1. /\ pendingInfo' = pendingInfo \ {g}
      /\ UNCHANGED <<chain, times, transinblock, tmpBlock, commonTransMap,
                     proposals, verifying, verified, starts>>
  BY DEF SendTransV2, stateVars, tallyVars, voteVars
<1>2. pendingTran \subseteq pendingTran' /\ pendingTran' \subseteq pendingTran \cup {sent}
  BY DEF SendTransV2
<1>3. sent.from = g.at /\ sent.trigger = g.trigger
  OBVIOUS
<1> HIDE DEF sent
<1>4. /\ Filed(commonTransMap, RoundKey(Leader))' =
            Filed(commonTransMap, RoundKey(Leader))
      /\ Sent' = Sent
      /\ Current' \subseteq Current \cup {sent}
  BY <1>1, <1>2 DEF Sent, Filed, RoundKey, Current
<1>5. \A t \in Current : t.from # g.at
  BY DEF SInv, RoundInv, SentOnce
<1>6. \A h \in pendingInfo' : h.at # g.at
  <2>1. \A h \in pendingInfo : h.trigger = g.trigger
    BY DEF SInv, RoundInv, OneRound, Triggers
  <2> QED
    BY <1>1, <2>1, RoundTypes DEF SInv, BInv
<1>7. OneRound'
  <2>1. Triggers' \subseteq Triggers
    BY <1>1, <1>3, <1>4 DEF Triggers
  <2> QED
    BY <2>1 DEF SInv, RoundInv, OneRound
<1>8. SentOnce'
  <2>1. sent \notin Current
    BY <1>3, <1>5
  <2> QED
    BY <1>1, <1>2, <1>3, <1>4, <1>5, <1>6, <2>1
    DEF SInv, RoundInv, SentOnce, Current
<1>9. PastKeys' /\ NotStarted' /\ IsFiniteSet(commonTransMap)'
  <2>1. starts # 0
    BY RunningStarted DEF Handlers
  <2> QED
    BY <1>1, <2>1 DEF SInv, RoundInv, PastKeys, NotStarted
<1>10. Alive' => Alive
  BY <1>1, <1>3, <1>4 DEF Alive
<1>11. LeaderMakes'
  BY <1>1, <1>4, <1>10 DEF SInv, RoundInv, LeaderMakes, OnLeader, FiredOnce
<1>12. LeaderStuck'
  <2>1. CASE Alive
    <3>1. \A b \in Made : b.index # Len(chain[Leader])
      BY <2>1, NextBlockMeansFull
    <3>2. Len(chain[Leader]) # NoBlock.index
      BY ChainFacts, ReplicaAssumption DEF SInv, NoBlock
    <3> QED
      BY <1>1, <3>1, <3>2, MadeParts, MadeFrame, ReplicaAssumption
      DEF LeaderStuck
  <2>2. CASE ~Alive
    BY <1>1, <2>2, MadeFrame DEF SInv, RoundInv, LeaderStuck
  <2> QED
    BY <2>1, <2>2
<1> QED
  BY <1>7, <1>8, <1>9, <1>11, <1>12 DEF RoundInv

(* The message that fills the tally is the last of its round, and one of   *)
(* them was the leader's own: until then no block was on top of the        *)
(* leader's.                                                               *)
LEMMA ReceiveTranRounds ==
    ASSUME SInv, TypeOK', NEW t \in pendingTran, ReceiveTran(t)
    PROVE  SInv'
<1> DEFINE key   == RoundKey(Leader)
           entry == [key |-> key, tran |-> t]
           old   == Filed(commonTransMap, key)
           list  == old \cup {entry}
           new   == GenerateBlock(currBlock[Leader], clock + 1)
<1>1. /\ pendingTran' = pendingTran \ {t}
      /\ commonTransMap' = commonTransMap \cup list
      /\ UNCHANGED <<currBlock, chain, times, transinblock, tmpBlock,
                     pendingInfo, verifying, verified, pendingVote1,
                     pendingVote2, storing, starts>>
  BY DEF ReceiveTran, stateVars, voteVars
<1>2. commonTransMap' = commonTransMap \cup {entry}
  BY <1>1 DEF Filed
<1>3. Filed(commonTransMap, RoundKey(Leader))' = list
  BY <1>1, <1>2 DEF Filed, RoundKey
<1>4. Sent' = Sent \cup {t}
  <2>1. entry.tran = t
    OBVIOUS
  <2> HIDE DEF entry
  <2> QED
    BY <1>3, <2>1 DEF Sent
<1>5. Current' = Current
  BY <1>1, <1>4 DEF Current
<1>6. Triggers' = Triggers /\ (Alive' <=> Alive)
  BY <1>1, <1>5 DEF Triggers, Alive
<1>7. entry \notin old
  <2>1. t \notin Sent
    BY DEF SInv, RoundInv, SentOnce
  <2> QED
    BY <2>1 DEF Sent
<1>8. IsFiniteSet(commonTransMap)'
  BY <1>2, FS_AddElement DEF SInv, RoundInv
<1>9. /\ IsFiniteSet(list) /\ Cardinality(old) \in Nat
      /\ Cardinality(list) = Cardinality(old) + 1
  <2>1. IsFiniteSet(old)
    BY FS_Subset DEF Filed, SInv, RoundInv
  <2> QED
    BY <1>7, <2>1, FS_AddElement, FS_CardinalityType
<1>10. OneRound' /\ SentOnce'
  BY <1>1, <1>4, <1>5, <1>6 DEF SInv, RoundInv, OneRound, SentOnce, Current
<1>11. PastKeys'
  BY <1>1, <1>2, RoundTypes DEF SInv, BInv, RoundInv, PastKeys, RoundKey
<1>12. NotStarted'
  BY <1>1, RunningStarted DEF NotStarted
<1>13. ASSUME UNCHANGED <<proposals, clock>>
       PROVE  SInv'
  <2>1. BInv' /\ Made' = Made /\ InHand' = InHand
    BY <1>1, <1>13, NoBlocksStep, MadeFrame DEF SInv
  <2>2. OnLeader' = OnLeader
    BY <1>1, <2>1 DEF OnLeader
  <2>3. FiredOnce => FiredOnce'
    <3> SUFFICES ASSUME FiredOnce, \E b \in Made : b.index = Len(chain[Leader])
                 PROVE  Cardinality(list) >= Nodes
      BY <1>1, <1>3, <2>1 DEF FiredOnce
    <3>1. Cardinality(old) >= Nodes
      BY DEF FiredOnce
    <3> QED
      BY <1>9, NodesType, <3>1
  <2>4. LeaderMakes'
    BY <1>6, <2>2, <2>3 DEF SInv, RoundInv, LeaderMakes
  <2>5. LeaderStuck'
    BY <1>1, <1>6, <1>13, <2>1 DEF SInv, RoundInv, LeaderStuck
  <2> QED
    BY <1>8, <1>10, <1>11, <1>12, <2>1, <2>4, <2>5 DEF SInv, RoundInv
<1>14. ASSUME Full(list),
              clock' = clock + 1,
              proposals' = proposals \cup {Proposal(currBlock[Leader], clock + 1)}
       PROVE  SInv'
  <2>1. \A e \in list : e.tran \in Sent' /\ e.key = key
    BY <1>3 DEF Sent, Filed
  <2>2. \A e \in list : e.tran.from \in Replica
    <3>1. t.from \in Replica
      BY DEF SInv, BInv, TypeOK, Tran
    <3> QED
      BY <3>1, RoundTypes DEF Filed, SInv, BInv
  <2>3. \A d, e \in list : d.tran.from = e.tran.from => d = e
    <3>1. \A d, e \in list : d.tran.from = e.tran.from => d.tran = e.tran
      BY <1>4, <1>5, <2>1 DEF SInv, RoundInv, SentOnce, Current
    <3>2. \A e \in list : e = [key |-> e.key, tran |-> e.tran]
      BY RoundTypes DEF Filed, SInv, BInv
    <3> QED
      BY <2>1, <3>1, <3>2
  <2>4. PICK e \in list : e.tran.from = Leader
    <3> HIDE DEF list
    <3> QED
      BY <1>9, <1>14, <2>2, <2>3, FullHasAll, ReplicaAssumption, NodesType DEF Full
  <2>5. Alive /\ Alive'
    BY <1>6, <2>1, <2>4 DEF Alive, Current
  <2>6. OnLeader /\ FiredOnce
    BY <2>5 DEF SInv, RoundInv, LeaderMakes
  <2>7. \A b \in Made : b.index < Len(chain[Leader])
    <3>1. Cardinality(old) < Nodes
      BY <1>9, <1>14 DEF Full
    <3>2. \A b \in Made : b.index # Len(chain[Leader])
      BY <1>9, <2>6, <3>1, NodesType DEF FiredOnce
    <3>3. \A b \in Made : b.index \in Nat /\ b.index <= Len(chain[Leader])
      BY MadeTypes, <2>6 DEF SInv, OnLeader, Block
    <3>4. Len(chain[Leader]) \in Nat
      BY ChainFacts, ReplicaAssumption DEF SInv
    <3> QED
      BY <3>2, <3>3, <3>4
  <2>8. /\ BInv' /\ Made' = Made \cup {new}
        /\ new.index = Len(chain[Leader])
    BY <1>1, <1>14, <2>7, NewBlockStep DEF SInv
  <2>9. OnLeader'
    <3>1. Len(chain[Leader]) \in Nat
      BY ChainFacts, ReplicaAssumption DEF SInv
    <3> QED
      BY <1>1, <2>6, <2>8, <3>1 DEF OnLeader
  <2>10. FiredOnce'
    BY <1>3, <1>14, NodesType DEF FiredOnce, Full
  <2>11. LeaderMakes' /\ LeaderStuck'
    BY <2>5, <2>9, <2>10 DEF LeaderMakes, LeaderStuck
  <2> QED
    BY <1>8, <1>10, <1>11, <1>12, <2>8, <2>11 DEF SInv, RoundInv
<1> QED
  BY <1>13, <1>14 DEF ReceiveTran

(* A store moves the leader's counters on to a key nothing is filed under. *)
LEMMA KeysMoveOn ==
    ASSUME TypeOK, PastKeys, commonTransMap' = commonTransMap,
           times'[Leader] = NextTimes(Leader),
           transinblock'[Leader] = NextSize(Leader)
    PROVE  PastKeys' /\ Sent' = {}
<1>1. times[Leader] \in Nat /\ transinblock[Leader] \in Nat
  BY ReplicaAssumption DEF TypeOK
<1>2. \/ transinblock[Leader] < transinblock'[Leader]
      \/ /\ transinblock[Leader] = transinblock'[Leader]
         /\ times[Leader] < times'[Leader]
  BY <1>1, CounterAssumption DEF NextTimes, NextSize
<1>3. transinblock'[Leader] \in Nat /\ times'[Leader] \in Nat
  BY <1>1, CounterAssumption DEF NextTimes, NextSize
<1>4. PastKeys'
  BY <1>1, <1>2, <1>3, RoundTypes DEF PastKeys
<1>5. Filed(commonTransMap, RoundKey(Leader))' = {}
  <2> SUFFICES ASSUME NEW e \in commonTransMap, e.key = RoundKey(Leader)'
               PROVE  FALSE
    BY DEF Filed
  <2>1. e.key[1] = times'[Leader] /\ e.key[2] = transinblock'[Leader]
    BY DEF RoundKey
  <2> QED
    BY <1>1, <1>2, <1>3, <2>1, RoundTypes DEF PastKeys
<1> QED
  BY <1>4, <1>5 DEF Sent

(* What the leader stores is the block of its round, which is over.        *)
LEMMA LeaderStores ==
    ASSUME SInv, NEW s \in storing, StoreBlock(s), Open(s.at, s.hash),
           s.at = Leader, Made' \subseteq Made
    PROVE  RoundInv'
<1> DEFINE b == tmpBlock[Leader]
<1>1. /\ Store(Leader)
      /\ UNCHANGED <<tmpBlock, commonTransMap, pendingTran, proposals,
                     verifying, verified, starts>>
  BY DEF StoreBlock, tallyVars
<1>2. b \in Made /\ b.index = Len(chain[Leader])
  BY OpenNext DEF SInv
<1>3. Alive
  BY <1>2 DEF SInv, RoundInv, LeaderStuck
<1>4. pendingInfo = {} /\ pendingTran = {}
  BY <1>2, <1>3, NextBlockMeansFull
<1>5. \A c \in Made : c.index \in Nat /\ c.index <= Len(chain[Leader])
  BY <1>3, MadeTypes DEF SInv, RoundInv, LeaderMakes, OnLeader, Block
<1>6. Len(chain[Leader]) \in Nat /\ Len(chain'[Leader]) = Len(chain[Leader]) + 1
  <2>1. Leader \in Replica /\ chain[Leader] \in Seq(Block) /\ b \in Block
    BY ReplicaAssumption DEF SInv, BInv, TypeOK
  <2>2. chain'[Leader] = Append(chain[Leader], b)
    BY <1>1, <2>1 DEF Store, SInv, BInv, TypeOK
  <2> QED
    BY <2>1, <2>2
<1>7. PastKeys' /\ Sent' = {}
  <2>1. /\ times'[Leader] = NextTimes(Leader)
        /\ transinblock'[Leader] = NextSize(Leader)
    BY <1>1, ReplicaAssumption DEF Store, SInv, BInv, TypeOK
  <2> QED
    BY <1>1, <2>1, KeysMoveOn DEF SInv, BInv, RoundInv
<1>8. Current' = {}
  BY <1>1, <1>4, <1>7 DEF Current
<1>9. \A g \in pendingInfo' : g.trigger = <<0, b.hash>>
  BY <1>1, <1>4 DEF Store, Testinfo
<1>10. OneRound' /\ SentOnce'
  BY <1>1, <1>4, <1>8, <1>9 DEF OneRound, SentOnce, Triggers
<1>11. NotStarted'
  BY <1>1, RunningStarted DEF NotStarted, Handlers
<1>12. LeaderMakes'
  <2>1. OnLeader'
    BY <1>5, <1>6 DEF OnLeader
  <2>2. FiredOnce'
    BY <1>5, <1>6 DEF FiredOnce
  <2> QED
    BY <2>1, <2>2 DEF LeaderMakes
<1>13. LeaderStuck'
  <2>1. tmpBlock'[Leader].index # Len(chain'[Leader])
    BY <1>1, <1>2, <1>6
  <2>2. \A p \in proposals : p.block.index # Len(chain'[Leader])
    BY <1>5, <1>6, MadeParts
  <2>3. \A g \in InHand : g.block.index # Len(chain'[Leader])
    BY <1>5, <1>6, MadeParts
  <2>4. InHand' = InHand
    BY <1>1 DEF InHand
  <2> QED
    BY <1>1, <2>1, <2>2, <2>3, <2>4 DEF LeaderStuck
<1>14. IsFiniteSet(commonTransMap)'
  BY <1>1 DEF SInv, RoundInv
<1> QED
  BY <1>7, <1>10, <1>11, <1>12, <1>13, <1>14 DEF RoundInv

LEMMA StoreRounds ==
    ASSUME SInv, NEW s \in storing, StoreBlock(s), Made' \subseteq Made
    PROVE  RoundInv'
<1>1. starts # 0
  BY RunningStarted DEF Handlers
<1>2. /\ UNCHANGED <<tmpBlock, commonTransMap, pendingTran, proposals, starts>>
      /\ InHand' = InHand
  BY DEF StoreBlock, tallyVars, InHand
<1>3. CASE ~Open(s.at, s.hash)
  BY <1>1, <1>2, <1>3, RoundFrame DEF StoreBlock, stateVars
<1>4. CASE Open(s.at, s.hash) /\ s.at # Leader
  <2>1. Store(s.at) /\ pendingInfo' = pendingInfo
    BY <1>4 DEF StoreBlock, Store
  <2>2. /\ chain'[Leader] = chain[Leader] /\ times'[Leader] = times[Leader]
        /\ transinblock'[Leader] = transinblock[Leader]
    BY <1>4, <2>1, ReplicaAssumption DEF Store, SInv, BInv, TypeOK
  <2> QED
    BY <1>1, <1>2, <2>1, <2>2, RoundFrame
<1> QED
  BY <1>3, <1>4, LeaderStores

LEMMA HandlersRounds ==
    ASSUME SInv, TypeOK', Handlers
    PROVE  SInv'
<1>1. BInv' /\ Made' \subseteq Made
  BY HandlerBlocks DEF SInv
<1>2. starts # 0
  BY RunningStarted
<1>3. ASSUME NEW g \in pendingInfo, SendTransV2(g) PROVE RoundInv'
  <2>1. Made' = Made
    BY <1>3, MadeFrame DEF SendTransV2, stateVars, voteVars
  <2> QED
    BY <1>3, <2>1, SendTransRounds
<1>4. ASSUME NEW p \in proposals, RecBlock(p) \/ LoseBlock(p) PROVE RoundInv'
  <2>1. \A q \in proposals' : \E r \in proposals : q.block = r.block
    <3>1. \A q \in Rest(p) : q.block = p.block
      BY DEF Rest, SInv, BInv, TypeOK
    <3> QED
      BY <1>4, <3>1 DEF RecBlock, LoseBlock
  <2>2. \A g \in InHand' : g \in InHand \/ g.block = p.block
    BY <1>4 DEF RecBlock, LoseBlock, InHand, voteVars
  <2> QED
    BY <1>1, <1>2, <1>4, <2>1, <2>2, RoundFrame
    DEF RecBlock, LoseBlock, stateVars, tallyVars
<1>5. ASSUME NEW g \in verifying, Verify(g) PROVE RoundInv'
  <2> DEFINE done == [at |-> g.at, block |-> g.block,
                      vote |-> Extends(g.at, g.block)]
  <2>2. g = [at |-> done.at, block |-> done.block]
    BY <1>5 DEF SInv, BInv, TypeOK
  <2>3. verifying' = verifying \ {g} /\ verified' = verified \cup {done}
    BY <1>5 DEF Verify
  <2> HIDE DEF done
  <2>1. InHand' \subseteq InHand
    BY <1>5, <2>2, <2>3 DEF InHand
  <2> QED
    BY <1>1, <1>2, <1>5, <2>1, RoundFrame DEF Verify, stateVars, tallyVars
<1>6. ASSUME NEW g \in verified, SetTmpB(g) PROVE RoundInv'
  <2>1. InHand' \subseteq InHand
    BY <1>6 DEF SetTmpB, InHand
  <2> DEFINE taken == [at |-> g.at, block |-> g.block]
  <2>3. taken \in InHand /\ taken.at = g.at /\ taken.block = g.block
    BY <1>6 DEF InHand
  <2> HIDE DEF taken
  <2>4. /\ tmpBlock' = [tmpBlock EXCEPT ![g.at] = g.block]
        /\ tmpBlock \in [Replica -> Block] /\ g.at \in Replica
    BY <1>6 DEF SetTmpB, SInv, BInv, TypeOK
  <2>2. \/ tmpBlock'[Leader] = tmpBlock[Leader]
        \/ \E h \in InHand : h.at = Leader /\ tmpBlock'[Leader] = h.block
    BY <2>3, <2>4, ReplicaAssumption
  <2> QED
    BY <1>1, <1>2, <1>6, <2>1, <2>2, RoundFrame DEF SetTmpB, stateVars, tallyVars
<1>7. ASSUME UNCHANGED <<stateVars, tmpBlock, commonTransMap, pendingInfo,
                         pendingTran, proposals, verifying, verified, starts>>
      PROVE  RoundInv'
  BY <1>1, <1>2, <1>7, RoundFrame DEF stateVars, InHand
<1> QED
  BY <1>1, <1>3, <1>4, <1>5, <1>6, <1>7, StoreRounds
  DEF Handlers, Vote1, Vote2, SInv

LEMMA StutterRounds ==
    ASSUME SInv, UNCHANGED vars
    PROVE  SInv'
<1>1. TypeOK'
  BY NextType DEF SInv, BInv
<1>2. BInv' /\ Made' = Made /\ InHand' = InHand
  BY <1>1, NoBlocksStep, MadeFrame DEF SInv, vars, stateVars, voteVars
<1>3. Sent' = Sent
  BY DEF Sent, Filed, RoundKey, vars, stateVars, tallyVars
<1>4. CASE starts = 0
  <2>1. Init'
    BY <1>4 DEF SInv, RoundInv, NotStarted, Init, Fresh, vars, stateVars,
       tallyVars, voteVars
  <2> QED
    BY <1>2, <1>3, <1>4, <2>1
    DEF SInv, RoundInv, OneRound, SentOnce, PastKeys, NotStarted, LeaderMakes,
        LeaderStuck, Alive, OnLeader, FiredOnce, Current, Triggers, Filed,
        RoundKey, vars, stateVars, tallyVars
<1>5. CASE starts # 0
  BY <1>2, <1>5, RoundFrame DEF SInv, vars, stateVars, tallyVars
<1> QED
  BY <1>4, <1>5

LEMMA NextSInv ==
    ASSUME MaxStarts <= 1, SInv, [Next]_vars
    PROVE  SInv'
<1>1. TypeOK'
  BY NextType DEF SInv, BInv
<1>2. CASE SendTxs
  BY <1>1, <1>2, SendTxsBlocks, SendTxsRounds DEF SInv
<1> QED
  BY <1>1, <1>2, StutterRounds, HandlersRounds, ReceiveTranRounds
  DEF Next, System

(* After one start the leader has one round at a time, made of one         *)
(* transaction of each replica, and no block is made or stored while its   *)
(* tally is being filled: what a step keeps even where a restart has made  *)
(* the leader forget the tallies of its earlier rounds.                    *)
THEOREM RoundsFollow ==
    ASSUME MaxStarts <= 1
    PROVE  Spec => []SInv
<1>1. Init => SInv  BY InitSInv
<1>2. SInv /\ [Next]_vars => SInv'  BY NextSInv
<1> QED  BY <1>1, <1>2, PTL DEF Spec
=============================================================================
