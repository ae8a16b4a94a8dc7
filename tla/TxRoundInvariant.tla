-------------------------- MODULE TxRoundInvariant --------------------------
(***************************************************************************)
(* How the round with transactions in it (TxRound) implements the round    *)
(* without them (Consensus), and the inductive invariants behind the       *)
(* properties of TxRound.  A replica has sent its transactions, as far as  *)
(* Consensus is concerned, once it has read the current block, although    *)
(* it still fills its map and the message may be lost; and the leader has  *)
(* made a block once it has found the tally full, although it still looks  *)
(* the transactions up.                                                    *)
(***************************************************************************)
EXTENDS TxRound

(* The goroutines of testinfoHandler that have not read the current block. *)
Waiting ==
    pendingInfo \cup {[at |-> g.at, trigger |-> g.trigger] : g \in pulled}

Broadcast == {m.tran : m \in sent}

Tallies == {e.tran : e \in commonTransMap}

(* The messages the leader may have yet to handle, the lost ones included. *)
OnTheirWay == (Broadcast \cup {TranOf(g) : g \in filling}) \ Tallies

(* The goroutine of the leader that looks up the transactions of a block.  *)
Looks == {g \in looking : g.at = Leader}

Announced == proposals \cup {Proposal(g.old, clock + 1) : g \in Looks}

Generated == IF Looks = {} THEN clock ELSE clock + 1

Round == INSTANCE ConsensusCounting WITH
    pendingInfo <- Waiting,
    pendingTran <- OnTheirWay,
    proposals <- Announced,
    clock <- Generated

(* The round with the transactions implements the round without: what      *)
(* holds of the blocks there holds here.                                   *)
ImplementsRound == Round!Spec
----------------------------------------------------------------------------
PulledType ==
    /\ pulled \subseteq [at : Replica, trigger : Trigger, size : Nat]
    /\ filling \subseteq
          [at : Replica, trigger : Trigger, size : Nat, prev : Nat]
    /\ sent \subseteq [tran : Tran, size : Nat]
    /\ \A a \in arrived : a.at \in Replica \ {Leader}
    /\ \A g \in looking : g.at \in Replica
    /\ hashTranMap \in [Replica -> Nat]
    /\ clock \in Nat

(* A trigger makes a replica pull one list, which it broadcasts once. *)
ListOnce ==
    /\ \A g \in pulled : [at |-> g.at, trigger |-> g.trigger] \notin pendingInfo
    /\ \A g, h \in pulled : g.at = h.at /\ g.trigger = h.trigger => g = h
    /\ \A g \in filling : TranOf(g) \notin Broadcast
    /\ \A g, h \in filling : TranOf(g) = TranOf(h) => g = h
    /\ \A m, k \in sent : m.tran = k.tran => m = k
    /\ Tallies \subseteq Broadcast
    /\ pendingTran \subseteq Broadcast \ Tallies

(* The leader looks up one block at a time, and stores none meanwhile: no  *)
(* block is announced before it is generated.                              *)
OneLook ==
    /\ \A g, h \in Looks : g = h
    /\ \A g \in Looks : g.old = currBlock[Leader]
    /\ \A p \in proposals : p.block.hash <= clock

(* The invariant behind ImplementsRound. *)
MapInv ==
    /\ Round!IInv
    /\ PulledType
    /\ ListOnce
    /\ OneLook
----------------------------------------------------------------------------
(* The messages of the present round of the leader. *)
InRound == {m \in sent : m.tran \in Round!Current}

(* A round begins only with a size that is not too great. *)
SizeInRange == Round!Triggers # {} => transinblock[Leader] <= MaxTransInBlock

(* The lists of a round are no longer than the size of the leader, whose   *)
(* own list has it.                                                        *)
ListsFit ==
    /\ \A g \in pulled \cup filling :
          /\ g.size <= transinblock[Leader]
          /\ g.at = Leader => g.size = transinblock[Leader]
    /\ \A m \in sent : m.size <= transinblock[Leader]
    /\ \A m \in InRound : m.tran.from = Leader => m.size = transinblock[Leader]
    /\ hashTranMap[Leader] <= transinblock[Leader]

(* The leader has its own list in its map when it has sent it. *)
OwnListFilled ==
    (\E m \in InRound : m.tran.from = Leader) =>
        hashTranMap[Leader] = transinblock[Leader]

LooksFit ==
    \A g \in Looks :
        g.wanted = transinblock[Leader] /\ hashTranMap[Leader] = transinblock[Leader]

(* The invariant behind PullFits and BlockIsFull, with one start: the      *)
(* rounds follow one another, the counters are those of the height, and    *)
(* the lists have the sizes of the rounds.                                 *)
ListInv ==
    /\ SizeInRange
    /\ PullFits
    /\ ListsFit
    /\ OwnListFilled
    /\ LooksFit
    /\ BlockIsFull

SizeInv ==
    /\ MapInv
    /\ Round!SInv
    /\ Round!KInv
    /\ ListInv
=============================================================================
