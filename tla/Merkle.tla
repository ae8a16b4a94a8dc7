------------------------------- MODULE Merkle -------------------------------
(***************************************************************************)
(* The two Merkle trees of the repository: the one whose root is part of   *)
(* every block's hash (common/merkle_tree.go), and the tree object of      *)
(* lib/net/blockhandler.go with its rebuilds and its paths.                *)
(*                                                                         *)
(* Hashing is taken to be injective: the hash of a leaf is the text of its *)
(* transaction in a sequence of one, and that of a node the pair of its    *)
(* children's hashes.  Nodes are told apart by their level and position,   *)
(* so the levels stand for the pointers Left, Right and Parent.            *)
(***************************************************************************)
EXTENDS Naturals, Sequences, SequencesExt

CONSTANTS
    Content,   \* contents of leaves: texts of transactions
    MaxLeaves  \* bound: contents given to a tree

ASSUME MerkleAssumption == MaxLeaves \in Nat \ {0}

VARIABLES
    leafs,       \* Leafs: their contents, the duplicate included
    levels,      \* the nodes' hashes, from the leaves up to the root
    merkleRoot,  \* merkleRoot
    failed       \* whether the last operation returned an error

vars == <<leafs, levels, merkleRoot, failed>>

HashLeaf(c) == <<c>>

HashNode(l, r) == <<l, r>>

----------------------------------------------------------------------------
(* common/merkle_tree.go *)

(* A definition whose name ends in Bug is a faulty variant of the one that *)
(* follows it; nothing uses it.                                            *)
FirstAgainBug(nodes, j) ==
    HashNode(nodes[2 * j - 1], nodes[IF 2 * j > Len(nodes) THEN 1 ELSE 2 * j])

(* A node without a neighbour is paired with itself. *)
Pair(nodes, j) ==
    HashNode(nodes[2 * j - 1],
             nodes[IF 2 * j > Len(nodes) THEN 2 * j - 1 ELSE 2 * j])

NewLevel(nodes) == [j \in 1..(Len(nodes) + 1) \div 2 |-> Pair(nodes, j)]

(* The levels that the loop of NewMerkleTree goes through from a number of *)
(* nodes, and the node that is left.                                       *)
RECURSIVE Reduce(_)
Reduce(nodes) == IF Len(nodes) = 1 THEN nodes[1] ELSE Reduce(NewLevel(nodes))

HashLeaves(data) == [i \in 1..Len(data) |-> HashLeaf(data[i])]

(* The root for a block's transactions; a block without any has the hash   *)
(* of nothing.                                                             *)
GenerateMerkelRoot(data) ==
    IF data = <<>> THEN HashLeaf("nil") ELSE Reduce(HashLeaves(data))

----------------------------------------------------------------------------
(* lib/net/blockhandler.go *)

(* The leaves of a tree: an odd one is duplicated. *)
Leafs(cs) == IF Len(cs) % 2 = 1 THEN Append(cs, Last(cs)) ELSE cs

(* buildIntermediate, which stops at the level that pairs two nodes. *)
RECURSIVE BuildIntermediate(_)
BuildIntermediate(nl) ==
    IF Len(nl) = 2 THEN <<nl, NewLevel(nl)>>
                   ELSE <<nl>> \o BuildIntermediate(NewLevel(nl))

(* buildWithContent, and what its callers do with its results. *)
BuildWithContent(cs) ==
    LET built == BuildIntermediate(HashLeaves(Leafs(cs)))
    IN  /\ leafs' = Leafs(cs)
        /\ levels' = built
        /\ merkleRoot' = Last(built)[1]
        /\ failed' = FALSE

(* An error, of CalculateHash or for want of contents, is returned before  *)
(* anything of the tree is changed.                                        *)
Fail == failed' = TRUE /\ UNCHANGED <<leafs, levels, merkleRoot>>

Contents == UNION {[1..k -> Content] : k \in 0..MaxLeaves}

(* NewTree, which returns no tree for no contents. *)
Init ==
    \E cs \in Contents \ {<<>>} :
        LET built == BuildIntermediate(HashLeaves(Leafs(cs)))
        IN  /\ leafs = Leafs(cs)
            /\ levels = built
            /\ merkleRoot = Last(built)[1]
            /\ failed = FALSE

(* RebuildTree builds from all leaves, the duplicate being one by now. *)
RebuildTree == BuildWithContent(leafs) \/ Fail

RebuildTreeWith(cs) == IF cs = <<>> THEN Fail ELSE BuildWithContent(cs) \/ Fail

Next == RebuildTree \/ \E cs \in Contents : RebuildTreeWith(cs)

Spec == Init /\ [][Next]_vars

(* GetMerklePath: for the first leaf that equals the content, the sibling  *)
(* on each level, and whether it is the right one.                         *)
Position(c) == CHOOSE p \in 1..Len(leafs) :
                   /\ leafs[p] = c
                   /\ \A q \in 1..p - 1 : leafs[q] # c

Ancestor(p, k) == IF k = 1 THEN p ELSE 1 + (p - 1) \div 2 ^ (k - 1)

(* The parent's children are compared by their hashes. *)
Step(k, p) ==
    LET left  == 2 * ((p + 1) \div 2) - 1
        right == IF left = Len(levels[k]) THEN left ELSE left + 1
    IN  IF levels[k][left] = levels[k][p]
        THEN [hash |-> levels[k][right], isRight |-> TRUE]
        ELSE [hash |-> levels[k][left], isRight |-> FALSE]

GetMerklePath(c) ==
    [k \in 1..Len(levels) - 1 |-> Step(k, Ancestor(Position(c), k))]
----------------------------------------------------------------------------
(* What must hold.                                                         *)

(* The tree of a list of contents, seen from the top: the left subtree is  *)
(* full, the right one has what is left or, if that is nothing, is a copy. *)
RECURSIVE Subtree(_, _)
Subtree(data, height) ==
    IF height = 0 THEN HashLeaf(data[1])
    ELSE LET half == 2 ^ (height - 1)
             l == Subtree(SubSeq(data, 1, half), height - 1)
         IN  IF Len(data) <= half THEN HashNode(l, l)
             ELSE HashNode(l, Subtree(SubSeq(data, half + 1, Len(data)),
                                      height - 1))

Height(k) == CHOOSE h \in 0..k : 2 ^ h >= k /\ (h = 0 \/ 2 ^ (h - 1) < k)

Reference(data) == Subtree(data, Height(Len(data)))

(* The root is that of the reference tree over the leaves, and the block's *)
(* root over the same transactions is the same: the two constructions,     *)
(* level by level and recursive, agree once there are two transactions.    *)
RootIsReference ==
    /\ merkleRoot = Reference(leafs)
    /\ \A cs \in {leafs, Front(leafs)} :
          Leafs(cs) = leafs /\ Len(cs) > 1 =>
              GenerateMerkelRoot(cs) = merkleRoot

(* Hashing a leaf up its path leads to the root, whichever of several      *)
(* equal leaves the path is for, and whether or not a node is its own      *)
(* neighbour.                                                              *)
PathLeadsToRoot ==
    \A i \in 1..Len(leafs) :
        LET path == GetMerklePath(leafs[i])
            Up(h, s) == IF s.isRight THEN HashNode(h, s.hash)
                                     ELSE HashNode(s.hash, h)
        IN  FoldLeft(Up, HashLeaf(leafs[i]), path) = merkleRoot

(* Transactions of a given number have a root of their own. *)
RootDeterminesContents ==
    \A data \in [1..Len(leafs) -> Content] :
        GenerateMerkelRoot(data) = merkleRoot => data = leafs

(* Rebuilding a tree from its own leaves gives the same tree, although it  *)
(* takes the duplicate for a content.                                      *)
RebuildKeepsRoot ==
    [][RebuildTree => UNCHANGED <<leafs, levels, merkleRoot>>]_vars
=============================================================================
